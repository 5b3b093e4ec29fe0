-------------------------- MODULE PersistenceProofs --------------------------
(***************************************************************************)
(* Theorems about Persistence, for every set of children, every number of  *)
(* blocks, every set of save points and all the bounds.                    *)
(***************************************************************************)
EXTENDS Persistence, TLAPS

(* The type invariant in parts.  Versions are made one at a time: at most  *)
(* MaxWrites by Write, and at most one by each later run of the server,    *)
(* when it loads a dump of mixed versions.  A descriptor on the dump is    *)
(* open only once there is a dump.                                         *)
ServerType ==
  /\ status \in Statuses
  /\ stop \in BOOLEAN
  /\ db \in Versions
  /\ dirty \in Nat
  /\ since \in 0 .. MaxSince
  /\ bg_saving \in BOOLEAN
  /\ draws \in 0 .. MaxDraws
  /\ forked \in Versions
  /\ reported \in Versions
  /\ deceived \in BOOLEAN
  /\ acked \in Versions

CountType ==
  /\ written \in Versions
  /\ runs \in 1 .. MaxRuns
  /\ faults \in 0 .. MaxFaults
  /\ written <= MaxWrites + runs - 1

SaverType == saver \in [Savers -> SaverStates]

DiskType ==
  /\ disk \in [Temps \cup {"dump"} -> Contents \cup {NoFile}]
  /\ \A t \in Temps : disk[t] \in Contents
  /\ \A s \in Savers : saver[s].fd = "dump" => disk["dump"] \in Contents
  /\ harm \in [Temps \cup {"dump"} -> Harms]

TypeInv == ServerType /\ CountType /\ SaverType /\ DiskType

USE DEF Temps

LEMMA IdleType == Idle \in SaverStates
  BY BlocksAssumption, BoundAssumption DEF Idle, SaverStates, Versions

(* What an update of a saver's record keeps of its type.                   *)
LEMMA UpdateType ==
  ASSUME NEW r \in SaverStates,
         NEW pc \in {"free"} \cup Working \cup Exited,
         NEW fd \in Temps \cup {"dump", "gone"},
         NEW off \in 0 .. Blocks,
         NEW b \in BOOLEAN
  PROVE  /\ [r EXCEPT !.pc = pc, !.fd = fd, !.recent = b] \in SaverStates
         /\ [r EXCEPT !.pc = pc, !.off = off] \in SaverStates
         /\ [r EXCEPT !.off = off] \in SaverStates
         /\ [r EXCEPT !.fd = fd] \in SaverStates
  BY DEF SaverStates

LEMMA FlagType ==
  ASSUME NEW r \in SaverStates, NEW b \in BOOLEAN
  PROVE  /\ [r EXCEPT !.recent = b] \in SaverStates
         /\ [r EXCEPT !.recent = b].fd = r.fd
         /\ [r EXCEPT !.orphan = b] \in SaverStates
         /\ [r EXCEPT !.orphan = b].fd = r.fd
  BY DEF SaverStates

LEMMA NewFileType == NewFile \in Contents
  BY DEF NewFile, Contents

LEMMA InitType == Init => TypeInv
<1> SUFFICES ASSUME Init PROVE TypeInv
  OBVIOUS
<1>1. saver \in [Savers -> SaverStates]
  BY IdleType DEF Init
<1>2. /\ disk \in [Temps \cup {"dump"} -> Contents \cup {NoFile}]
      /\ \A t \in Temps : disk[t] \in Contents
  BY NewFileType, SaverAssumption DEF Init, Savers
<1>3. /\ 0 \in Versions
      /\ 0 <= MaxWrites + 1 - 1
      /\ 0 \in 0 .. MaxSince /\ 0 \in 0 .. MaxDraws
      /\ 1 \in 1 .. MaxRuns /\ 0 \in 0 .. MaxFaults
  BY BoundAssumption, SaveParamAssumption DEF Versions
<1>4. \A s \in Savers : saver[s].fd # "dump"
  BY DEF Init, Idle
<1>5. harm \in [Temps \cup {"dump"} -> Harms]
  BY DEF Init, Harms
<1> QED
  BY <1>1, <1>2, <1>3, <1>4, <1>5
     DEF Init, TypeInv, ServerType, CountType, SaverType, DiskType, Statuses

(* A flush changes one block of one file that exists.                      *)
LEMMA FlushType ==
  ASSUME TypeOK, NEW s \in Savers,
         saver[s].off < Blocks, saver[s].pc = "write",
         saver[s].fd = "dump" => disk["dump"] \in Contents
  PROVE  /\ Flush(s) \in [Temps \cup {"dump"} -> Contents \cup {NoFile}]
         /\ \A t \in Temps : Flush(s)[t] \in Contents
         /\ disk["dump"] \in Contents => Flush(s)["dump"] \in Contents
<1> DEFINE f == saver[s].fd
<1>1. /\ f \in Temps \cup {"dump", "gone"}
      /\ saver[s].snap \in Versions
      /\ saver[s].off + 1 \in 1 .. Blocks
  BY BlocksAssumption DEF TypeOK, SaverStates
<1>2. CASE f = "gone"
  BY <1>2 DEF Flush, TypeOK
<1>3. CASE f # "gone"
  <2>1. disk[f] \in Contents
    BY <1>1, <1>3, SaverAssumption DEF TypeOK, Savers
  <2>2. [disk[f] EXCEPT ![saver[s].off + 1] = saver[s].snap] \in Contents
    BY <1>1, <2>1 DEF Contents
  <2>3. Flush(s) = [disk EXCEPT ![f] = [disk[f] EXCEPT ![saver[s].off + 1] = saver[s].snap]]
    BY <1>3 DEF Flush
  <2> QED
    BY <1>1, <2>2, <2>3 DEF TypeOK
<1> QED
  BY <1>2, <1>3

(* A failing flush spares a file that is already harmed, and never makes   *)
(* one mixed; the dump is harmed by a saver that has it open only.         *)
LEMMA HarmedType ==
  ASSUME TypeInv, NEW s \in Savers, NEW how \in {"torn", "cut"}
  PROVE  /\ Harmed(s, how) \in [Temps \cup {"dump"} -> Harms]
         /\ \A f \in Temps \cup {"dump"} :
              /\ Harmed(s, how)[f] = "mixed" <=> harm[f] = "mixed"
              /\ f # saver[s].fd => Harmed(s, how)[f] = harm[f]
<1>1. harm \in [Temps \cup {"dump"} -> Harms]
  BY DEF TypeInv, DiskType
<1>2. CASE saver[s].fd = "gone"
  BY <1>1, <1>2 DEF Harmed
<1>3. CASE saver[s].fd # "gone"
  <2>1. saver[s].fd \in Temps \cup {"dump"}
    BY <1>3 DEF TypeInv, SaverType, SaverStates
  <2>2. Harmed(s, how) = [harm EXCEPT ![saver[s].fd] =
                            IF harm[saver[s].fd] = "none" THEN how ELSE harm[saver[s].fd]]
    BY <1>3 DEF Harmed
  <2>3. (IF harm[saver[s].fd] = "none" THEN how ELSE harm[saver[s].fd]) \in Harms
    BY <1>1, <2>1 DEF Harms
  <2> QED
    BY <1>1, <2>1, <2>2, <2>3
<1> QED
  BY <1>2, <1>3

LEMMA AfterReturnType ==
  ASSUME NEW s, NEW ok PROVE AfterReturn(s, ok) \in SaverStates
BY IdleType DEF AfterReturn, SaverStates, Exited, Idle

LEMMA ReboundType ==
  ASSUME TypeOK, NEW s \in Savers, NEW ok, NEW f, NEW now \in {"dump", "gone"}
  PROVE  Rebound(s, ok, f, now) \in [Savers -> SaverStates]
<1> SUFFICES ASSUME NEW t \in Savers
             PROVE  Rebound(s, ok, f, now)[t] \in SaverStates
  BY DEF Rebound
<1>1. AfterReturn(s, ok) \in SaverStates
  BY AfterReturnType
<1>2. saver[t] \in SaverStates
  BY DEF TypeOK
<1>3. /\ [saver[t] EXCEPT !.fd = now] \in SaverStates
      /\ [saver[t] EXCEPT !.fd = "gone"] \in SaverStates
  BY ZenonT(60), <1>2, UpdateType DEF SaverStates
<1> QED
  BY <1>1, <1>2, <1>3 DEF Rebound

LEMMA TypeInvOK == TypeInv <=> /\ TypeOK
                              /\ written <= MaxWrites + runs - 1
                              /\ DiskType
  BY DEF TypeInv, TypeOK, ServerType, CountType, SaverType, DiskType

(***************************************************************************)
(* Type correctness, action by action.                                     *)
(***************************************************************************)
LEMMA OpenTempType ==
  ASSUME TypeInv, NEW s \in Savers, OpenTemp(s) PROVE TypeInv'
<1> USE DEF OpenTemp
<1>1. PICK f \in Temps :
        /\ disk' = [disk EXCEPT ![f] = NewFile]
        /\ harm' = [harm EXCEPT ![f] = IF SameName(s) = {} THEN "none" ELSE "mixed"]
        /\ saver' = [saver EXCEPT ![s].pc = "write", ![s].fd = f,
                                  ![s].recent = TRUE]
  <2>1. FreshTemp(s) \subseteq Temps
    BY DEF FreshTemp
  <2>2. {saver[t].fd : t \in SameName(s)} \subseteq Temps
    BY DEF SameName
  <2> QED
    BY <2>1, <2>2
<1>2. SaverType'
  <2>1. saver[s] \in SaverStates
    BY DEF TypeInv, SaverType
  <2>2. [saver[s] EXCEPT !.pc = "write", !.fd = f, !.recent = TRUE] \in SaverStates
    <3>1. /\ "write" \in {"free"} \cup Working \cup Exited
          /\ f \in Temps \cup {"dump", "gone"} /\ saver[s].off \in 0 .. Blocks /\ TRUE \in BOOLEAN
      BY <2>1 DEF SaverStates, Working
    <3> QED
      BY ONLY <2>1, <3>1, UpdateType
  <2> QED
    BY <1>1, <2>2 DEF TypeInv, SaverType
<1>3. DiskType'
  <2>1. \A t \in Savers : saver'[t].fd = "dump" => saver[t].fd = "dump"
    BY <1>1, SaverAssumption DEF TypeInv, SaverType, Savers, SaverStates
  <2>2. harm' \in [Temps \cup {"dump"} -> Harms]
    BY <1>1 DEF TypeInv, DiskType, Harms
  <2> QED
    BY <1>1, <2>1, <2>2, NewFileType, SaverAssumption DEF TypeInv, DiskType, Savers
<1>4. ServerType' /\ CountType'
  BY DEF TypeInv, ServerType, CountType, server, history
<1> QED
  BY <1>2, <1>3, <1>4 DEF TypeInv

LEMMA WriteBlockType ==
  ASSUME TypeInv, NEW s \in Savers, WriteBlock(s) PROVE TypeInv'
<1> USE DEF WriteBlock
<1>1. saver[s] \in SaverStates /\ saver[s].off < Blocks
  BY BlocksAssumption DEF TypeInv, SaverType, SaverStates
<1>2. SaverType'
  <2>1. [saver[s] EXCEPT !.off = @ + 1] \in SaverStates
    BY <1>1, BlocksAssumption DEF SaverStates
  <2> QED
    BY <2>1 DEF TypeInv, SaverType
<1>3. DiskType'
  <2>1. \A t \in Savers : saver'[t].fd = saver[t].fd
    BY DEF TypeInv, SaverType, SaverStates
  <2>2. harm' \in [Temps \cup {"dump"} -> Harms]
    BY HarmedType DEF TypeInv, DiskType
  <2> QED
    BY <1>1, <2>1, <2>2, FlushType, TypeInvOK DEF TypeInv, DiskType
<1>4. ServerType' /\ CountType'
  BY BoundAssumption DEF TypeInv, ServerType, CountType, server, history, Strikes
<1> QED
  BY <1>2, <1>3, <1>4 DEF TypeInv

LEMMA CloseTempType ==
  ASSUME TypeInv, NEW s \in Savers, CloseTemp(s) PROVE TypeInv'
<1> USE DEF CloseTemp
<1>1. saver[s] \in SaverStates /\ saver[s].off < Blocks
  BY BlocksAssumption DEF TypeInv, SaverType, SaverStates
<1>2. SaverType'
  <2>1. [saver[s] EXCEPT !.pc = "rename", !.off = Blocks] \in SaverStates
    <3>1. Blocks \in 0 .. Blocks /\ "rename" \in Working
      BY BlocksAssumption DEF Working
    <3> HIDE DEF CloseTemp
    <3> QED
      BY <1>1, <3>1, UpdateType
  <2> QED
    BY <2>1 DEF TypeInv, SaverType
<1>3. DiskType'
  <2>1. \A t \in Savers : saver'[t].fd = saver[t].fd
    BY DEF TypeInv, SaverType, SaverStates
  <2>2. harm' \in [Temps \cup {"dump"} -> Harms]
    BY HarmedType DEF TypeInv, DiskType
  <2> QED
    BY <1>1, <2>1, <2>2, FlushType, TypeInvOK DEF TypeInv, DiskType
<1>4. ServerType' /\ CountType'
  BY BoundAssumption DEF TypeInv, ServerType, CountType, server, history, Strikes
<1> QED
  BY <1>2, <1>3, <1>4 DEF TypeInv

(* The server's own bookkeeping when a save returns.                       *)
LEMMA RecordSavedType ==
  ASSUME TypeInv, NEW v \in Versions, NEW done \in BOOLEAN, RecordSaved(v, done)
  PROVE  /\ dirty' \in Nat /\ since' \in 0 .. MaxSince
         /\ reported' \in Versions /\ deceived' \in BOOLEAN
BY SaveParamAssumption DEF RecordSaved, Newer, TypeInv, ServerType

LEMMA ServerReturnsType ==
  ASSUME TypeInv, NEW s \in Savers, NEW ok \in BOOLEAN, ServerReturns(s, ok)
  PROVE  /\ status' \in Statuses
         /\ stop' \in BOOLEAN
         /\ dirty' \in Nat
         /\ since' \in 0 .. MaxSince
         /\ reported' \in Versions
         /\ deceived' \in BOOLEAN
<1>1. saver[s].snap \in Versions
  BY DEF TypeInv, SaverType, SaverStates
<1>2. CASE s = Main /\ ok
  <2>1. /\ status' = "serving"
        /\ RecordSaved(saver[s].snap, TRUE)
        /\ stop' = (stop \/ status = "shutdown")
    BY <1>2 DEF ServerReturns
  <2> QED
    BY <1>1, <2>1, RecordSavedType DEF TypeInv, ServerType, Statuses
<1>3. CASE ~ (s = Main /\ ok)
  BY <1>3 DEF ServerReturns, TypeInv, ServerType, Statuses
<1> QED
  BY <1>2, <1>3

LEMMA RenameTempType ==
  ASSUME TypeInv, NEW s \in Savers, RenameTemp(s) PROVE TypeInv'
<1> DEFINE f == saver[s].fd
<1>1. CASE f \in Temps
  <2>1. /\ disk' = [disk EXCEPT !["dump"] = disk[f]]
        /\ harm' = [harm EXCEPT !["dump"] = harm[f]]
        /\ saver' = Rebound(s, TRUE, f, "dump")
        /\ ServerReturns(s, TRUE)
        /\ UNCHANGED <<db, bg_saving, draws, written, runs, faults, forked, acked>>
    BY <1>1 DEF RenameTemp
  <2>2. SaverType'
    BY <2>1, ReboundType, TypeInvOK DEF SaverType
  <2>3. DiskType'
    <3>1. disk[f] \in Contents
      BY <1>1 DEF TypeInv, DiskType
    <3>2. harm' \in [Temps \cup {"dump"} -> Harms]
      BY <1>1, <2>1 DEF TypeInv, DiskType
    <3>3. /\ disk' \in [Temps \cup {"dump"} -> Contents \cup {NoFile}]
          /\ \A t \in Temps : disk'[t] \in Contents
          /\ disk'["dump"] \in Contents
      BY <2>1, <3>1, SaverAssumption DEF TypeInv, DiskType, Savers
    <3> QED
      BY <3>2, <3>3 DEF DiskType
  <2>4. ServerType' /\ CountType'
    BY <2>1, ServerReturnsType DEF TypeInv, ServerType, CountType
  <2> QED
    BY <2>2, <2>3, <2>4 DEF TypeInv
<1>2. CASE f \notin Temps
  <2>1. /\ disk' = disk /\ harm' = harm
        /\ saver' = [saver EXCEPT ![s] = AfterReturn(s, FALSE)]
        /\ ServerReturns(s, FALSE)
        /\ UNCHANGED <<db, bg_saving, draws, written, runs, faults, forked, acked>>
    BY <1>2 DEF RenameTemp
  <2>2. SaverType'
    BY <2>1, AfterReturnType DEF TypeInv, SaverType
  <2>3. DiskType'
    <3>1. AfterReturn(s, FALSE).fd = "gone"
      BY DEF AfterReturn, Idle
    <3> QED
      BY <2>1, <3>1 DEF TypeInv, DiskType, SaverType
  <2>4. ServerType' /\ CountType'
    BY <2>1, ServerReturnsType DEF TypeInv, ServerType, CountType
  <2> QED
    BY <2>2, <2>3, <2>4 DEF TypeInv
<1> QED
  BY <1>1, <1>2

LEMMA FailSaveType ==
  ASSUME TypeInv, NEW s \in Savers, FailSave(s) PROVE TypeInv'
<1>1. AfterReturn(s, FALSE).fd = "gone"
  BY DEF AfterReturn, Idle
<1>2. SaverType'
  BY ReboundType, AfterReturnType, TypeInvOK DEF FailSave, TypeInv, SaverType
<1>3. \A t \in Savers : saver'[t].fd = "dump" => saver[t].fd = "dump"
  <2>1. CASE saver[s].fd \in Temps
    <3> SUFFICES ASSUME NEW t \in Savers PROVE saver'[t].fd \in {saver[t].fd, "gone"}
      OBVIOUS
    <3>1. saver[t] \in SaverStates
      BY DEF TypeInv, SaverType
    <3>2. [saver[t] EXCEPT !.fd = "gone"].fd = "gone"
      BY <3>1 DEF SaverStates
    <3> QED
      BY <1>1, <2>1, <3>2 DEF FailSave, Rebound
  <2>2. CASE saver[s].fd \notin Temps
    BY <1>1, <2>2 DEF FailSave, TypeInv, SaverType
  <2> QED
    BY <2>1, <2>2
<1>4. DiskType'
  BY <1>3 DEF FailSave, TypeInv, DiskType
<1>5. CountType'
  BY BoundAssumption DEF FailSave, Strikes, TypeInv, CountType
<1>6. ServerType'
  <2>1. /\ ServerReturns(s, FALSE)
        /\ UNCHANGED <<db, bg_saving, draws, forked, acked>>
    BY DEF FailSave
  <2> QED
    BY <2>1, ServerReturnsType DEF TypeInv, ServerType
<1> QED
  BY <1>2, <1>4, <1>5, <1>6 DEF TypeInv

LEMMA SaveDBBackgroundType ==
  ASSUME TypeInv, SaveDBBackground
  PROVE  /\ bg_saving' \in BOOLEAN
         /\ forked' \in Versions
         /\ faults' \in 0 .. MaxFaults
         /\ SaverType'
         /\ \A s \in Savers : saver'[s].fd = "dump" => saver[s].fd = "dump"
<1>1. CASE bg_saving
  BY <1>1 DEF SaveDBBackground, TypeInv, ServerType, CountType, SaverType
<1>2. CASE ~ bg_saving
  <2>1. bg_saving' = TRUE /\ forked' = db /\ Fork
    BY <1>2 DEF SaveDBBackground
  <2>2. CASE saver' = saver /\ Strikes("fork_fails")
    BY <2>1, <2>2, BoundAssumption
       DEF Strikes, TypeInv, ServerType, CountType, SaverType
  <2>3. CASE /\ \E p \in Pids :
                  /\ saver[p].pc = "free"
                  /\ saver' = [saver EXCEPT ![p] = [Idle EXCEPT !.pc = "open",
                                                    !.snap = db, !.draw = draws]]
             /\ UNCHANGED faults
    <3>1. PICK p \in Pids :
             saver' = [saver EXCEPT ![p] = [Idle EXCEPT !.pc = "open",
                                            !.snap = db, !.draw = draws]]
      BY <2>3
    <3> DEFINE r == [Idle EXCEPT !.pc = "open", !.snap = db, !.draw = draws]
    <3>2. r \in SaverStates /\ r.fd = "gone"
      BY IdleType DEF TypeInv, ServerType, SaverStates, Working, Idle
    <3>3. SaverType'
      BY <3>1, <3>2 DEF TypeInv, SaverType
    <3>4. \A s \in Savers : saver'[s].fd = "dump" => saver[s].fd = "dump"
      BY <3>1, <3>2 DEF TypeInv, SaverType
    <3> QED
      BY <2>1, <2>3, <3>3, <3>4 DEF TypeInv, ServerType, CountType
  <2> QED
    BY <2>1, <2>2, <2>3 DEF Fork
<1> QED
  BY <1>1, <1>2

LEMMA EnterSaveDBType ==
  ASSUME TypeInv, NEW command \in {"save", "shutdown"}, EnterSaveDB(command)
  PROVE  TypeInv'
<1> DEFINE r == [Idle EXCEPT !.pc = "open", !.snap = db, !.draw = draws]
<1>1. r \in SaverStates /\ r.fd = "gone"
  BY IdleType DEF TypeInv, ServerType, SaverStates, Working, Idle
<1>2. SaverType' /\ DiskType'
  BY <1>1 DEF EnterSaveDB, TypeInv, SaverType, DiskType
<1>3. ServerType' /\ CountType'
  BY BoundAssumption DEF EnterSaveDB, TypeInv, ServerType, CountType, Statuses, history
<1> QED
  BY <1>2, <1>3 DEF TypeInv

LEMMA ServerCronType ==
  ASSUME TypeInv, ServerCron PROVE TypeInv'
<1>1. CASE bg_saving
  <2>1. ReapChild /\ UNCHANGED <<forked, faults>>
    BY <1>1 DEF ServerCron
  <2>2. UNCHANGED <<status, stop, db, draws, written, disk, harm, runs, acked>>
    BY DEF ServerCron
  <2>3. ASSUME NEW success, NEW done \in BOOLEAN, Reaped(success, done)
        PROVE  /\ bg_saving' \in BOOLEAN
               /\ dirty' \in Nat
               /\ since' \in 0 .. MaxSince
               /\ reported' \in Versions
               /\ deceived' \in BOOLEAN
    <3>1. forked \in Versions
      BY DEF TypeInv, ServerType
    <3>2. CASE success
      BY <2>3, <3>1, <3>2, RecordSavedType DEF Reaped
    <3>3. CASE ~ success
      BY <2>3, <3>3 DEF Reaped, TypeInv, ServerType
    <3> QED
      BY <3>2, <3>3
  <2>4. /\ SaverType'
        /\ \A s \in Savers : saver'[s].fd = "dump" => saver[s].fd = "dump"
    <3>1. ASSUME NEW p \in Zombies, saver' = [saver EXCEPT ![p] = Idle]
          PROVE  /\ SaverType'
                 /\ \A s \in Savers : saver'[s].fd = "dump" => saver[s].fd = "dump"
      <4>1. Idle.fd = "gone" /\ p \in Savers
        BY <3>1 DEF Idle, Zombies, Children, Savers
      <4> QED
        BY <3>1, <4>1, IdleType DEF TypeInv, SaverType
    <3> QED
      BY <2>1, <3>1 DEF ReapChild, TypeInv, SaverType
  <2>5. /\ bg_saving' \in BOOLEAN
        /\ dirty' \in Nat
        /\ since' \in 0 .. MaxSince
        /\ reported' \in Versions
        /\ deceived' \in BOOLEAN
    BY <2>1, <2>3 DEF ReapChild, TypeInv, ServerType
  <2> QED
    BY <2>1, <2>2, <2>4, <2>5 DEF TypeInv, ServerType, CountType, DiskType
<1>2. CASE ~ bg_saving
  <2>1. UNCHANGED <<dirty, since, reported, deceived, status, stop, db, draws, written,
                    disk, harm, runs, acked>>
    BY <1>2 DEF ServerCron
  <2>2. CASE SaveDBBackground
    BY <2>1, <2>2, SaveDBBackgroundType DEF TypeInv, ServerType, CountType, DiskType
  <2>3. CASE UNCHANGED <<bg_saving, forked, saver, faults>>
    BY <2>1, <2>3 DEF TypeInv, ServerType, CountType, SaverType, DiskType
  <2> QED
    BY <1>2, <2>2, <2>3 DEF ServerCron
<1> QED
  BY <1>1, <1>2

LEMMA LeaveOrphansType ==
  ASSUME TypeInv, LeaveOrphans
  PROVE  /\ SaverType'
         /\ \A s \in Savers : saver'[s].fd = "dump" => saver[s].fd = "dump"
<1> SUFFICES ASSUME NEW s \in Savers
             PROVE  /\ saver'[s] \in SaverStates
                    /\ saver'[s].fd = "dump" => saver[s].fd = "dump"
  BY DEF LeaveOrphans, SaverType
<1>1. saver[s] \in SaverStates
  BY DEF TypeInv, SaverType
<1>2. /\ [saver[s] EXCEPT !.orphan = TRUE] \in SaverStates
      /\ [saver[s] EXCEPT !.orphan = TRUE].fd = saver[s].fd
  BY <1>1, FlagType
<1>3. Idle.fd = "gone"
  BY DEF Idle
<1> QED
  BY <1>2, <1>3, IdleType DEF LeaveOrphans

LEMMA RestartType ==
  ASSUME TypeInv, Restart PROVE TypeInv'
<1>0. saver' = [s \in Savers |-> [saver[s] EXCEPT !.recent = FALSE]]
  BY DEF Restart
<1>1. SaverType' /\ \A s \in Savers : saver'[s].fd = saver[s].fd
  BY <1>0, FlagType DEF TypeInv, SaverType
<1>2. DiskType'
  BY <1>1 DEF Restart, TypeInv, DiskType
<1>3. CountType' /\ status' \in Statuses /\ db' \in Versions
  <2>1. /\ runs' = runs + 1 /\ runs < MaxRuns /\ faults' = faults
        /\ LoadDB
    BY DEF Restart
  <2>2. CASE written' = written
    <3>1. 0 \in Versions
      BY BoundAssumption DEF Versions
    <3>2. CASE Complete(disk["dump"])
      <4>1. disk["dump"][1] \in Versions
        BY <3>2, BlocksAssumption DEF Complete, Whole
      <4> QED
        BY <2>1, <2>2, <3>1, <4>1, BoundAssumption
           DEF LoadDB, TypeInv, CountType, Statuses, Versions, Dump
    <3>3. CASE ~ Complete(disk["dump"])
      BY <2>1, <2>2, <3>1, <3>3, BoundAssumption
         DEF LoadDB, TypeInv, CountType, Statuses, Versions, Dump, Intact
    <3> QED
      BY <3>2, <3>3
  <2>3. CASE written' = written + 1
    BY <2>1, <2>3, BoundAssumption
       DEF LoadDB, TypeInv, CountType, Statuses, Versions
  <2> QED
    BY <2>1, <2>2, <2>3 DEF LoadDB
<1>4. ServerType'
  <2>1. 0 \in Versions /\ 0 \in 0 .. MaxSince /\ 0 \in 0 .. MaxDraws
    BY BoundAssumption, SaveParamAssumption DEF Versions
  <2>2. reported' \in Versions
    BY <2>1 DEF Restart, TypeInv, ServerType
  <2> QED
    BY <1>3, <2>1, <2>2 DEF Restart, TypeInv, ServerType
<1> QED
  BY <1>1, <1>2, <1>3, <1>4 DEF TypeInv

LEMMA StepType == TypeInv /\ [Next]_vars => TypeInv'
<1> SUFFICES ASSUME TypeInv, [Next]_vars PROVE TypeInv'
  OBVIOUS
<1>1. CASE Write
  <2>1. written + 1 \in Versions /\ written + 1 <= MaxWrites + runs - 1
    BY <1>1, BoundAssumption DEF Write, TypeInv, CountType, Versions
  <2> QED
    BY <1>1, <2>1 DEF Write, TypeInv, ServerType, CountType, SaverType, DiskType
<1>2. CASE Tick
  <2>1. SaverType' /\ \A s \in Savers : saver'[s].fd = saver[s].fd
    <3>1. saver' = [s \in Savers |-> [saver[s] EXCEPT !.recent = FALSE]]
      BY <1>2 DEF Tick
    <3> QED
      BY <3>1, FlagType DEF TypeInv, SaverType
  <2>2. ServerType' /\ CountType'
    BY <1>2, SaveParamAssumption DEF Tick, TypeInv, ServerType, CountType, history
  <2> QED
    BY <1>2, <2>1, <2>2 DEF Tick, TypeInv, DiskType
<1>3. CASE ServerCron
  BY <1>3, ServerCronType
<1>4. CASE BgsaveCommand
  <2>1. CASE SaveDBBackground
    BY <1>4, <2>1, SaveDBBackgroundType
       DEF BgsaveCommand, TypeInv, ServerType, CountType, DiskType
  <2>2. CASE UNCHANGED <<bg_saving, forked, saver, faults>>
    BY <1>4, <2>2 DEF BgsaveCommand, TypeInv, ServerType, CountType, SaverType, DiskType
  <2> QED
    BY <1>4, <2>1, <2>2 DEF BgsaveCommand
<1>5. CASE SaveCommand \/ ShutDownCommand
  BY <1>5, EnterSaveDBType DEF SaveCommand, ShutDownCommand
<1>6. ASSUME NEW s \in Savers, SaveStep(s) \/ FailSave(s) PROVE TypeInv'
  BY <1>6, OpenTempType, WriteBlockType, CloseTempType, RenameTempType, FailSaveType
     DEF SaveStep
<1>7. ASSUME NEW p \in Pids, ChildKilled(p) PROVE TypeInv'
  <2>1. p \in Savers
    BY DEF Savers
  <2>2. \E r \in SaverStates : r.fd = "gone" /\ saver' = [saver EXCEPT ![p] = r]
    <3>1. /\ Idle \in SaverStates /\ [Idle EXCEPT !.pc = "killed"] \in SaverStates
          /\ Idle.fd = "gone" /\ [Idle EXCEPT !.pc = "killed"].fd = "gone"
      BY IdleType DEF SaverStates, Exited, Idle
    <3> QED
      BY <1>7, <3>1 DEF ChildKilled
  <2>3. SaverType' /\ \A s \in Savers : saver'[s].fd = "dump" => saver[s].fd = "dump"
    BY <2>1, <2>2 DEF TypeInv, SaverType
  <2>4. ServerType' /\ CountType'
    BY <1>7, BoundAssumption
       DEF ChildKilled, Strikes, TypeInv, ServerType, CountType, server, history
  <2> QED
    BY <1>7, <2>3, <2>4 DEF ChildKilled, TypeInv, DiskType
<1>8. CASE InterruptHandler
  BY <1>8 DEF InterruptHandler, TypeInv, ServerType, CountType, SaverType, DiskType, history
<1>9. CASE Exit \/ ServerKilled
  <2>1. LeaveOrphans /\ disk' = disk /\ harm' = harm
    BY <1>9 DEF Exit, ServerKilled
  <2>2. ServerType' /\ CountType'
    BY <1>9 DEF Exit, ServerKilled, TypeInv, ServerType, CountType, Statuses, history
  <2> QED
    BY <2>1, <2>2, LeaveOrphansType DEF TypeInv, DiskType
<1>10. CASE Restart
  BY <1>10, RestartType
<1>11. CASE UNCHANGED vars
  BY <1>11 DEF vars, server, history, TypeInv, ServerType, CountType, SaverType, DiskType
<1> QED
  BY <1>1, <1>2, <1>3, <1>4, <1>5, <1>6, <1>7, <1>8, <1>9, <1>10, <1>11 DEF Next

THEOREM TypeInvariant == Spec => []TypeInv
<1>1. Init => TypeInv
  BY InitType
<1>2. TypeInv /\ [Next]_vars => TypeInv'
  BY StepType
<1> QED
  BY <1>1, <1>2, PTL DEF Spec

(* Every variable of the persistence model keeps its type.                 *)
THEOREM TypeCorrect == Spec => []TypeOK
<1>1. TypeInv => TypeOK
  BY TypeInvOK
<1> QED
  BY <1>1, TypeInvariant, PTL

(***************************************************************************)
(* At most one child, and never one the server has forgotten.  What makes  *)
(* it inductive: a server that has stopped leaves no child behind it, only *)
(* orphans, so that InitServer may start with bg_saving at 0.              *)
(***************************************************************************)
Stopped == {"off", "crashed", "refused"}

ChildInv ==
  /\ AtMostOneChild
  /\ status \in Stopped => Children = {}

LEMMA NoNewChild ==
  ASSUME ChildInv,
         Children' \subseteq Children,
         bg_saving => bg_saving',
         status' \in Stopped => status \in Stopped
  PROVE  ChildInv'
  BY DEF ChildInv, AtMostOneChild

(* Inside SaveDB a process neither starts nor changes its parent.          *)
LEMMA SaveStepChildren ==
  ASSUME TypeInv, NEW s \in Savers, SaveStep(s) \/ FailSave(s)
  PROVE  Children' \subseteq Children
<1> SUFFICES ASSUME NEW p \in Children' PROVE p \in Children
  OBVIOUS
<1>1. p \in Pids /\ p \in Savers /\ saver'[p].pc # "free" /\ ~ saver'[p].orphan
  BY DEF Children, Savers
<1>2. saver \in [Savers -> SaverStates]
  BY DEF TypeInv, SaverType
<1>3. saver[s].pc # "free"
  BY DEF SaveStep, OpenTemp, WriteBlock, CloseTemp, RenameTemp, FailSave, Working
<1>4. p # s => saver'[p].pc = saver[p].pc /\ saver'[p].orphan = saver[p].orphan
  <2> SUFFICES ASSUME p # s
               PROVE  saver'[p].pc = saver[p].pc /\ saver'[p].orphan = saver[p].orphan
    OBVIOUS
  <2>1. CASE OpenTemp(s) \/ WriteBlock(s) \/ CloseTemp(s)
    BY <1>1, <1>2, <2>1 DEF OpenTemp, WriteBlock, CloseTemp
  <2>2. ASSUME NEW ok, NEW f, NEW now, saver' = Rebound(s, ok, f, now)
        PROVE  saver'[p].pc = saver[p].pc /\ saver'[p].orphan = saver[p].orphan
    BY <1>1, <1>2, <2>2 DEF Rebound, SaverStates
  <2>3. CASE RenameTemp(s)
    BY <1>1, <1>2, <2>2, <2>3 DEF RenameTemp
  <2>4. CASE FailSave(s)
    BY <1>1, <1>2, <2>2, <2>4 DEF FailSave
  <2> QED
    BY <2>1, <2>3, <2>4 DEF SaveStep
<1>5. p = s => ~ saver[s].orphan
  <2> SUFFICES ASSUME p = s, saver[s].orphan PROVE FALSE
    OBVIOUS
  <2>1. CASE OpenTemp(s) \/ WriteBlock(s) \/ CloseTemp(s)
    <3>1. saver[s] \in SaverStates
      BY <1>2
    <3>2. CASE OpenTemp(s)
      <4>1. PICK f : saver' = [saver EXCEPT ![s].pc = "write", ![s].fd = f,
                                            ![s].recent = TRUE]
        BY <3>2 DEF OpenTemp
      <4>2. saver'[s].orphan = saver[s].orphan
        BY <1>2, <3>1, <4>1 DEF SaverStates
      <4> QED
        BY <1>1, <4>2
    <3>3. CASE WriteBlock(s)
      BY <1>1, <1>2, <3>1, <3>3 DEF WriteBlock, SaverStates
    <3>4. CASE CloseTemp(s)
      BY <1>1, <1>2, <3>1, <3>4 DEF CloseTemp, SaverStates
    <3> QED
      BY <2>1, <3>2, <3>3, <3>4
  <2>2. AfterReturn(s, TRUE) = Idle /\ AfterReturn(s, FALSE) = Idle
    BY DEF AfterReturn
  <2>3. CASE RenameTemp(s) \/ FailSave(s)
    <3>1. saver'[s] = Idle
      BY <1>2, <2>2, <2>3 DEF RenameTemp, FailSave, Rebound
    <3> QED
      BY <1>1, <3>1 DEF Idle
  <2> QED
    BY <2>1, <2>3 DEF SaveStep
<1> QED
  BY <1>1, <1>3, <1>4, <1>5 DEF Children

LEMMA ForkChildren ==
  ASSUME TypeInv, ChildInv, SaveDBBackground, status' = status,
         status \notin Stopped
  PROVE  ChildInv'
<1>1. CASE bg_saving
  BY <1>1 DEF SaveDBBackground, ChildInv, AtMostOneChild, Children
<1>2. CASE ~ bg_saving
  <2>1. bg_saving' /\ Children = {} /\ Fork
    BY <1>2 DEF SaveDBBackground, ChildInv, AtMostOneChild
  <2>2. \A p, q \in Children' : p = q
    <3>1. CASE saver' = saver
      BY <2>1, <3>1 DEF Children
    <3>2. ASSUME NEW c \in Pids, NEW r, saver' = [saver EXCEPT ![c] = r]
          PROVE  Children' \subseteq {c}
      BY <2>1, <3>2 DEF Children, Savers, TypeInv, SaverType
    <3> QED
      BY <2>1, <3>1, <3>2 DEF Fork
  <2> QED
    BY <2>1, <2>2 DEF ChildInv, AtMostOneChild
<1> QED
  BY <1>1, <1>2

LEMMA ReapChildren ==
  ASSUME TypeInv, ChildInv, ReapChild, status' = status, status \notin Stopped
  PROVE  ChildInv'
<1>1. CASE UNCHANGED <<saver, bg_saving>>
  BY <1>1 DEF ChildInv, AtMostOneChild, Children
<1>2. ASSUME NEW p \in Zombies, saver' = [saver EXCEPT ![p] = Idle]
      PROVE  ChildInv'
  <2>1. Children' \subseteq Children \ {p}
    BY <1>2 DEF Children, Zombies, Idle, Savers, TypeInv, SaverType
  <2>2. Children \subseteq {p}
    BY <1>2 DEF Zombies, ChildInv, AtMostOneChild
  <2> QED
    BY <2>1, <2>2 DEF ChildInv, AtMostOneChild
<1>3. CASE Children = {} /\ saver' = saver
  BY <1>3 DEF ChildInv, AtMostOneChild, Children
<1> QED
  BY <1>1, <1>2, <1>3 DEF ReapChild

LEMMA StepChild == TypeInv /\ ChildInv /\ [Next]_vars => ChildInv'
<1> SUFFICES ASSUME TypeInv, ChildInv, [Next]_vars PROVE ChildInv'
  OBVIOUS
<1>1. CASE Write
  BY <1>1 DEF Write, ChildInv, AtMostOneChild, Children
<1>2. CASE Tick
  <2>1. \A p \in Pids : /\ saver'[p].pc = saver[p].pc
                        /\ saver'[p].orphan = saver[p].orphan
    BY <1>2 DEF Tick, TypeInv, SaverType, SaverStates, Savers
  <2>2. Children' = Children
    BY <2>1 DEF Children
  <2> QED
    BY <1>2, <2>2, NoNewChild DEF Tick
<1>3. CASE ServerCron
  <2>1. status' = status /\ status \notin Stopped
    BY <1>3 DEF ServerCron, Stopped
  <2>2. CASE bg_saving
    BY <1>3, <2>1, <2>2, ReapChildren DEF ServerCron
  <2>3. CASE ~ bg_saving
    BY <1>3, <2>1, <2>3, ForkChildren DEF ServerCron, ChildInv, AtMostOneChild, Children
  <2> QED
    BY <2>2, <2>3
<1>4. CASE BgsaveCommand
  <2>1. status' = status /\ status \notin Stopped
    BY <1>4 DEF BgsaveCommand, Stopped
  <2> QED
    BY <1>4, <2>1, ForkChildren DEF BgsaveCommand, ChildInv, AtMostOneChild, Children
<1>5. CASE SaveCommand \/ ShutDownCommand
  <2>1. /\ status' \notin Stopped
        /\ bg_saving' = bg_saving
        /\ \E r : saver' = [saver EXCEPT ![Main] = r]
    BY <1>5 DEF SaveCommand, ShutDownCommand, EnterSaveDB, Stopped
  <2>2. Children' = Children
    BY <2>1, SaverAssumption DEF Children, Savers, TypeInv, SaverType
  <2> QED
    BY <2>1, <2>2, NoNewChild
<1>6. ASSUME NEW s \in Savers, SaveStep(s) \/ FailSave(s) PROVE ChildInv'
  <2>1. bg_saving' = bg_saving /\ (status' = status \/ status' \notin Stopped)
    BY <1>6 DEF SaveStep, OpenTemp, WriteBlock, CloseTemp, RenameTemp, FailSave,
                ServerReturns, server, Stopped
  <2> QED
    BY <1>6, <2>1, SaveStepChildren, NoNewChild
<1>7. ASSUME NEW p \in Pids, ChildKilled(p) PROVE ChildInv'
  <2>1. Children' \subseteq Children
    BY <1>7 DEF ChildKilled, Children, Idle, Working, Savers, TypeInv, SaverType, SaverStates
  <2> QED
    BY <1>7, <2>1, NoNewChild DEF ChildKilled, server
<1>8. CASE InterruptHandler
  BY <1>8 DEF InterruptHandler, ChildInv, AtMostOneChild, Children
<1>9. CASE Exit \/ ServerKilled
  <2>1. Children' = {}
    <3>1. LeaveOrphans
      BY <1>9 DEF Exit, ServerKilled
    <3>2. ASSUME NEW p \in Pids PROVE saver'[p].pc = "free" \/ saver'[p].orphan
      <4>1. [saver[p] EXCEPT !.orphan = TRUE].orphan
        BY DEF Savers, TypeInv, SaverType, SaverStates
      <4> QED
        BY <3>1, <4>1 DEF LeaveOrphans, Savers, Idle
    <3> QED
      BY <3>2 DEF Children
  <2> QED
    BY <2>1 DEF ChildInv, AtMostOneChild
<1>10. CASE Restart
  <2>1. Children = {}
    BY <1>10 DEF Restart, ChildInv, Stopped
  <2>2. \A p \in Pids : /\ saver'[p].pc = saver[p].pc
                        /\ saver'[p].orphan = saver[p].orphan
    BY <1>10 DEF Restart, TypeInv, SaverType, SaverStates, Savers
  <2> QED
    BY <2>1, <2>2 DEF ChildInv, AtMostOneChild, Children
<1>11. CASE UNCHANGED vars
  BY <1>11 DEF vars, server, ChildInv, AtMostOneChild, Children
<1> QED
  BY <1>1, <1>2, <1>3, <1>4, <1>5, <1>6, <1>7, <1>8, <1>9, <1>10, <1>11 DEF Next

(* Whatever is done to the server and to its children, a background save   *)
(* never runs beside another one of the same server.                       *)
THEOREM OneChild == Spec => []AtMostOneChild
<1>1. Init => ChildInv
  BY DEF Init, ChildInv, AtMostOneChild, Children, Idle, Savers, Stopped
<1>2. TypeInv /\ ChildInv /\ [Next]_vars => ChildInv'
  BY StepChild
<1>3. ChildInv => AtMostOneChild
  BY DEF ChildInv
<1> QED
  BY <1>1, <1>2, <1>3, TypeInvariant, PTL DEF Spec

(***************************************************************************)
(* The dump is made by one save of one version, whatever happens, unless   *)
(* two savers have opened one temporary file.  What makes it inductive:    *)
(* a saver whose file is not mixed has it for itself, the file holds what  *)
(* the saver has flushed so far, and is complete when it comes to rename   *)
(* it; and a descriptor on the dump is left only by a mixed file.          *)
(***************************************************************************)
Own(s) == saver[s].fd \in Temps /\ harm[saver[s].fd] # "mixed"

FileOK(s) ==
  /\ saver[s].pc \notin {"write", "rename"} => saver[s].fd = "gone"
  /\ saver[s].pc = "open" => saver[s].off = 0
  /\ saver[s].fd = "dump" => harm["dump"] = "mixed"
  /\ Own(s) =>
       /\ \A t \in Savers \ {s} : saver[t].fd # saver[s].fd
       /\ saver[s].pc = "write" =>
            \A b \in 1 .. saver[s].off : disk[saver[s].fd][b] = saver[s].snap
       /\ saver[s].pc = "rename" => disk[saver[s].fd] = Whole(saver[s].snap)

FileInv == \A s \in Savers : FileOK(s)

(* Files are harmed by the faults that SaveDB lets pass, and by no others. *)
HarmInv == \A f \in Temps \cup {"dump"} :
             harm[f] # "none" => Faults \cap Unnoticed # {}

WholeInv == FileInv /\ DumpWhole /\ HarmInv

(* What a saver does outside its file.                                     *)
SameSaver(t) ==
  /\ saver'[t].pc = saver[t].pc
  /\ saver'[t].snap = saver[t].snap
  /\ saver'[t].off = saver[t].off
  /\ saver'[t].orphan = saver[t].orphan

Untouched(t) ==
  /\ saver'[t].pc = saver[t].pc
  /\ saver'[t].snap = saver[t].snap
  /\ saver'[t].off = saver[t].off
  /\ saver'[t].fd = saver[t].fd

WithoutFile(t) ==
  /\ saver'[t].fd = "gone"
  /\ saver'[t].pc \notin {"write", "rename"}
  /\ saver'[t].pc = "open" => saver'[t].off = 0

(* A saver whose file nobody touches, or loses it to another saver.        *)
LEMMA OtherFile ==
  ASSUME FileInv, NEW t \in Savers,
         saver'[t].pc = saver[t].pc,
         saver'[t].snap = saver[t].snap,
         saver'[t].off = saver[t].off,
         saver[t].fd = "gone" => saver'[t].fd = "gone",
         saver'[t].fd = "dump" => harm'["dump"] = "mixed",
         Own(t)' => /\ Own(t) /\ saver'[t].fd = saver[t].fd
                    /\ disk'[saver[t].fd] = disk[saver[t].fd]
                    /\ \A u \in Savers \ {t} : saver'[u].fd # saver[t].fd
  PROVE  FileOK(t)'
<1>1. FileOK(t)
  BY DEF FileInv
<1>2. /\ saver'[t].pc \notin {"write", "rename"} => saver'[t].fd = "gone"
      /\ saver'[t].pc = "open" => saver'[t].off = 0
  BY <1>1 DEF FileOK
<1>3. Own(t)' =>
       /\ \A u \in Savers \ {t} : saver'[u].fd # saver'[t].fd
       /\ saver'[t].pc = "write" =>
            \A b \in 1 .. saver'[t].off : disk'[saver'[t].fd][b] = saver'[t].snap
       /\ saver'[t].pc = "rename" => disk'[saver'[t].fd] = Whole(saver'[t].snap)
  BY <1>1 DEF FileOK
<1> QED
  BY <1>2, <1>3 DEF FileOK, Whole

(* Most steps leave the files alone and do to the savers nothing more than *)
(* start them, or end them.                                                *)
LEMMA FilesAlone ==
  ASSUME WholeInv, disk' = disk, harm' = harm,
         \A t \in Savers : Untouched(t) \/ WithoutFile(t)
  PROVE  WholeInv'
<1>1. DumpWhole' /\ HarmInv'
  BY DEF WholeInv, DumpWhole, Dump, Missing, Complete, Whole, HarmInv
<1>2. ASSUME NEW s \in Savers PROVE FileOK(s)'
  <2>0. "gone" \notin Temps
    BY SaverAssumption DEF Savers
  <2>1. CASE WithoutFile(s)
    BY <2>0, <2>1 DEF WithoutFile, FileOK, Own
  <2>2. CASE Untouched(s)
    <3>1. FileOK(s)
      BY DEF WholeInv, FileInv
    <3>2. Own(s)' => Own(s)
      BY <2>2 DEF Own, Untouched
    <3>3. Own(s) => \A u \in Savers \ {s} : saver'[u].fd # saver[s].fd
      BY <2>0, <3>1 DEF FileOK, Own, Untouched, WithoutFile
    <3>4. saver'[s].fd = "dump" => harm'["dump"] = "mixed"
      BY <2>2, <3>1 DEF FileOK, Untouched
    <3> QED
      BY <2>2, <3>2, <3>3, <3>4, OtherFile DEF WholeInv, Untouched
  <2> QED
    BY <2>1, <2>2
<1> QED
  BY <1>1, <1>2 DEF WholeInv, FileInv

LEMMA OpenTempWhole ==
  ASSUME TypeInv, WholeInv, NEW s \in Savers, OpenTemp(s)
  PROVE  WholeInv'
<1>1. PICK f \in Temps :
        /\ disk' = [disk EXCEPT ![f] = NewFile]
        /\ harm' = [harm EXCEPT ![f] = IF SameName(s) = {} THEN "none" ELSE "mixed"]
        /\ saver' = [saver EXCEPT ![s].pc = "write", ![s].fd = f,
                                  ![s].recent = TRUE]
        /\ SameName(s) = {} => \A t \in Savers : saver[t].fd # f
  <2>1. \A f \in FreshTemp(s) : f \in Temps /\ \A t \in Savers : saver[t].fd # f
    BY DEF FreshTemp, Unused
  <2>2. {saver[t].fd : t \in SameName(s)} \subseteq Temps
    BY DEF SameName
  <2> QED
    BY <2>1, <2>2 DEF OpenTemp
<1>2. f # "dump" /\ f # "gone"
  BY SaverAssumption DEF Savers
<1>3. saver \in [Savers -> SaverStates] /\ harm \in [Temps \cup {"dump"} -> Harms]
      /\ disk \in [Temps \cup {"dump"} -> Contents \cup {NoFile}]
  BY DEF TypeInv, SaverType, DiskType
<1>4. saver[s] \in SaverStates /\ saver[s].off = 0 /\ saver[s].pc = "open"
  BY <1>3 DEF OpenTemp, WholeInv, FileInv, FileOK
<1>5. \A t \in Savers \ {s} : saver'[t] = saver[t]
  BY <1>1, <1>3
<1>6. saver'[s].pc = "write" /\ saver'[s].off = 0 /\ saver'[s].fd = f
  BY <1>1, <1>3, <1>4 DEF SaverStates
<1>7. /\ harm'[f] # "mixed" => \A t \in Savers : saver[t].fd # f
      /\ harm'[f] # "none" => "same_second" \in Faults
      /\ \A g \in (Temps \cup {"dump"}) \ {f} : harm'[g] = harm[g] /\ disk'[g] = disk[g]
  BY <1>1, <1>3 DEF OpenTemp
<1>8. FileOK(s)'
  <2>1. Own(s)' => \A t \in Savers \ {s} : saver'[t].fd # saver'[s].fd
    BY <1>5, <1>6, <1>7 DEF Own
  <2> QED
    BY <1>2, <1>6, <2>1 DEF FileOK
<1>9. ASSUME NEW t \in Savers \ {s} PROVE FileOK(t)'
  <2>1. FileOK(t) /\ saver'[t] = saver[t]
    BY <1>5 DEF WholeInv, FileInv
  <2>2. saver'[t].fd = "dump" => harm'["dump"] = "mixed"
    BY <1>2, <1>7, <2>1 DEF FileOK
  <2>3. Own(t)' => saver[t].fd # f /\ Own(t) /\ disk'[saver[t].fd] = disk[saver[t].fd]
    BY <1>7, <2>1 DEF Own
  <2>4. Own(t)' => \A u \in Savers \ {t} : saver'[u].fd # saver[t].fd
    BY <1>5, <1>6, <2>1, <2>3 DEF FileOK
  <2> QED
    BY <2>1, <2>2, <2>3, <2>4, OtherFile DEF WholeInv
<1>10. DumpWhole'
  <2>1. disk'["dump"] = disk["dump"] /\ harm'["dump"] = harm["dump"]
    BY <1>2, <1>7
  <2> QED
    BY <2>1 DEF WholeInv, DumpWhole, Dump, Missing, Complete, Whole
<1>11. HarmInv'
  BY <1>7 DEF WholeInv, HarmInv, Unnoticed
<1> QED
  BY <1>8, <1>9, <1>10, <1>11 DEF WholeInv, FileInv

(* A flush, come to harm or not, changes one file only; in a file that is  *)
(* the saver's own it puts one more block right.                           *)
FlushedBy(s) ==
  /\ saver[s].pc = "write" /\ saver[s].off < Blocks
  /\ disk' = Flush(s)
  /\ \/ harm' = harm
     \/ /\ \E how \in {"torn", "cut"} : harm' = Harmed(s, how)
        /\ Faults \cap Unnoticed # {}

LEMMA Flushes ==
  ASSUME TypeInv, NEW s \in Savers, WriteBlock(s) \/ CloseTemp(s)
  PROVE  FlushedBy(s)
<1>1. saver[s].pc = "write" /\ saver[s].off < Blocks /\ disk' = Flush(s)
  BY BlocksAssumption DEF WriteBlock, CloseTemp, TypeInv, SaverType, SaverStates
<1>2. CASE WriteBlock(s)
  BY <1>1, <1>2 DEF WriteBlock, FlushedBy, Strikes, Unnoticed
<1>3. CASE CloseTemp(s)
  BY <1>1, <1>3 DEF CloseTemp, FlushedBy, Strikes, Unnoticed
<1> QED
  BY <1>2, <1>3

LEMMA FlushElsewhere ==
  ASSUME TypeInv, NEW s \in Savers, FlushedBy(s)
  PROVE  \A f \in Temps \cup {"dump"} :
           /\ harm'[f] = "mixed" <=> harm[f] = "mixed"
           /\ f # saver[s].fd => harm'[f] = harm[f] /\ disk'[f] = disk[f]
<1>1. \A f \in Temps \cup {"dump"} :
        /\ harm'[f] = "mixed" <=> harm[f] = "mixed"
        /\ f # saver[s].fd => harm'[f] = harm[f]
  BY HarmedType DEF FlushedBy
<1>2. disk' = Flush(s) /\ disk \in [Temps \cup {"dump"} -> Contents \cup {NoFile}]
  BY DEF FlushedBy, TypeInv, DiskType
<1>3. \A f \in Temps \cup {"dump"} : f # saver[s].fd => disk'[f] = disk[f]
  BY <1>2 DEF Flush
<1> QED
  BY <1>1, <1>3

LEMMA FlushOwn ==
  ASSUME TypeInv, WholeInv, NEW s \in Savers, FlushedBy(s), Own(s)
  PROVE  /\ disk'[saver[s].fd] \in Contents
         /\ \A b \in 1 .. saver[s].off + 1 : disk'[saver[s].fd][b] = saver[s].snap
<1> DEFINE f == saver[s].fd
<1>1. f \in Temps /\ f # "gone" /\ f # "dump"
  BY SaverAssumption DEF Own, Savers
<1>2. disk' = [disk EXCEPT ![f] = [disk[f] EXCEPT ![saver[s].off + 1] = saver[s].snap]]
  BY <1>1 DEF Flush, FlushedBy
<1>3. disk[f] \in Contents /\ disk \in [Temps \cup {"dump"} -> Contents \cup {NoFile}]
  BY <1>1 DEF TypeInv, DiskType
<1>4. \A b \in 1 .. saver[s].off : disk[f][b] = saver[s].snap
  BY DEF WholeInv, FileInv, FileOK, FlushedBy
<1>5. /\ saver[s].snap \in Versions
      /\ saver[s].off \in Nat
      /\ saver[s].off + 1 \in 1 .. Blocks
  BY BlocksAssumption DEF TypeInv, SaverType, SaverStates, FlushedBy
<1>6. disk'[f] = [disk[f] EXCEPT ![saver[s].off + 1] = saver[s].snap]
  BY <1>1, <1>2, <1>3
<1>7. disk'[f] \in Contents
  BY <1>3, <1>5, <1>6 DEF Contents
<1>8. \A b \in 1 .. saver[s].off + 1 : disk'[f][b] = saver[s].snap
  BY <1>3, <1>4, <1>5, <1>6, BlocksAssumption DEF Contents
<1> QED
  BY <1>7, <1>8

(* What a flush leaves as it was; the saver itself is seen to below.       *)
LEMMA FlushOthers ==
  ASSUME TypeInv, WholeInv, NEW s \in Savers, FlushedBy(s),
         \A t \in Savers \ {s} : saver'[t] = saver[t],
         saver'[s].fd = saver[s].fd
  PROVE  /\ \A t \in Savers \ {s} : FileOK(t)'
         /\ saver'[s].fd = "dump" => harm'["dump"] = "mixed"
         /\ Own(s)' => Own(s) /\ \A t \in Savers \ {s} : saver'[t].fd # saver'[s].fd
         /\ DumpWhole'
         /\ HarmInv'
<1>1. \A f \in Temps \cup {"dump"} :
        /\ harm'[f] = "mixed" <=> harm[f] = "mixed"
        /\ f # saver[s].fd => harm'[f] = harm[f] /\ disk'[f] = disk[f]
  BY FlushElsewhere
<1>2. \A t \in Savers : FileOK(t) /\ saver'[t].fd = saver[t].fd
  BY DEF WholeInv, FileInv
<1>3. ASSUME NEW t \in Savers PROVE Own(t)' => Own(t)
  BY <1>1, <1>2 DEF Own
<1>4. ASSUME NEW t \in Savers \ {s} PROVE FileOK(t)'
  <2>1. saver'[t] = saver[t] /\ FileOK(t)
    BY <1>2
  <2>2. saver'[t].fd = "dump" => harm'["dump"] = "mixed"
    BY <1>1, <2>1 DEF FileOK
  <2>3. Own(t)' => Own(t) /\ \A u \in Savers \ {t} : saver[u].fd # saver[t].fd
    BY <1>3, <2>1 DEF FileOK
  <2>4. Own(t)' => disk'[saver[t].fd] = disk[saver[t].fd]
    BY <1>1, <2>3 DEF Own
  <2> QED
    BY <1>2, <2>1, <2>2, <2>3, <2>4, OtherFile DEF WholeInv
<1>5. saver'[s].fd = "dump" => harm'["dump"] = "mixed"
  BY <1>1, <1>2 DEF FileOK
<1>6. Own(s)' => Own(s) /\ \A t \in Savers \ {s} : saver'[t].fd # saver'[s].fd
  BY <1>2, <1>3 DEF FileOK
<1>7. DumpWhole'
  <2>1. CASE saver[s].fd = "dump"
    BY <1>2, <1>5, <2>1 DEF DumpWhole
  <2>2. CASE saver[s].fd # "dump"
    <3>1. disk'["dump"] = disk["dump"] /\ harm'["dump"] = harm["dump"]
      BY <1>1, <2>2
    <3> QED
      BY <3>1 DEF WholeInv, DumpWhole, Dump, Missing, Complete, Whole
  <2> QED
    BY <2>1, <2>2
<1>8. HarmInv'
  BY DEF WholeInv, HarmInv, FlushedBy
<1> QED
  BY <1>4, <1>5, <1>6, <1>7, <1>8

LEMMA WriteBlockWhole ==
  ASSUME TypeInv, WholeInv, NEW s \in Savers, WriteBlock(s)
  PROVE  WholeInv'
<1>1. /\ saver[s] \in SaverStates /\ saver \in [Savers -> SaverStates]
      /\ FlushedBy(s)
      /\ saver' = [saver EXCEPT ![s].off = saver[s].off + 1]
  BY Flushes DEF WriteBlock, TypeInv, SaverType
<1>2. \A t \in Savers \ {s} : saver'[t] = saver[t]
  BY <1>1
<1>3. /\ saver'[s].pc = "write" /\ saver'[s].off = saver[s].off + 1
      /\ saver'[s].fd = saver[s].fd /\ saver'[s].snap = saver[s].snap
  BY <1>1 DEF SaverStates, FlushedBy
<1>4. /\ \A t \in Savers \ {s} : FileOK(t)'
      /\ saver'[s].fd = "dump" => harm'["dump"] = "mixed"
      /\ Own(s)' => Own(s) /\ \A t \in Savers \ {s} : saver'[t].fd # saver'[s].fd
      /\ DumpWhole'
      /\ HarmInv'
  BY <1>1, <1>2, <1>3, FlushOthers
<1>5. Own(s)' => \A b \in 1 .. saver'[s].off : disk'[saver'[s].fd][b] = saver'[s].snap
  BY <1>1, <1>3, <1>4, FlushOwn
<1>6. FileOK(s)'
  BY <1>3, <1>4, <1>5 DEF FileOK
<1> QED
  BY <1>4, <1>6 DEF WholeInv, FileInv

LEMMA CloseTempWhole ==
  ASSUME TypeInv, WholeInv, NEW s \in Savers, CloseTemp(s)
  PROVE  WholeInv'
<1>1. /\ saver[s] \in SaverStates /\ saver \in [Savers -> SaverStates]
      /\ FlushedBy(s) /\ saver[s].off = Blocks - 1
      /\ saver' = [saver EXCEPT ![s].pc = "rename", ![s].off = Blocks]
  BY Flushes DEF CloseTemp, TypeInv, SaverType
<1>2. \A t \in Savers \ {s} : saver'[t] = saver[t]
  BY <1>1
<1>3. /\ saver'[s].pc = "rename"
      /\ saver'[s].fd = saver[s].fd /\ saver'[s].snap = saver[s].snap
  BY <1>1 DEF SaverStates
<1>4. /\ \A t \in Savers \ {s} : FileOK(t)'
      /\ saver'[s].fd = "dump" => harm'["dump"] = "mixed"
      /\ Own(s)' => Own(s) /\ \A t \in Savers \ {s} : saver'[t].fd # saver'[s].fd
      /\ DumpWhole'
      /\ HarmInv'
  BY <1>1, <1>2, <1>3, FlushOthers
<1>5. Own(s)' => disk'[saver'[s].fd] = Whole(saver'[s].snap)
  <2>1. saver[s].off + 1 = Blocks
    BY <1>1, BlocksAssumption
  <2>2. Own(s)' => /\ disk'[saver[s].fd] \in Contents
                   /\ \A b \in 1 .. Blocks : disk'[saver[s].fd][b] = saver[s].snap
    BY <1>1, <1>4, <2>1, FlushOwn
  <2> QED
    BY <1>3, <2>2 DEF Contents, Whole
<1>6. FileOK(s)'
  BY <1>3, <1>4, <1>5 DEF FileOK, Whole
<1> QED
  BY <1>4, <1>6 DEF WholeInv, FileInv

(* How SaveDB ends, for the saver itself and for the others.               *)
Returns(s, ok) ==
  /\ saver'[s] = AfterReturn(s, ok)
  /\ ServerReturns(s, ok)
  /\ \A t \in Savers \ {s} : SameSaver(t)

LEMMA ReboundOthers ==
  ASSUME TypeInv, NEW s \in Savers, NEW ok, NEW f \in Temps, NEW now \in {"dump", "gone"},
         saver' = Rebound(s, ok, f, now)
  PROVE  /\ saver'[s] = AfterReturn(s, ok)
         /\ \A t \in Savers \ {s} :
              /\ SameSaver(t)
              /\ saver'[t].fd = IF saver[t].fd = f THEN now
                                ELSE IF now = "dump" /\ saver[t].fd = "dump" THEN "gone"
                                ELSE saver[t].fd
<1>1. \A t \in Savers : saver[t] \in SaverStates
  BY DEF TypeInv, SaverType
<1>2. ASSUME NEW t \in Savers \ {s}
      PROVE  /\ SameSaver(t)
             /\ saver'[t].fd = IF saver[t].fd = f THEN now
                               ELSE IF now = "dump" /\ saver[t].fd = "dump" THEN "gone"
                               ELSE saver[t].fd
  <2>1. CASE saver[t].fd = f
    <3>1. saver'[t] = [saver[t] EXCEPT !.fd = now]
      BY <2>1 DEF Rebound
    <3> QED
      BY <1>1, <2>1, <3>1 DEF SameSaver, SaverStates
  <2>2. CASE saver[t].fd # f /\ now = "dump" /\ saver[t].fd = "dump"
    <3>1. saver'[t] = [saver[t] EXCEPT !.fd = "gone"]
      BY <2>2 DEF Rebound
    <3> QED
      BY <1>1, <2>2, <3>1 DEF SameSaver, SaverStates
  <2>3. CASE saver[t].fd # f /\ ~ (now = "dump" /\ saver[t].fd = "dump")
    <3>1. saver'[t] = saver[t]
      BY <2>3 DEF Rebound
    <3> QED
      BY <2>3, <3>1 DEF SameSaver
  <2> QED
    BY <2>1, <2>2, <2>3
<1> QED
  BY <1>2 DEF Rebound

(* The rename of a file that others have open; its removal.                *)
LEMMA ReboundDump ==
  ASSUME TypeInv, NEW s \in Savers, NEW ok, NEW f \in Temps,
         saver' = Rebound(s, ok, f, "dump")
  PROVE  /\ saver'[s] = AfterReturn(s, ok)
         /\ \A t \in Savers \ {s} :
              /\ SameSaver(t)
              /\ saver'[t].fd = IF saver[t].fd = f THEN "dump"
                                ELSE IF saver[t].fd = "dump" THEN "gone"
                                ELSE saver[t].fd
<1> DEFINE Kept(now) == \A t \in Savers \ {s} :
                          /\ SameSaver(t)
                          /\ saver'[t].fd = IF saver[t].fd = f THEN now
                                            ELSE IF now = "dump" /\ saver[t].fd = "dump" THEN "gone"
                                            ELSE saver[t].fd
<1>1. "dump" \in {"dump", "gone"}
  OBVIOUS
<1>2. saver'[s] = AfterReturn(s, ok) /\ Kept("dump")
  BY <1>1, ReboundOthers
<1> QED
  BY <1>2

LEMMA ReboundGone ==
  ASSUME TypeInv, NEW s \in Savers, NEW ok, NEW f \in Temps,
         saver' = Rebound(s, ok, f, "gone")
  PROVE  /\ saver'[s] = AfterReturn(s, ok)
         /\ \A t \in Savers \ {s} :
              /\ SameSaver(t)
              /\ saver'[t].fd = IF saver[t].fd = f THEN "gone" ELSE saver[t].fd
<1> DEFINE Kept(now) == \A t \in Savers \ {s} :
                          /\ SameSaver(t)
                          /\ saver'[t].fd = IF saver[t].fd = f THEN now
                                            ELSE IF now = "dump" /\ saver[t].fd = "dump" THEN "gone"
                                            ELSE saver[t].fd
<1>1. "gone" \in {"dump", "gone"} /\ "gone" # "dump"
  OBVIOUS
<1>2. saver'[s] = AfterReturn(s, ok) /\ Kept("gone")
  BY <1>1, ReboundOthers
<1> QED
  BY <1>1, <1>2

LEMMA SaveReturns ==
  ASSUME TypeInv, NEW s \in Savers
  PROVE  /\ RenameTemp(s) /\ saver[s].fd \in Temps => Returns(s, TRUE)
         /\ RenameTemp(s) /\ saver[s].fd \notin Temps =>
              Returns(s, FALSE) /\ disk' = disk /\ harm' = harm
         /\ FailSave(s) => Returns(s, FALSE) /\ disk' = disk /\ harm' = harm
<1>1. ASSUME NEW ok, saver' = [saver EXCEPT ![s] = AfterReturn(s, ok)]
      PROVE  saver'[s] = AfterReturn(s, ok) /\ \A t \in Savers \ {s} : SameSaver(t)
  BY <1>1 DEF SameSaver, TypeInv, SaverType
<1>2. ASSUME RenameTemp(s), saver[s].fd \in Temps PROVE Returns(s, TRUE)
  <2>1. saver' = Rebound(s, TRUE, saver[s].fd, "dump") /\ ServerReturns(s, TRUE)
    BY <1>2 DEF RenameTemp
  <2> QED
    BY <1>2, <2>1, ReboundDump DEF Returns
<1>3. ASSUME RenameTemp(s), saver[s].fd \notin Temps
      PROVE  Returns(s, FALSE) /\ disk' = disk /\ harm' = harm
  <2>1. /\ saver' = [saver EXCEPT ![s] = AfterReturn(s, FALSE)] /\ ServerReturns(s, FALSE)
        /\ disk' = disk /\ harm' = harm
    BY <1>3 DEF RenameTemp
  <2> QED
    BY <1>1, <2>1 DEF Returns
<1>4. ASSUME FailSave(s)
      PROVE  Returns(s, FALSE) /\ disk' = disk /\ harm' = harm
  <2>1. ServerReturns(s, FALSE) /\ disk' = disk /\ harm' = harm
    BY <1>4 DEF FailSave
  <2>2. CASE saver[s].fd \in Temps
    <3>1. saver' = Rebound(s, FALSE, saver[s].fd, "gone")
      BY <1>4, <2>2 DEF FailSave
    <3> QED
      BY <2>1, <2>2, <3>1, ReboundGone DEF Returns
  <2>3. CASE saver[s].fd \notin Temps
    <3>1. saver' = [saver EXCEPT ![s] = AfterReturn(s, FALSE)]
      BY <1>4, <2>3 DEF FailSave
    <3> QED
      BY <1>1, <2>1, <3>1 DEF Returns
  <2> QED
    BY <2>2, <2>3
<1> QED
  BY <1>2, <1>3, <1>4

LEMMA AfterReturnIdle ==
  ASSUME NEW s, NEW ok
  PROVE  /\ AfterReturn(s, ok).fd = "gone" /\ ~ AfterReturn(s, ok).orphan
         /\ AfterReturn(s, ok).pc \notin {"open", "write", "rename"}
         /\ AfterReturn(s, ok).pc \notin Working
BY DEF AfterReturn, Idle, Working

(* A mixed file, renamed, is what the other savers go on writing to.       *)
LEMMA RenameTempWhole ==
  ASSUME TypeInv, WholeInv, NEW s \in Savers, RenameTemp(s)
  PROVE  WholeInv'
<1> DEFINE f == saver[s].fd
<1>0. /\ saver[s].pc = "rename" /\ saver[s].snap \in Versions
      /\ saver'[s].fd = "gone" /\ saver'[s].pc \notin {"open", "write", "rename"}
      /\ "gone" \notin Temps /\ "dump" \notin Temps
  <2>1. saver[s].pc = "rename" /\ saver[s].snap \in Versions
    BY DEF RenameTemp, TypeInv, SaverType, SaverStates
  <2>2. \E ok : saver'[s] = AfterReturn(s, ok)
    BY SaveReturns DEF Returns
  <2>3. "gone" \notin Temps /\ "dump" \notin Temps
    BY SaverAssumption DEF Savers
  <2> QED
    BY <2>1, <2>2, <2>3, AfterReturnIdle
<1>1. CASE f \notin Temps
  <2>1. saver' = [saver EXCEPT ![s] = AfterReturn(s, FALSE)] /\ disk' = disk /\ harm' = harm
    BY <1>1 DEF RenameTemp
  <2>2. \A t \in Savers \ {s} : Untouched(t)
    BY <2>1 DEF Untouched, TypeInv, SaverType
  <2>3. WithoutFile(s)
    BY <1>0 DEF WithoutFile
  <2> QED
    BY <2>1, <2>2, <2>3, FilesAlone
<1>2. CASE f \in Temps
  <2>1. /\ disk' = [disk EXCEPT !["dump"] = disk[f]]
        /\ harm' = [harm EXCEPT !["dump"] = harm[f]]
        /\ saver' = Rebound(s, TRUE, f, "dump")
    BY <1>2 DEF RenameTemp
  <2>2. /\ disk'["dump"] = disk[f] /\ harm'["dump"] = harm[f]
        /\ \A g \in Temps : disk'[g] = disk[g] /\ harm'[g] = harm[g]
    BY <1>0, <2>1 DEF TypeInv, DiskType
  <2>3. \A t \in Savers \ {s} :
          /\ SameSaver(t)
          /\ saver'[t].fd = IF saver[t].fd = f THEN "dump"
                            ELSE IF saver[t].fd = "dump" THEN "gone"
                            ELSE saver[t].fd
    <3>1. PICK ok : saver' = Rebound(s, ok, f, "dump")
      BY ONLY <2>1
    <3> HIDE DEF f
    <3> QED
      BY ONLY TypeInv, <1>2, s \in Savers, <3>1, ReboundDump
  <2>4. FileOK(s) /\ (harm[f] # "mixed" => Own(s))
    BY <1>2 DEF WholeInv, FileInv, Own
  <2>5. ASSUME NEW t \in Savers \ {s} PROVE FileOK(t)'
    <3>1. FileOK(t) /\ SameSaver(t)
      BY <2>3 DEF WholeInv, FileInv
    <3>2. saver'[t].fd = "dump" => saver[t].fd = f
      BY <2>3
    <3>3. saver'[t].fd = "dump" => harm'["dump"] = "mixed"
      BY <2>2, <2>4, <3>2 DEF FileOK
    <3>4. Own(t)' => Own(t) /\ saver'[t].fd = saver[t].fd
      BY <1>0, <2>2, <2>3 DEF Own
    <3>5. Own(t)' => \A u \in Savers \ {t} : saver'[u].fd # saver[t].fd
      <4> SUFFICES ASSUME Own(t)', NEW u \in Savers \ {t} PROVE saver'[u].fd # saver[t].fd
        OBVIOUS
      <4>1. saver[u].fd # saver[t].fd /\ saver[t].fd \in Temps
        BY <3>1, <3>4 DEF FileOK, Own
      <4> QED
        BY <1>0, <2>3, <4>1
    <3>6. Own(t)' => disk'[saver[t].fd] = disk[saver[t].fd]
      BY <2>2, <3>4 DEF Own
    <3>7. saver[t].fd = "gone" => saver'[t].fd = "gone"
      BY <1>0, <1>2, <2>3
    <3> QED
      BY <3>1, <3>3, <3>4, <3>5, <3>6, <3>7, OtherFile DEF WholeInv, SameSaver
  <2>6. FileOK(s)'
    BY <1>0 DEF FileOK, Own
  <2>7. DumpWhole'
    <3>1. CASE harm[f] = "mixed"
      BY <2>2, <3>1 DEF DumpWhole
    <3>2. CASE harm[f] # "mixed"
      <4>1. disk'["dump"] = Whole(saver[s].snap)
        BY <1>0, <2>2, <2>4, <3>2 DEF FileOK
      <4> QED
        BY <1>0, <4>1 DEF DumpWhole, Dump, Complete, Whole
    <3> QED
      BY <3>1, <3>2
  <2>8. HarmInv'
    BY <1>2, <2>2 DEF WholeInv, HarmInv
  <2> QED
    BY <2>5, <2>6, <2>7, <2>8 DEF WholeInv, FileInv
<1> QED
  BY <1>1, <1>2

LEMMA FailSaveWhole ==
  ASSUME TypeInv, WholeInv, NEW s \in Savers, FailSave(s)
  PROVE  WholeInv'
<1> DEFINE f == saver[s].fd
<1>0. /\ saver'[s].fd = "gone" /\ saver'[s].pc \notin {"open", "write", "rename"}
      /\ "gone" \notin Temps /\ "dump" \notin Temps
      /\ disk' = disk /\ harm' = harm
  <2>1. saver'[s] = AfterReturn(s, FALSE) /\ disk' = disk /\ harm' = harm
    BY SaveReturns DEF Returns
  <2>2. "gone" \notin Temps /\ "dump" \notin Temps
    BY SaverAssumption DEF Savers
  <2> QED
    BY <2>1, <2>2, AfterReturnIdle
<1>1. WithoutFile(s)
  BY <1>0 DEF WithoutFile
<1>2. CASE f \notin Temps
  <2>1. saver' = [saver EXCEPT ![s] = AfterReturn(s, FALSE)]
    BY <1>2 DEF FailSave
  <2>2. \A t \in Savers \ {s} : Untouched(t)
    BY <2>1 DEF Untouched, TypeInv, SaverType
  <2> QED
    BY <1>0, <1>1, <2>2, FilesAlone
<1>3. CASE f \in Temps
  <2>1. saver' = Rebound(s, FALSE, f, "gone")
    BY <1>3 DEF FailSave
  <2>2. \A t \in Savers \ {s} :
          SameSaver(t) /\ saver'[t].fd = IF saver[t].fd = f THEN "gone" ELSE saver[t].fd
    BY <1>3, <2>1, ReboundGone
  <2>3. ASSUME NEW t \in Savers \ {s} PROVE FileOK(t)'
    <3>1. FileOK(t) /\ SameSaver(t)
      BY <2>2 DEF WholeInv, FileInv
    <3>2. saver'[t].fd = "dump" => harm'["dump"] = "mixed"
      BY <1>0, <2>2, <3>1 DEF FileOK
    <3>3. Own(t)' => Own(t) /\ saver'[t].fd = saver[t].fd
      BY <1>0, <2>2 DEF Own
    <3>4. Own(t)' => \A u \in Savers \ {t} : saver'[u].fd # saver[t].fd
      <4> SUFFICES ASSUME Own(t)', NEW u \in Savers \ {t} PROVE saver'[u].fd # saver[t].fd
        OBVIOUS
      <4>1. saver[u].fd # saver[t].fd /\ saver[t].fd \in Temps
        BY <3>1, <3>3 DEF FileOK, Own
      <4> QED
        BY <1>0, <2>2, <4>1
    <3>5. saver[t].fd = "gone" => saver'[t].fd = "gone"
      BY <2>2
    <3> QED
      BY <1>0, <3>1, <3>2, <3>3, <3>4, <3>5, OtherFile DEF WholeInv, SameSaver
  <2>4. FileOK(s)'
    BY <1>0 DEF FileOK, Own
  <2>5. DumpWhole' /\ HarmInv'
    BY <1>0 DEF WholeInv, DumpWhole, Dump, Missing, Complete, Whole, HarmInv
  <2> QED
    BY <2>3, <2>4, <2>5 DEF WholeInv, FileInv
<1> QED
  BY <1>2, <1>3

LEMMA StepWhole ==
  ASSUME TypeInv, WholeInv, [Next]_vars PROVE WholeInv'
<1> USE DEF Untouched, WithoutFile
<1>0. \A t \in Savers : saver[t] \in SaverStates
  BY DEF TypeInv, SaverType
<1>1. CASE UNCHANGED <<disk, harm, saver>>
  BY <1>1, FilesAlone
<1>2. ASSUME disk' = disk, harm' = harm, NEW s \in Savers, NEW r,
             saver' = [saver EXCEPT ![s] = r],
             r.fd = "gone", r.pc \notin {"write", "rename"},
             r.pc = "open" => r.off = 0
      PROVE  WholeInv'
  BY <1>2, FilesAlone DEF TypeInv, SaverType
<1>3. CASE Write \/ InterruptHandler \/ UNCHANGED vars
  BY <1>1, <1>3 DEF Write, InterruptHandler, vars
<1>4. CASE Tick \/ Restart
  <2>1. /\ disk' = disk /\ harm' = harm
        /\ saver' = [s \in Savers |-> [saver[s] EXCEPT !.recent = FALSE]]
    BY <1>4 DEF Tick, Restart
  <2>2. \A t \in Savers : Untouched(t)
    BY <1>0, <2>1 DEF SaverStates
  <2> QED
    BY <2>1, <2>2, FilesAlone
<1>5. CASE Exit \/ ServerKilled
  <2>1. disk' = disk /\ harm' = harm /\ LeaveOrphans
    BY <1>5 DEF Exit, ServerKilled
  <2>2. ASSUME NEW t \in Savers PROVE Untouched(t) \/ WithoutFile(t)
    <3>1. CASE t \in Pids /\ saver[t].pc \in Working
      BY <1>0, <2>1, <3>1 DEF LeaveOrphans, SaverStates
    <3>2. CASE ~ (t \in Pids /\ saver[t].pc \in Working)
      BY <2>1, <3>2 DEF LeaveOrphans, Idle
    <3> QED
      BY <3>1, <3>2
  <2> QED
    BY <2>1, <2>2, FilesAlone
<1>6. ASSUME SaveDBBackground, disk' = disk, harm' = harm PROVE WholeInv'
  <2> DEFINE r == [Idle EXCEPT !.pc = "open", !.snap = db, !.draw = draws]
  <2>1. r.fd = "gone" /\ r.pc = "open" /\ r.off = 0
    BY DEF Idle
  <2>2. \/ saver' = saver
        \/ \E p \in Savers : saver' = [saver EXCEPT ![p] = r]
    BY <1>6 DEF SaveDBBackground, Fork, Savers
  <2> HIDE DEF r
  <2>3. CASE saver' = saver
    BY <1>1, <1>6, <2>3
  <2>4. ASSUME NEW p \in Savers, saver' = [saver EXCEPT ![p] = r] PROVE WholeInv'
    BY <1>2, <1>6, <2>1, <2>4
  <2> QED
    BY <2>2, <2>3, <2>4
<1>7. CASE BgsaveCommand
  BY <1>1, <1>6, <1>7 DEF BgsaveCommand
<1>8. CASE SaveCommand \/ ShutDownCommand
  <2> DEFINE r == [Idle EXCEPT !.pc = "open", !.snap = db, !.draw = draws]
  <2>1. r.fd = "gone" /\ r.pc = "open" /\ r.off = 0
    BY DEF Idle
  <2>2. /\ Main \in Savers /\ disk' = disk /\ harm' = harm
        /\ saver' = [saver EXCEPT ![Main] = r]
    BY <1>8 DEF SaveCommand, ShutDownCommand, EnterSaveDB, Savers
  <2> HIDE DEF r
  <2> QED
    BY <1>2, <2>1, <2>2
<1>9. CASE ServerCron
  <2>1. disk' = disk /\ harm' = harm
    BY <1>9 DEF ServerCron
  <2>2. ASSUME NEW p \in Zombies, saver' = [saver EXCEPT ![p] = Idle] PROVE WholeInv'
    <3>1. p \in Savers /\ Idle.fd = "gone" /\ Idle.pc = "free"
      BY DEF Zombies, Children, Savers, Idle
    <3> QED
      BY <1>2, <2>1, <2>2, <3>1
  <2>3. CASE ReapChild
    BY <1>1, <2>1, <2>2, <2>3 DEF ReapChild
  <2> QED
    BY <1>1, <1>6, <1>9, <2>1, <2>3 DEF ServerCron
<1>10. ASSUME NEW p \in Pids, ChildKilled(p) PROVE WholeInv'
  <2> DEFINE k == [Idle EXCEPT !.pc = "killed"]
  <2>1. Idle.fd = "gone" /\ Idle.pc = "free" /\ k.fd = "gone" /\ k.pc = "killed"
    BY DEF Idle
  <2>2. /\ p \in Savers /\ disk' = disk /\ harm' = harm
        /\ \/ saver' = [saver EXCEPT ![p] = Idle]
           \/ saver' = [saver EXCEPT ![p] = k]
    BY <1>10 DEF ChildKilled, Savers
  <2> HIDE DEF k
  <2> QED
    BY <1>2, <2>1, <2>2
<1>11. ASSUME NEW s \in Savers, SaveStep(s) \/ FailSave(s) PROVE WholeInv'
  BY <1>11, OpenTempWhole, WriteBlockWhole, CloseTempWhole, RenameTempWhole, FailSaveWhole
     DEF SaveStep
<1> QED
  BY <1>3, <1>4, <1>5, <1>7, <1>8, <1>9, <1>10, <1>11 DEF Next

LEMMA WholeInvariant == Spec => []WholeInv
<1>1. Init => WholeInv
  <2>1. Init => \A s \in Savers : saver[s].fd = "gone" /\ saver[s].pc = "free"
    BY DEF Init, Idle
  <2>2. Init => disk["dump"] = NoFile /\ HarmInv
    BY DEF Init, HarmInv
  <2>3. "gone" \notin Temps
    BY SaverAssumption DEF Savers
  <2> QED
    BY <2>1, <2>2, <2>3 DEF WholeInv, FileInv, FileOK, Own, DumpWhole, Dump, Missing
<1>2. TypeInv /\ WholeInv /\ [Next]_vars => WholeInv'
  BY StepWhole
<1> QED
  BY <1>1, <1>2, TypeInvariant, PTL DEF Spec

(* However processes interleave, fail and die, and whatever is lost of     *)
(* what they write, the dump is missing or made by one save of one version *)
(* (server.c:485-487); only two savers that take the same temporary name   *)
(* can make it otherwise, and then it is known to be mixed.                *)
THEOREM DumpAlwaysWhole == Spec => []DumpWhole
<1>1. WholeInv => DumpWhole
  BY DEF WholeInv
<1> QED
  BY <1>1, WholeInvariant, PTL

(***************************************************************************)
(* Persistence implements SnapshotStore.  The server runs SaveDB exactly   *)
(* while a SAVE or a SHUTDOWN blocks it.                                   *)
(***************************************************************************)
MainInv ==
  IF status \in {"save", "shutdown"}
  THEN saver[Main].pc \in Working
  ELSE saver[Main].pc = "free"

LEMMA StepMain ==
  ASSUME TypeInv, MainInv, [Next]_vars PROVE MainInv'
<1>0. Main \in Savers /\ Main \notin Pids /\ saver \in [Savers -> SaverStates]
  BY SaverAssumption DEF Savers, TypeInv, SaverType
<1>1. CASE Write \/ InterruptHandler \/ UNCHANGED vars
  BY <1>1 DEF Write, InterruptHandler, vars, server, MainInv
<1>2. CASE Tick
  <2>1. saver'[Main].pc = saver[Main].pc /\ status' = status
    BY <1>0, <1>2 DEF Tick, SaverStates
  <2> QED
    BY <2>1 DEF MainInv
<1>3. ASSUME status' = status, saver'[Main] = saver[Main] PROVE MainInv'
  BY <1>3 DEF MainInv
<1>4. ASSUME SaveDBBackground PROVE saver'[Main] = saver[Main]
  BY <1>0, <1>4 DEF SaveDBBackground, Fork
<1>5. CASE ServerCron
  <2>1. status' = status
    BY <1>5 DEF ServerCron
  <2>2. saver'[Main] = saver[Main]
    BY <1>0, <1>4, <1>5 DEF ServerCron, ReapChild, Zombies, Children
  <2> QED
    BY <1>3, <2>1, <2>2
<1>6. CASE BgsaveCommand
  <2>1. status' = status
    BY <1>6 DEF BgsaveCommand
  <2>2. saver'[Main] = saver[Main]
    BY <1>4, <1>6 DEF BgsaveCommand
  <2> QED
    BY <1>3, <2>1, <2>2
<1>7. CASE SaveCommand \/ ShutDownCommand
  <2>1. saver'[Main].pc = "open"
    BY <1>0, <1>7 DEF SaveCommand, ShutDownCommand, EnterSaveDB, Idle
  <2>2. status' \in {"save", "shutdown"}
    BY <1>7 DEF SaveCommand, ShutDownCommand, EnterSaveDB
  <2> QED
    BY <2>1, <2>2 DEF MainInv, Working
<1>8. ASSUME NEW s \in Savers, NEW ok, Returns(s, ok) PROVE MainInv'
  <2>1. CASE s = Main
    <3>1. saver'[Main].pc = "free"
      BY <1>8, <2>1 DEF Returns, AfterReturn, Idle
    <3>2. status' = "serving"
      BY <1>8, <2>1 DEF Returns, ServerReturns
    <3> QED
      BY <3>1, <3>2 DEF MainInv
  <2>2. CASE s # Main
    <3>1. status' = status /\ saver'[Main].pc = saver[Main].pc
      BY <1>0, <1>8, <2>2 DEF Returns, ServerReturns, SameSaver
    <3> QED
      BY <3>1 DEF MainInv
  <2> QED
    BY <2>1, <2>2
<1>9. ASSUME NEW s \in Savers, RenameTemp(s) \/ FailSave(s) PROVE MainInv'
  <2>1. \E ok : Returns(s, ok)
    BY <1>9, SaveReturns
  <2> QED
    BY <1>8, <2>1
<1>10. ASSUME NEW s \in Savers, OpenTemp(s) \/ WriteBlock(s) \/ CloseTemp(s)
       PROVE  MainInv'
  <2>1. status' = status /\ saver[s].pc \in Working
    BY <1>10 DEF OpenTemp, WriteBlock, CloseTemp, server, Working
  <2>2. saver'[s].pc \in Working
    <3>1. CASE OpenTemp(s)
      <4>1. PICK f : saver' = [saver EXCEPT ![s].pc = "write", ![s].fd = f,
                                            ![s].recent = TRUE]
        BY <3>1 DEF OpenTemp
      <4>2. saver'[s].pc = "write"
        BY <1>0, <4>1 DEF SaverStates
      <4> QED
        BY <4>2 DEF Working
    <3>2. CASE WriteBlock(s)
      BY <1>0, <3>2 DEF WriteBlock, SaverStates, Working
    <3>3. CASE CloseTemp(s)
      BY <1>0, <3>3 DEF CloseTemp, SaverStates, Working
    <3> QED
      BY <1>10, <3>1, <3>2, <3>3
  <2>3. s # Main => saver'[Main] = saver[Main]
    BY <1>0, <1>10 DEF OpenTemp, WriteBlock, CloseTemp
  <2>4. CASE s = Main
    <3>1. status \in {"save", "shutdown"}
      BY <2>1, <2>4 DEF MainInv, Working
    <3> QED
      BY <2>1, <2>2, <2>4, <3>1 DEF MainInv
  <2> QED
    BY <1>3, <2>1, <2>3, <2>4
<1>11. ASSUME NEW p \in Pids, ChildKilled(p) PROVE MainInv'
  BY <1>0, <1>3, <1>11 DEF ChildKilled, server
<1>12. CASE Exit \/ ServerKilled
  BY <1>0, <1>12 DEF Exit, ServerKilled, LeaveOrphans, Idle, MainInv
<1>13. CASE Restart
  <2>1. saver'[Main].pc = saver[Main].pc
    BY <1>0, <1>13 DEF Restart, SaverStates
  <2>2. status' \notin {"save", "shutdown"} /\ status \notin {"save", "shutdown"}
    BY <1>13 DEF Restart, LoadDB
  <2> QED
    BY <2>1, <2>2 DEF MainInv
<1> QED
  BY <1>1, <1>2, <1>5, <1>6, <1>7, <1>9, <1>10, <1>11, <1>12, <1>13 DEF Next, SaveStep

(* The abstract state changes with the part of the concrete one it reads.  *)
LEMMA SameStored ==
  ASSUME disk'["dump"] = disk["dump"], harm'["dump"] = harm["dump"]
  PROVE  Stored' = Stored
  BY DEF Stored, Intact, Dump, Missing, Complete, Whole

LEMMA NotMissing == \A c \in Contents : c # NoFile
<1>1. \A c \in Contents : 1 \in DOMAIN c
  BY BlocksAssumption DEF Contents
<1>2. DOMAIN NoFile = {}
  BY DEF NoFile
<1> QED
  BY <1>1, <1>2

LEMMA SameTaken ==
  ASSUME \A t \in Savers : /\ saver'[t].pc \in Working <=> saver[t].pc \in Working
                           /\ saver[t].pc \in Working => saver'[t].snap = saver[t].snap
  PROVE  Taken' = Taken
  BY DEF Taken

(* What becomes of one saver, seen from the abstract specification.        *)
LEMMA TakenUpdate ==
  ASSUME TypeInv, NEW s \in Savers, NEW r, saver' = [saver EXCEPT ![s] = r]
  PROVE  /\ Taken' = [Taken EXCEPT ![s] = IF r.pc \in Working THEN r.snap ELSE Hole]
         /\ saver'[s] = r
         /\ \A t \in Savers \ {s} : SameSaver(t)
<1>1. \A t \in Savers : saver'[t] = IF t = s THEN r ELSE saver[t]
  BY DEF TypeInv, SaverType
<1>2. ASSUME NEW t \in Savers
      PROVE  Taken'[t] = IF t = s THEN IF r.pc \in Working THEN r.snap ELSE Hole
                                  ELSE Taken[t]
  BY <1>1, <1>2 DEF Taken
<1>3. Taken' = [Taken EXCEPT ![s] = IF r.pc \in Working THEN r.snap ELSE Hole]
  BY <1>2 DEF Taken
<1> QED
  BY <1>1, <1>3 DEF SameSaver

LEMMA TakenEnds ==
  ASSUME NEW s \in Savers, saver'[s].pc \notin Working,
         \A t \in Savers \ {s} : SameSaver(t)
  PROVE  Taken' = [Taken EXCEPT ![s] = Hole]
BY DEF Taken, SameSaver

StoreVars == <<db, written, Stored, Taken>>

LEMMA EndOfSave ==
  ASSUME NEW s \in Savers, saver'[s].pc \notin Working,
         \A t \in Savers \ {s} : SameSaver(t),
         db' = db, written' = written, disk' = disk, harm' = harm
  PROVE  [Store!Next]_StoreVars
<1>1. Stored' = Stored
  BY SameStored
<1>2. Taken' = [Taken EXCEPT ![s] = Hole]
  BY TakenEnds
<1>3. CASE Taken[s] = Hole
  <2>1. Taken' = Taken
    BY <1>2, <1>3 DEF Taken
  <2> QED
    BY <1>1, <2>1 DEF StoreVars
<1>4. CASE Taken[s] # Hole
  <2>1. Store!Abandon(s)
    BY <1>1, <1>2, <1>4 DEF Store!Abandon
  <2> QED
    BY <2>1 DEF Store!Next
<1> QED
  BY <1>3, <1>4

LEMMA StartOfSave ==
  ASSUME TypeInv, NEW s \in Savers, saver[s].pc = "free",
         saver' = [saver EXCEPT ![s] = [Idle EXCEPT !.pc = "open", !.snap = db,
                                                   !.draw = draws]],
         db' = db, written' = written, disk' = disk, harm' = harm
  PROVE  [Store!Next]_StoreVars
<1> DEFINE r == [Idle EXCEPT !.pc = "open", !.snap = db, !.draw = draws]
<1>1. r.pc \in Working /\ r.snap = db
  BY DEF Idle, Working
<1>2. Taken[s] = Hole
  BY DEF Taken, Working
<1> HIDE DEF r
<1>3. Taken' = [Taken EXCEPT ![s] = db]
  <2>1. saver' = [saver EXCEPT ![s] = r]
    BY DEF r
  <2> QED
    BY <1>1, <2>1, TakenUpdate
<1>4. Store!TakeSnapshot(s)
  BY <1>2, <1>3, SameStored DEF Store!TakeSnapshot
<1> QED
  BY <1>4 DEF Store!Next

LEMMA ForkStore ==
  ASSUME TypeInv, SaveDBBackground, db' = db, written' = written, disk' = disk, harm' = harm
  PROVE  [Store!Next]_StoreVars
<1>1. CASE saver' = saver
  BY <1>1, SameStored DEF StoreVars, Taken
<1>2. CASE saver' # saver
  <2>1. PICK p \in Pids :
          /\ saver[p].pc = "free"
          /\ saver' = [saver EXCEPT ![p] = [Idle EXCEPT !.pc = "open",
                                            !.snap = db, !.draw = draws]]
    BY <1>2 DEF SaveDBBackground, Fork
  <2> QED
    BY <2>1, StartOfSave DEF Savers
<1> QED
  BY <1>1, <1>2

(* A save installs its snapshot, or a file that has come to harm unnoticed. *)
LEMMA InstallStore ==
  ASSUME TypeInv, WholeInv, NEW s \in Savers, RenameTemp(s)
  PROVE  [Store!Next]_StoreVars
<1> DEFINE f == saver[s].fd
<1>1. /\ saver[s].pc = "rename" /\ saver[s].snap \in Versions
      /\ db' = db /\ written' = written
  BY DEF RenameTemp, TypeInv, SaverType, SaverStates
<1>2. Taken[s] = saver[s].snap /\ Taken[s] # Hole
  BY <1>1 DEF Taken, Working, Versions, Hole
<1>3. \E ok : Returns(s, ok)
  BY SaveReturns
<1>4. saver'[s].pc \notin Working /\ \A t \in Savers \ {s} : SameSaver(t)
  BY <1>3, AfterReturnIdle DEF Returns
<1>5. Taken' = [Taken EXCEPT ![s] = Hole]
  BY <1>4, TakenEnds
<1>6. CASE f \notin Temps
  <2>1. disk' = disk /\ harm' = harm
    BY <1>6, SaveReturns
  <2> QED
    BY <1>1, <1>4, <2>1, EndOfSave
<1>7. CASE f \in Temps
  <2>1. disk'["dump"] = disk[f] /\ harm'["dump"] = harm[f]
    BY <1>7 DEF RenameTemp, TypeInv, DiskType
  <2>2. disk[f] \in Contents /\ disk[f] # NoFile
    BY <1>7, NotMissing DEF TypeInv, DiskType
  <2>3. Stored' = IF Complete(disk[f]) /\ harm[f] = "none" THEN disk[f][1] ELSE Hole
    BY <2>1, <2>2 DEF Stored, Dump, Missing, Intact, Complete, Whole
  <2>4. CASE harm[f] = "none"
    <3>1. disk[f] = Whole(saver[s].snap)
      BY <1>1, <1>7, <2>4 DEF WholeInv, FileInv, FileOK, Own
    <3>2. Complete(disk[f]) /\ disk[f][1] = saver[s].snap
      BY <1>1, <3>1, BlocksAssumption DEF Complete, Whole
    <3>3. Store!Install(s)
      BY <1>1, <1>2, <1>5, <2>3, <2>4, <3>2 DEF Store!Install
    <3> QED
      BY <3>3 DEF Store!Next
  <2>5. CASE harm[f] # "none"
    <3>1. Faults \cap Unnoticed # {}
      BY <1>7, <2>5 DEF WholeInv, HarmInv
    <3>2. Store!Spoil(s)
      BY <1>1, <1>2, <1>5, <2>3, <2>5, <3>1 DEF Store!Spoil
    <3> QED
      BY <3>2 DEF Store!Next
  <2> QED
    BY <2>4, <2>5
<1> QED
  BY <1>6, <1>7

LEMMA RestartStore ==
  ASSUME TypeInv, WholeInv, Restart
  PROVE  [Store!Next]_StoreVars
<1>1. \A t \in Savers : saver'[t].pc = saver[t].pc /\ saver'[t].snap = saver[t].snap
  BY DEF Restart, TypeInv, SaverType, SaverStates
<1>2. Stored' = Stored /\ Taken' = Taken
  BY <1>1, SameStored, SameTaken DEF Restart
<1>3. LoadDB
  BY DEF Restart
<1>4. CASE Missing(Dump)
  <2>1. Stored = 0 /\ Stored # Hole
    BY <1>4 DEF Stored, Hole
  <2>2. ~ Intact
    <3>1. ASSUME NEW v \in Versions PROVE Dump # Whole(v)
      <4>1. Whole(v) \in Contents
        BY DEF Whole, Contents
      <4> QED
        BY <1>4, <4>1, NotMissing DEF Missing
    <3> QED
      BY <3>1 DEF Intact, Complete
  <2>3. Store!Recover
    BY <1>2, <1>3, <1>4, <2>1, <2>2 DEF LoadDB, Store!Recover
  <2> QED
    BY <2>3 DEF Store!Next
<1>5. CASE ~ Missing(Dump) /\ Intact
  <2>1. Stored = Dump[1] /\ Stored # Hole
    BY <1>5, BlocksAssumption DEF Stored, Intact, Complete, Whole, Versions, Hole
  <2>2. Store!Recover
    BY <1>2, <1>3, <1>5, <2>1 DEF LoadDB, Store!Recover
  <2> QED
    BY <2>2 DEF Store!Next
<1>6. CASE ~ Missing(Dump) /\ ~ Intact
  <2>1. Stored = Hole
    BY <1>6 DEF Stored
  <2>2. Faults \cap Unnoticed # {}
    BY <1>6 DEF WholeInv, DumpWhole, HarmInv, Intact
  <2>3. Store!RecoverDamaged
    BY <1>2, <1>3, <1>6, <2>1, <2>2 DEF LoadDB, Store!RecoverDamaged
  <2> QED
    BY <2>3 DEF Store!Next
<1> QED
  BY <1>4, <1>5, <1>6

(* A flush into the dump finds it mixed already, and leaves it mixed.      *)
LEMMA FlushStore ==
  ASSUME TypeInv, WholeInv, NEW s \in Savers, FlushedBy(s)
  PROVE  Stored' = Stored
<1>1. \A f \in Temps \cup {"dump"} :
        /\ harm'[f] = "mixed" <=> harm[f] = "mixed"
        /\ f # saver[s].fd => harm'[f] = harm[f] /\ disk'[f] = disk[f]
  BY FlushElsewhere
<1>2. CASE saver[s].fd # "dump"
  BY <1>1, <1>2, SameStored
<1>3. CASE saver[s].fd = "dump"
  <2>1. harm["dump"] = "mixed" /\ harm'["dump"] = "mixed"
    BY <1>1, <1>3 DEF WholeInv, FileInv, FileOK
  <2>2. disk["dump"] \in Contents
    BY <1>3 DEF TypeInv, DiskType
  <2>3. disk'["dump"] \in Contents
    BY <1>3, <2>2, FlushType, TypeInvOK DEF FlushedBy
  <2> QED
    BY <2>1, <2>2, <2>3, NotMissing DEF Stored, Intact, Dump, Missing
<1> QED
  BY <1>2, <1>3

LEMMA LeaveStore ==
  ASSUME TypeInv, LeaveOrphans, db' = db, written' = written, disk' = disk, harm' = harm
  PROVE  [Store!Next]_StoreVars
<1>1. \A t \in Savers \ {Main} :
        /\ saver'[t].pc \in Working <=> saver[t].pc \in Working
        /\ saver[t].pc \in Working => saver'[t].snap = saver[t].snap
  <2> SUFFICES ASSUME NEW t \in Savers \ {Main}
               PROVE  /\ saver'[t].pc \in Working <=> saver[t].pc \in Working
                      /\ saver[t].pc \in Working => saver'[t].snap = saver[t].snap
    OBVIOUS
  <2>1. saver[t] \in SaverStates /\ t \in Pids
    BY DEF TypeInv, SaverType, Savers
  <2>2. CASE saver[t].pc \in Working
    BY <2>1, <2>2 DEF LeaveOrphans, SaverStates
  <2>3. CASE saver[t].pc \notin Working
    BY <2>3 DEF LeaveOrphans, Idle, Working
  <2> QED
    BY <2>2, <2>3
<1>2. Main \in Savers /\ saver'[Main].pc \notin Working
  BY SaverAssumption DEF LeaveOrphans, Savers, Idle, Working
<1>3. Taken' = [Taken EXCEPT ![Main] = Hole]
  BY <1>1, <1>2 DEF Taken
<1>4. CASE Taken[Main] = Hole
  <2>1. Taken' = Taken
    BY <1>3, <1>4 DEF Taken
  <2> QED
    BY <2>1, SameStored DEF StoreVars
<1>5. CASE Taken[Main] # Hole
  <2>1. Store!Abandon(Main)
    BY <1>3, <1>5, SameStored DEF Store!Abandon
  <2> QED
    BY <1>2, <2>1 DEF Store!Next
<1> QED
  BY <1>4, <1>5

LEMMA StepStore ==
  ASSUME TypeInv, WholeInv, MainInv, [Next]_vars
  PROVE  [Store!Next]_StoreVars
<1>1. ASSUME db' = db, written' = written, disk' = disk, harm' = harm, saver' = saver
      PROVE  [Store!Next]_StoreVars
  BY <1>1, SameStored DEF StoreVars, Taken
<1>2. CASE Write
  <2>1. Taken' = Taken
    BY <1>2 DEF Write, Taken
  <2>2. Store!Change
    BY <1>2, <2>1, SameStored DEF Write, Store!Change
  <2> QED
    BY <2>2 DEF Store!Next
<1>3. CASE Tick
  <2>1. \A t \in Savers : saver'[t].pc = saver[t].pc /\ saver'[t].snap = saver[t].snap
    BY <1>3 DEF Tick, TypeInv, SaverType, SaverStates
  <2> QED
    BY <1>3, <2>1, SameStored, SameTaken DEF Tick, StoreVars
<1>4. CASE ServerCron
  <2>1. db' = db /\ written' = written /\ disk' = disk /\ harm' = harm
    BY <1>4 DEF ServerCron
  <2>2. CASE bg_saving
    <3>1. ASSUME NEW p \in Zombies, saver' = [saver EXCEPT ![p] = Idle]
          PROVE  [Store!Next]_StoreVars
      <4>1. p \in Savers /\ Idle.pc \notin Working
        BY DEF Zombies, Children, Savers, Idle, Working
      <4> QED
        BY <2>1, <3>1, <4>1, TakenUpdate, EndOfSave
    <3> QED
      BY <1>1, <1>4, <2>1, <2>2, <3>1 DEF ServerCron, ReapChild
  <2>3. CASE ~ bg_saving
    BY <1>1, <1>4, <2>1, <2>3, ForkStore DEF ServerCron
  <2> QED
    BY <2>2, <2>3
<1>5. CASE BgsaveCommand
  <2>1. db' = db /\ written' = written /\ disk' = disk /\ harm' = harm
    BY <1>5 DEF BgsaveCommand
  <2> QED
    BY <1>1, <1>5, <2>1, ForkStore DEF BgsaveCommand
<1>6. CASE SaveCommand \/ ShutDownCommand
  <2>1. Main \in Savers /\ saver[Main].pc = "free"
    BY <1>6 DEF SaveCommand, ShutDownCommand, EnterSaveDB, MainInv, Savers
  <2> QED
    BY <1>6, <2>1, StartOfSave DEF SaveCommand, ShutDownCommand, EnterSaveDB
<1>7. ASSUME NEW s \in Savers, OpenTemp(s) \/ WriteBlock(s) \/ CloseTemp(s)
      PROVE  [Store!Next]_StoreVars
  <2>1. \A t \in Savers : /\ saver'[t].pc \in Working <=> saver[t].pc \in Working
                          /\ saver'[t].snap = saver[t].snap
    <3>1. saver \in [Savers -> SaverStates] /\ saver[s].pc \in Working
      BY <1>7 DEF TypeInv, SaverType, OpenTemp, WriteBlock, CloseTemp, Working
    <3>2. CASE OpenTemp(s)
      <4>1. PICK f : saver' = [saver EXCEPT ![s].pc = "write", ![s].fd = f,
                                            ![s].recent = TRUE]
        BY <3>2 DEF OpenTemp
      <4> QED
        BY <3>1, <4>1 DEF SaverStates, Working
    <3>3. CASE WriteBlock(s)
      BY <3>1, <3>3 DEF WriteBlock, SaverStates
    <3>4. CASE CloseTemp(s)
      BY <3>1, <3>4 DEF CloseTemp, SaverStates, Working
    <3> QED
      BY <1>7, <3>2, <3>3, <3>4
  <2>3. Stored' = Stored
    <3>1. CASE OpenTemp(s)
      <4>1. PICK f \in Temps :
              /\ disk' = [disk EXCEPT ![f] = NewFile]
              /\ harm' = [harm EXCEPT ![f] = IF SameName(s) = {} THEN "none" ELSE "mixed"]
        <5>1. FreshTemp(s) \subseteq Temps
          BY DEF FreshTemp
        <5>2. {saver[t].fd : t \in SameName(s)} \subseteq Temps
          BY DEF SameName
        <5> QED
          BY <3>1, <5>1, <5>2 DEF OpenTemp
      <4>2. f # "dump"
        BY SaverAssumption DEF Savers
      <4>3. disk'["dump"] = disk["dump"] /\ harm'["dump"] = harm["dump"]
        BY <4>1, <4>2 DEF TypeInv, DiskType
      <4> QED
        BY <4>3, SameStored
    <3>2. CASE WriteBlock(s) \/ CloseTemp(s)
      BY <3>2, Flushes, FlushStore
    <3> QED
      BY <1>7, <3>1, <3>2
  <2>4. db' = db /\ written' = written
    BY <1>7 DEF OpenTemp, WriteBlock, CloseTemp, server
  <2> QED
    BY <2>1, <2>3, <2>4, SameTaken DEF StoreVars
<1>8. ASSUME NEW s \in Savers, RenameTemp(s) PROVE [Store!Next]_StoreVars
  BY <1>8, InstallStore
<1>9. ASSUME NEW s \in Savers, FailSave(s) PROVE [Store!Next]_StoreVars
  <2>1. Returns(s, FALSE) /\ disk' = disk /\ harm' = harm
    BY <1>9, SaveReturns
  <2>2. saver'[s].pc \notin Working /\ \A t \in Savers \ {s} : SameSaver(t)
    BY <2>1, AfterReturnIdle DEF Returns
  <2>3. db' = db /\ written' = written
    BY <1>9 DEF FailSave
  <2> QED
    BY <2>1, <2>2, <2>3, EndOfSave
<1>10. ASSUME NEW p \in Pids, ChildKilled(p) PROVE [Store!Next]_StoreVars
  <2> DEFINE k == [Idle EXCEPT !.pc = "killed"]
  <2>1. Idle.pc \notin Working /\ k.pc \notin Working
    BY DEF Idle, Working
  <2>2. /\ p \in Savers /\ disk' = disk /\ harm' = harm /\ db' = db /\ written' = written
        /\ \/ saver' = [saver EXCEPT ![p] = Idle]
           \/ saver' = [saver EXCEPT ![p] = k]
    BY <1>10 DEF ChildKilled, Savers, server
  <2> HIDE DEF k
  <2> QED
    BY <2>1, <2>2, TakenUpdate, EndOfSave
<1>11. CASE InterruptHandler \/ UNCHANGED vars
  BY <1>1, <1>11 DEF InterruptHandler, vars, server
<1>12. CASE Exit \/ ServerKilled
  BY <1>12, LeaveStore DEF Exit, ServerKilled
<1>13. CASE Restart
  BY <1>13, RestartStore
<1> QED
  BY <1>2, <1>3, <1>4, <1>5, <1>6, <1>7, <1>8, <1>9, <1>10, <1>11, <1>12, <1>13
     DEF Next, SaveStep

(* Whatever fails, the processes and files of cutis are an implementation  *)
(* of the atomic snapshot store, which a save may spoil only where faults  *)
(* pass unnoticed (server.c:485-495, 523-663).                             *)
THEOREM PersistenceImplementsStore == Spec => ImplementsStore
<1>1. Init => Store!Init
  <2>1. Init => Stored = 0
    BY DEF Init, Stored, Dump, Missing
  <2>2. Init => \A s \in Savers : saver[s].pc \notin Working
    BY DEF Init, Idle, Working
  <2> QED
    BY <2>1, <2>2 DEF Init, Store!Init, Taken
<1>2. Init => MainInv
  BY DEF Init, MainInv, Idle, Savers
<1>3. TypeInv /\ MainInv /\ [Next]_vars => MainInv'
  BY StepMain
<1>4. TypeInv /\ WholeInv /\ MainInv /\ [Next]_vars
        => [Store!Next]_<<db, written, Stored, Taken>>
  BY StepStore DEF StoreVars
<1>5. Spec => []TypeInv
  BY TypeInvariant
<1>6. Spec => []WholeInv
  BY WholeInvariant
<1> QED
  BY <1>1, <1>2, <1>3, <1>4, <1>5, <1>6, PTL DEF Spec, ImplementsStore, Store!Spec

-----------------------------------------------------------------------------
(* Which version of the dataset is in the dump: what the server has        *)
(* reported as saved is, no save replaces a newer version by an older, and *)
(* SHUTDOWN leaves nothing out.                                            *)


-----------------------------------------------------------------------------
(***************************************************************************)
(* Which version of the dataset the dump was made from: the one that the   *)
(* server has reported as saved, or a later one; no save replaces a newer  *)
(* version by an older, and SHUTDOWN leaves nothing out.                   *)
(*                                                                         *)
(* The misfortunes under which these fail are excluded: of two savers at   *)
(* work, the one with the older snapshot may be the last to rename, and    *)
(* two savers of one file leave a dump of no version.                      *)
(***************************************************************************)
Alone == Faults \cap {"same_second", "overlap", "quick_restart"} = {}

Running == status \in {"serving", "save", "shutdown"}

(* One saver is at work at most.  It has a version between the one in the  *)
(* dump and the newest, and so has the memory of a running server, which   *)
(* has no orphans beside it; but what came out of a damaged dump may be    *)
(* older.                                                                  *)
Order ==
  /\ \A s, t \in Savers :
       saver[s].pc \in Working /\ saver[t].pc \in Working => s = t
  /\ \A s \in Savers : saver[s].pc \in Working =>
       /\ saver[s].snap <= written
       /\ DumpIntact => DumpVersion <= saver[s].snap
  /\ DumpVersion \in Int /\ DumpVersion <= written /\ db <= written
  /\ Running => /\ DumpIntact => DumpVersion <= db
                /\ \A s \in Savers : /\ saver[s].pc \in Working => saver[s].snap <= db
                                     /\ saver[s].pc # "free" => ~ saver[s].orphan
  /\ status \in {"save", "shutdown"} => saver[Main].snap = db

(* A report that rests on a save is no newer than the dump, the memory and *)
(* any snapshot that may yet replace the dump.  What a child saves is what *)
(* was forked, and it is not lost before the child is reaped.              *)
Honest ==
  /\ ~ deceived =>
       /\ reported <= DumpVersion
       /\ Running => reported <= db
       /\ \A s \in Savers : saver[s].pc \in Working => reported <= saver[s].snap
  /\ Running => forked <= db
  /\ \A p \in Children : /\ saver[p].pc \in Working => saver[p].snap = forked
                         /\ saver[p].pc = "succeeded" => forked <= DumpVersion

(* Once it has to stop, a server acknowledges nothing that is not saved,   *)
(* nor does a saver still at work have anything older.                     *)
Stopping ==
  /\ Running => acked <= db
  /\ stop => /\ acked <= DumpVersion
             /\ \A s \in Savers : saver[s].pc \in Working => acked <= saver[s].snap
  /\ status = "off" => stop

Unmixed == \A f \in Temps \cup {"dump"} : harm[f] # "mixed"

Base == TypeInv /\ WholeInv /\ MainInv /\ ChildInv /\ Unmixed

LEMMA StepUnmixed ==
  ASSUME Alone, TypeInv, Unmixed, [Next]_vars PROVE Unmixed'
<1>0. harm \in [Temps \cup {"dump"} -> Harms]
  BY DEF TypeInv, DiskType
<1>1. CASE harm' = harm
  BY <1>1 DEF Unmixed
<1>2. ASSUME NEW s \in Savers, OpenTemp(s) PROVE Unmixed'
  <2>1. SameName(s) = {}
    BY <1>2 DEF OpenTemp, Alone
  <2>2. PICK f : harm' = [harm EXCEPT ![f] = "none"]
    BY <1>2, <2>1 DEF OpenTemp
  <2> QED
    BY <1>0, <2>2 DEF Unmixed
<1>3. ASSUME NEW s \in Savers, WriteBlock(s) \/ CloseTemp(s) PROVE Unmixed'
  <2>1. \A f \in Temps \cup {"dump"} : harm'[f] = "mixed" <=> harm[f] = "mixed"
    BY <1>3, Flushes, FlushElsewhere
  <2> QED
    BY <2>1 DEF Unmixed
<1>4. ASSUME NEW s \in Savers, RenameTemp(s) PROVE Unmixed'
  <2>1. CASE saver[s].fd \in Temps
    <3>1. harm' = [harm EXCEPT !["dump"] = harm[saver[s].fd]]
      BY <1>4, <2>1 DEF RenameTemp
    <3> QED
      BY <1>0, <2>1, <3>1 DEF Unmixed
  <2>2. CASE saver[s].fd \notin Temps
    BY <1>1, <1>4, <2>2, SaveReturns
  <2> QED
    BY <2>1, <2>2
<1>5. ASSUME NEW s \in Savers, FailSave(s) PROVE Unmixed'
  BY <1>1, <1>5 DEF FailSave
<1>6. CASE \/ Write \/ Tick \/ ServerCron \/ BgsaveCommand \/ SaveCommand \/ ShutDownCommand
           \/ \E p \in Pids : ChildKilled(p)
           \/ InterruptHandler \/ Exit \/ ServerKilled \/ Restart \/ UNCHANGED vars
  BY <1>1, <1>6 DEF Write, Tick, ServerCron, BgsaveCommand, SaveCommand, ShutDownCommand,
     EnterSaveDB, ChildKilled, InterruptHandler, Exit, ServerKilled, Restart, vars
<1> QED
  BY <1>2, <1>3, <1>4, <1>5, <1>6 DEF Next, SaveStep

LEMMA BaseAlways ==
  ASSUME Alone PROVE Spec => []Base
<1>1. Init => MainInv /\ ChildInv /\ Unmixed
  BY DEF Init, MainInv, ChildInv, Unmixed, AtMostOneChild, Children, Idle, Savers, Stopped
<1>2. TypeInv /\ MainInv /\ [Next]_vars => MainInv'
  BY StepMain
<1>3. TypeInv /\ ChildInv /\ [Next]_vars => ChildInv'
  BY StepChild
<1>4. TypeInv /\ Unmixed /\ [Next]_vars => Unmixed'
  BY StepUnmixed
<1> QED
  BY <1>1, <1>2, <1>3, <1>4, TypeInvariant, WholeInvariant, PTL DEF Spec, Base

-----------------------------------------------------------------------------
(* What a step does to the version of the dump                             *)

LEMMA Numbers ==
  ASSUME Base
  PROVE  /\ DumpVersion \in Versions /\ Versions \subseteq Nat
         /\ db \in Versions /\ written \in Versions
         /\ forked \in Versions /\ reported \in Versions /\ acked \in Versions
         /\ \A s \in Savers : saver[s] \in SaverStates /\ saver[s].snap \in Versions
<1>1. Versions \subseteq Nat /\ 0 \in Versions
  BY BoundAssumption DEF Versions
<1>2. DumpVersion \in Versions
  <2>1. CASE Dump = NoFile
    BY <1>1, <2>1 DEF DumpVersion
  <2>2. ASSUME NEW v \in Versions, Dump = Whole(v) PROVE DumpVersion \in Versions
    BY <1>1, <2>2, BlocksAssumption DEF DumpVersion, Whole
  <2> QED
    BY <2>1, <2>2 DEF Base, WholeInv, Unmixed, DumpWhole, Missing, Complete
<1> QED
  BY <1>1, <1>2 DEF Base, TypeInv, ServerType, CountType, SaverType, SaverStates

(* The dump is as it was. *)
SameDump == DumpVersion' = DumpVersion /\ (DumpIntact' <=> DumpIntact)

LEMMA SameVersion ==
  ASSUME disk'["dump"] = disk["dump"], harm'["dump"] = harm["dump"] PROVE SameDump
BY DEF SameDump, DumpVersion, DumpIntact, Intact, Missing, Complete, Whole, Dump

LEMMA RenamedVersion ==
  ASSUME Base, NEW s \in Savers, RenameTemp(s), saver[s].fd \in Temps
  PROVE  DumpVersion' = saver[s].snap
<1>1. disk'["dump"] = disk[saver[s].fd]
  BY DEF RenameTemp, Base, TypeInv, DiskType
<1>2. disk[saver[s].fd] = Whole(saver[s].snap)
  BY DEF RenameTemp, Base, WholeInv, FileInv, FileOK, Own, Unmixed
<1>3. disk[saver[s].fd] # NoFile
  BY NotMissing DEF Base, TypeInv, DiskType
<1>4. Whole(saver[s].snap)[1] = saver[s].snap
  BY BlocksAssumption DEF Whole
<1> QED
  BY <1>1, <1>2, <1>3, <1>4 DEF DumpVersion, Dump

(* How SaveDB ends, with its version in the dump or with the dump as it    *)
(* was.                                                                    *)
LEMMA SaveEnds ==
  ASSUME Base, NEW s \in Savers, RenameTemp(s) \/ FailSave(s)
  PROVE  /\ saver[s].pc \in Working
         /\ UNCHANGED <<db, bg_saving, written, forked, acked>>
         /\ \/ Returns(s, TRUE) /\ DumpVersion' = saver[s].snap
            \/ Returns(s, FALSE) /\ SameDump
<1>1. /\ saver[s].pc \in Working
      /\ UNCHANGED <<db, bg_saving, written, forked, acked>>
  BY DEF RenameTemp, FailSave, Working
<1>2. TypeInv
  BY DEF Base
<1>3. CASE RenameTemp(s) /\ saver[s].fd \in Temps
  <2>1. Returns(s, TRUE)
    BY <1>2, <1>3, SaveReturns
  <2>2. DumpVersion' = saver[s].snap
    BY <1>3, RenamedVersion
  <2> QED
    BY <1>1, <2>1, <2>2
<1>4. CASE RenameTemp(s) /\ saver[s].fd \notin Temps
  <2>1. Returns(s, FALSE) /\ disk' = disk /\ harm' = harm
    BY <1>2, <1>4, SaveReturns
  <2>2. SameDump
    BY <2>1, SameVersion
  <2> QED
    BY <1>1, <2>1, <2>2
<1>5. CASE FailSave(s)
  <2>1. Returns(s, FALSE) /\ disk' = disk /\ harm' = harm
    BY <1>2, <1>5, SaveReturns
  <2>2. SameDump
    BY <2>1, SameVersion
  <2> QED
    BY <1>1, <2>1, <2>2
<1> QED
  BY <1>1, <1>3, <1>4, <1>5

(* A saver that opens, writes or closes its temporary file.                *)
LEMMA FileStep ==
  ASSUME Base, NEW s \in Savers, OpenTemp(s) \/ WriteBlock(s) \/ CloseTemp(s)
  PROVE  /\ SameDump
         /\ \A t \in Savers : /\ saver'[t].pc \in Working <=> saver[t].pc \in Working
                              /\ saver[t].pc \notin Working => saver'[t].pc = saver[t].pc
                              /\ saver'[t].snap = saver[t].snap
                              /\ saver'[t].orphan = saver[t].orphan
         /\ UNCHANGED <<server, written, runs, history>>
<1>0. saver \in [Savers -> SaverStates] /\ WholeInv /\ TypeInv
  BY DEF Base, TypeInv, SaverType
<1>1. CASE OpenTemp(s)
  <2>1. PICK f \in Temps :
          /\ disk' = [disk EXCEPT ![f] = NewFile]
          /\ harm' = [harm EXCEPT ![f] = IF SameName(s) = {} THEN "none" ELSE "mixed"]
          /\ saver' = [saver EXCEPT ![s].pc = "write", ![s].fd = f, ![s].recent = TRUE]
    <3>1. FreshTemp(s) \subseteq Temps
      BY DEF FreshTemp
    <3>2. {saver[t].fd : t \in SameName(s)} \subseteq Temps
      BY DEF SameName
    <3> QED
      BY <1>1, <3>1, <3>2 DEF OpenTemp
  <2>2. f # "dump"
    BY SaverAssumption DEF Savers
  <2>3. disk'["dump"] = disk["dump"] /\ harm'["dump"] = harm["dump"]
    BY <1>0, <2>1, <2>2 DEF TypeInv, DiskType
  <2>4. \A t \in Savers \ {s} : saver'[t] = saver[t]
    BY <1>0, <2>1
  <2>5. saver'[s].pc = "write" /\ saver'[s].snap = saver[s].snap /\ saver'[s].orphan = saver[s].orphan
    BY <1>0, <2>1 DEF SaverStates
  <2> QED
    BY <1>1, <2>3, <2>4, <2>5, SameVersion DEF OpenTemp, Working
<1>2. CASE WriteBlock(s) \/ CloseTemp(s)
  <2>1. FlushedBy(s) /\ saver[s].pc = "write"
    BY <1>0, <1>2, Flushes DEF FlushedBy
  <2>2. saver[s].fd # "dump"
    BY <1>0 DEF WholeInv, FileInv, FileOK, Base, Unmixed
  <2>3. disk'["dump"] = disk["dump"] /\ harm'["dump"] = harm["dump"]
    BY <1>0, <2>1, <2>2, FlushElsewhere
  <2>4. \A t \in Savers \ {s} : saver'[t] = saver[t]
    BY <1>0, <1>2 DEF WriteBlock, CloseTemp
  <2>5. /\ saver'[s].pc \in {"write", "rename"} /\ saver'[s].snap = saver[s].snap
        /\ saver'[s].orphan = saver[s].orphan
    BY <1>0, <1>2 DEF WriteBlock, CloseTemp, SaverStates
  <2> QED
    BY <1>2, <2>1, <2>3, <2>4, <2>5, SameVersion DEF WriteBlock, CloseTemp, Working
<1> QED
  BY <1>1, <1>2

(* A new run of the server has the version of the dump, unless the dump is *)
(* damaged.                                                                *)
LEMMA RestartVersion ==
  ASSUME Base, Restart
  PROVE  /\ SameDump /\ written' \in {written, written + 1}
         /\ DumpIntact => /\ db' = DumpVersion /\ written' = written
                          /\ reported' = reported
         /\ ~ DumpIntact => db' \in {0, written'} /\ reported' = 0
<1>1. SameDump
  BY SameVersion DEF Restart
<1>2. LoadDB /\ reported' = IF DumpIntact THEN reported ELSE 0
  BY DEF Restart, DumpIntact
<1>3. CASE Missing(Dump)
  <2>1. DumpVersion = 0 /\ DumpIntact
    BY <1>3 DEF DumpVersion, Missing, DumpIntact
  <2>2. ~ Intact
    <3>1. ASSUME NEW v \in Versions PROVE Dump # Whole(v)
      <4>1. Whole(v) \in Contents
        BY DEF Whole, Contents
      <4> QED
        BY <1>3, <4>1, NotMissing DEF Missing
    <3> QED
      BY <3>1 DEF Intact, Complete
  <2> QED
    BY <1>1, <1>2, <1>3, <2>1, <2>2 DEF LoadDB
<1>4. CASE ~ Missing(Dump) /\ Intact
  <2>1. DumpVersion = Dump[1] /\ DumpIntact
    BY <1>4 DEF DumpVersion, Missing, DumpIntact
  <2> QED
    BY <1>1, <1>2, <1>4, <2>1 DEF LoadDB
<1>5. CASE ~ Missing(Dump) /\ ~ Intact
  <2>1. ~ DumpIntact
    BY <1>5 DEF DumpIntact
  <2> QED
    BY <1>1, <1>2, <1>5, <2>1 DEF LoadDB
<1> QED
  BY <1>3, <1>4, <1>5

-----------------------------------------------------------------------------
(* The order of versions                                                   *)

(* Savers go on, or end; none begins.                                      *)
LEMMA OrderKept ==
  ASSUME Order, SameDump, written' = written, db' = db,
         Running' => Running,
         status' \in {"save", "shutdown"} =>
           status \in {"save", "shutdown"} /\ saver'[Main].snap = saver[Main].snap,
         \A t \in Savers :
           \/ /\ saver'[t].pc \in Working => saver[t].pc \in Working
              /\ saver'[t].pc # "free" => saver[t].pc # "free"
              /\ saver'[t].snap = saver[t].snap
              /\ Running' => saver'[t].orphan = saver[t].orphan
           \/ saver'[t].pc \notin Working /\ ~ saver'[t].orphan
  PROVE  Order'
<1> USE DEF Order, SameDump
<1>1. \A s \in Savers : saver'[s].pc \in Working =>
        saver[s].pc \in Working /\ saver'[s].snap = saver[s].snap
  OBVIOUS
<1>2. \A s, t \in Savers :
        saver'[s].pc \in Working /\ saver'[t].pc \in Working => s = t
  BY <1>1
<1>3. \A s \in Savers : saver'[s].pc \in Working =>
        /\ saver'[s].snap <= written'
        /\ DumpIntact' => DumpVersion' <= saver'[s].snap
  BY <1>1
<1>4. Running' => \A s \in Savers :
        /\ saver'[s].pc \in Working => saver'[s].snap <= db'
        /\ saver'[s].pc # "free" => ~ saver'[s].orphan
  BY <1>1
<1> QED
  BY <1>2, <1>3, <1>4

LEMMA OrderEnd ==
  ASSUME Base, Order, NEW s \in Savers, RenameTemp(s) \/ FailSave(s)
  PROVE  Order'
<1>1. /\ saver[s].pc \in Working /\ db' = db /\ written' = written
      /\ \/ Returns(s, TRUE) /\ DumpVersion' = saver[s].snap
         \/ Returns(s, FALSE) /\ SameDump
  BY SaveEnds
<1>2. PICK ok : Returns(s, ok)
  BY <1>1
<1>3. /\ saver'[s].pc \notin Working /\ ~ saver'[s].orphan
      /\ \A t \in Savers \ {s} : SameSaver(t)
  BY <1>2, AfterReturnIdle DEF Returns
<1>4. Main \in Savers
  BY DEF Savers
<1>5. (s = Main => Running) /\ (s # Main => status' = status)
      /\ (s = Main => status' = "serving")
  BY <1>1, <1>2 DEF Base, MainInv, Running, Working, Returns, ServerReturns
<1>6. Running' => Running
  BY <1>5 DEF Running
<1>7. status' \in {"save", "shutdown"} =>
        status \in {"save", "shutdown"} /\ saver'[Main].snap = saver[Main].snap
  BY <1>3, <1>4, <1>5 DEF SameSaver
<1>8. CASE SameDump
  BY <1>1, <1>3, <1>6, <1>7, <1>8, OrderKept DEF SameSaver
<1>9. CASE DumpVersion' = saver[s].snap
  <2>1. \A t \in Savers : saver'[t].pc \notin Working
    BY <1>1, <1>3 DEF Order, SameSaver
  <2>2. saver[s].snap \in Int /\ saver[s].snap <= written
    BY <1>1, Numbers DEF Order
  <2>3. Running => saver[s].snap <= db
    BY <1>1 DEF Order
  <2>4. Running' => \A t \in Savers : saver'[t].pc # "free" => ~ saver'[t].orphan
    BY <1>3, <1>6 DEF Order, SameSaver
  <2>5. status' \in {"save", "shutdown"} => saver'[Main].snap = db'
    BY <1>1, <1>7 DEF Order
  <2> QED
    BY <1>1, <1>6, <1>9, <2>1, <2>2, <2>3, <2>4, <2>5 DEF Order
<1> QED
  BY <1>1, <1>8, <1>9

(* Of all savers but s, none is at work: s begins with what is in memory.  *)
LEMMA OrderBegin ==
  ASSUME Base, Order, Running, NEW s \in Savers,
         \A t \in Savers \ {s} : saver[t].pc \notin Working,
         saver' = [saver EXCEPT ![s] = [Idle EXCEPT !.pc = "open", !.snap = db,
                                                   !.draw = draws]],
         status' \in {"save", "shutdown"} => s = Main,
         SameDump, written' = written, db' = db
  PROVE  /\ Order' /\ saver'[s].pc = "open" /\ saver'[s].snap = db /\ ~ saver'[s].orphan
         /\ \A t \in Savers \ {s} : saver'[t] = saver[t]
<1> DEFINE r == [Idle EXCEPT !.pc = "open", !.snap = db, !.draw = draws]
<1>1. r.pc = "open" /\ r.snap = db /\ ~ r.orphan
  BY DEF Idle
<1> HIDE DEF r
<1>2. saver'[s] = r /\ \A t \in Savers \ {s} : saver'[t] = saver[t]
  <2>1. saver' = [saver EXCEPT ![s] = r]
    BY DEF r
  <2> QED
    BY <2>1 DEF Base, TypeInv, SaverType
<1>3. db \in Int
  BY Numbers
<1>4. \A t, u \in Savers : saver'[t].pc \in Working /\ saver'[u].pc \in Working => t = u
  BY <1>2
<1>5. \A t \in Savers : saver'[t].pc \in Working => saver'[t].snap = db
  BY <1>1, <1>2
<1>6. \A t \in Savers : saver'[t].pc # "free" => ~ saver'[t].orphan
  BY <1>1, <1>2 DEF Order
<1>7. status' \in {"save", "shutdown"} => saver'[Main].snap = db
  BY <1>1, <1>2
<1>8. Order'
  BY <1>3, <1>4, <1>5, <1>6, <1>7 DEF Order, SameDump
<1> QED
  BY <1>1, <1>2, <1>8

(* Between commands, every saver is a child of the server.                 *)
LEMMA AtRest ==
  ASSUME Base, Order, status = "serving"
  PROVE  /\ Running
         /\ \A t \in Savers : saver[t].pc # "free" => t \in Children
         /\ ~ bg_saving => Children = {}
<1>1. saver[Main].pc = "free"
  BY DEF Base, MainInv
<1> QED
  BY <1>1 DEF Children, Order, Running, Savers, Base, ChildInv, AtMostOneChild

LEMMA Forked ==
  ASSUME SaveDBBackground, ~ bg_saving
  PROVE  /\ bg_saving' = TRUE /\ forked' = db
         /\ \/ saver' = saver
            \/ \E p \in Pids :
                 /\ saver[p].pc = "free"
                 /\ saver' = [saver EXCEPT ![p] = [Idle EXCEPT !.pc = "open", !.snap = db,
                                                              !.draw = draws]]
BY DEF SaveDBBackground, Fork, Strikes

LEMMA CronCases ==
  ASSUME ServerCron \/ BgsaveCommand
  PROVE  /\ status = "serving" /\ SameDump
         /\ UNCHANGED <<status, stop, db, written, acked>>
         /\ \/ saver' = saver /\ UNCHANGED <<bg_saving, forked, reported, deceived>>
            \/ ~ bg_saving /\ SaveDBBackground /\ UNCHANGED <<reported, deceived>>
            \/ bg_saving /\ ReapChild /\ forked' = forked
<1>1. disk' = disk /\ harm' = harm
  BY DEF ServerCron, BgsaveCommand
<1>2. SameDump
  BY <1>1, SameVersion
<1> QED
  BY <1>2 DEF ServerCron, BgsaveCommand

LEMMA CronOrder ==
  ASSUME Base, Order, ServerCron \/ BgsaveCommand PROVE Order'
<1>1. /\ status = "serving" /\ status' = "serving" /\ Running /\ Running' /\ SameDump
      /\ db' = db /\ written' = written
  BY CronCases DEF Running
<1>2. CASE saver' = saver
  BY <1>1, <1>2, OrderKept
<1>3. CASE ~ bg_saving /\ SaveDBBackground /\ saver' # saver
  <2>1. PICK p \in Pids :
          saver' = [saver EXCEPT ![p] = [Idle EXCEPT !.pc = "open", !.snap = db, !.draw = draws]]
    BY <1>3, Forked
  <2>2. \A t \in Savers \ {p} : saver[t].pc \notin Working
    BY <1>1, <1>3, AtRest DEF Working
  <2> QED
    BY <1>1, <2>1, <2>2, OrderBegin DEF Savers
<1>4. CASE ReapChild
  <2>1. CASE saver' = saver
    BY <1>2, <2>1
  <2>2. ASSUME NEW p \in Zombies, saver' = [saver EXCEPT ![p] = Idle] PROVE Order'
    <3>1. \A t \in Savers : saver'[t] = saver[t] \/ saver'[t] = Idle
      BY <2>2 DEF Base, TypeInv, SaverType
    <3>2. Idle.pc \notin Working /\ ~ Idle.orphan
      BY DEF Idle, Working
    <3> QED
      BY <1>1, <3>1, <3>2, OrderKept
  <2> QED
    BY <1>4, <2>1, <2>2 DEF ReapChild
<1> QED
  BY <1>2, <1>3, <1>4, CronCases

(* SAVE or SHUTDOWN begins: nobody else is at work.                        *)
LEMMA EnterOrder ==
  ASSUME Alone, Base, Order, SaveCommand \/ ShutDownCommand
  PROVE  /\ Order' /\ saver'[Main].snap = db /\ SameDump
         /\ status = "serving" /\ status' \in {"save", "shutdown"} /\ Running
         /\ UNCHANGED <<stop, db, bg_saving, written, history>>
         /\ \A t \in Savers \ {Main} : saver[t].pc \notin Working /\ saver'[t] = saver[t]
<1>1. /\ status = "serving" /\ Running /\ status' \in {"save", "shutdown"}
      /\ \A p \in Pids : saver[p].pc \notin Working
      /\ saver' = [saver EXCEPT ![Main] = [Idle EXCEPT !.pc = "open", !.snap = db, !.draw = draws]]
      /\ UNCHANGED <<stop, db, bg_saving, written, history>> /\ disk' = disk /\ harm' = harm
  BY DEF SaveCommand, ShutDownCommand, EnterSaveDB, Alone, Running
<1>2. Main \in Savers /\ \A t \in Savers \ {Main} : saver[t].pc \notin Working
  BY <1>1 DEF Savers
<1>3. SameDump
  BY <1>1, SameVersion
<1>4. /\ Order' /\ saver'[Main].snap = db
      /\ \A t \in Savers \ {Main} : saver'[t] = saver[t]
  BY <1>1, <1>2, <1>3, OrderBegin
<1> QED
  BY <1>1, <1>2, <1>3, <1>4

(* The server dies, or stops: children turn orphans.                       *)
LEMMA Leaves ==
  ASSUME Base, Exit \/ ServerKilled
  PROVE  /\ ~ Running' /\ SameDump /\ UNCHANGED <<stop, db, written, history>>
         /\ status' \notin {"save", "shutdown"} /\ Children' = {}
         /\ \A t \in Savers : \/ saver[t].pc \in Working /\ saver'[t].snap = saver[t].snap
                                 /\ saver'[t].pc = saver[t].pc
                              \/ saver'[t] = Idle
<1>0. saver \in [Savers -> SaverStates]
  BY DEF Base, TypeInv, SaverType
<1>1. /\ ~ Running' /\ UNCHANGED <<stop, db, written, history>> /\ LeaveOrphans
      /\ status' \notin {"save", "shutdown"} /\ disk' = disk /\ harm' = harm
  BY DEF Exit, ServerKilled, Running
<1>2. SameDump
  BY <1>1, SameVersion
<1>3. ASSUME NEW t \in Savers
      PROVE  \/ /\ saver[t].pc \in Working /\ saver'[t].snap = saver[t].snap
                /\ saver'[t].pc = saver[t].pc /\ saver'[t].orphan
             \/ saver'[t] = Idle
  BY <1>0, <1>1, <1>3 DEF LeaveOrphans, SaverStates
<1>4. Idle.pc = "free"
  BY DEF Idle
<1>5. Children' = {}
  BY <1>3, <1>4 DEF Children, Savers
<1> QED
  BY <1>1, <1>2, <1>3, <1>5

(* When the server starts again, nobody is at work.                        *)
LEMMA RestartAlone ==
  ASSUME Alone, Base, Restart
  PROVE  /\ \A t \in Savers : saver'[t].pc = "free"
         /\ Children' = {}
         /\ status' \in {"serving", "refused"}
<1>1. saver \in [Savers -> SaverStates]
  BY DEF Base, TypeInv, SaverType
<1>2. \A t \in Savers : saver[t].pc = "free"
  BY DEF Restart, Alone, Base, MainInv, Savers
<1>3. \A t \in Savers : saver'[t].pc = "free"
  BY <1>1, <1>2 DEF Restart, SaverStates
<1> QED
  BY <1>3 DEF Children, Savers, Restart, LoadDB

LEMMA StepOrder ==
  ASSUME Alone, Base, Order, [Next]_vars PROVE Order'
<1>0. saver \in [Savers -> SaverStates] /\ Main \in Savers
  BY DEF Base, TypeInv, SaverType, Savers
<1>1. CASE Write
  <2>1. /\ written' = written + 1 /\ db' = written + 1 /\ saver' = saver
        /\ status' = "serving" /\ SameDump /\ Running
    BY <1>1, SameVersion DEF Write, Running
  <2>2. written \in Nat /\ db \in Nat /\ \A s \in Savers : saver[s].snap \in Nat
    BY Numbers
  <2>3. \A n \in Int : n <= written => n <= written + 1
    BY <2>2
  <2> QED
    BY <2>1, <2>2, <2>3 DEF Order, Running, SameDump
<1>2. CASE Tick
  <2>1. \A t \in Savers : /\ saver'[t].pc = saver[t].pc /\ saver'[t].snap = saver[t].snap
                          /\ saver'[t].orphan = saver[t].orphan
    BY <1>0, <1>2 DEF Tick, SaverStates
  <2>2. SameDump /\ written' = written /\ db' = db /\ status' = status
    BY <1>2, SameVersion DEF Tick
  <2> QED
    BY <1>0, <2>1, <2>2, OrderKept DEF Running
<1>3. CASE ServerCron \/ BgsaveCommand
  BY <1>3, CronOrder
<1>4. CASE SaveCommand \/ ShutDownCommand
  BY <1>4, EnterOrder
<1>5. ASSUME NEW s \in Savers, OpenTemp(s) \/ WriteBlock(s) \/ CloseTemp(s) PROVE Order'
  <2>1. /\ SameDump /\ UNCHANGED <<server, written>>
        /\ \A t \in Savers : /\ saver'[t].pc \in Working <=> saver[t].pc \in Working
                             /\ saver[t].pc \notin Working => saver'[t].pc = saver[t].pc
                             /\ saver'[t].snap = saver[t].snap
                             /\ saver'[t].orphan = saver[t].orphan
    BY <1>5, FileStep
  <2>2. \A t \in Savers : saver'[t].pc # "free" => saver[t].pc # "free"
    BY <2>1 DEF Working
  <2>3. status' = status /\ db' = db
    BY <2>1 DEF server
  <2> QED
    BY <1>0, <2>1, <2>2, <2>3, OrderKept DEF Running
<1>6. ASSUME NEW s \in Savers, RenameTemp(s) \/ FailSave(s) PROVE Order'
  BY <1>6, OrderEnd
<1>7. ASSUME NEW p \in Pids, ChildKilled(p) PROVE Order'
  <2>1. saver'[p].pc \notin Working /\ ~ saver'[p].orphan /\ p \in Savers /\ p # Main
    BY <1>0, <1>7, SaverAssumption DEF ChildKilled, Working, Idle, Savers
  <2>2. \A t \in Savers \ {p} : saver'[t] = saver[t]
    BY <1>0, <1>7 DEF ChildKilled
  <2>3. SameDump /\ written' = written /\ db' = db /\ status' = status
    BY <1>7, SameVersion DEF ChildKilled, server
  <2> QED
    BY <1>0, <2>1, <2>2, <2>3, OrderKept DEF Running
<1>8. CASE InterruptHandler \/ UNCHANGED vars
  <2>1. SameDump /\ saver' = saver /\ db' = db /\ written' = written /\ status' = status
    BY <1>8, SameVersion DEF InterruptHandler, vars, server
  <2> QED
    BY <2>1, OrderKept DEF Running
<1>9. CASE Exit \/ ServerKilled
  <2>1. Idle.pc \notin Working /\ ~ Idle.orphan /\ "free" \notin Working
    BY DEF Idle, Working
  <2> QED
    BY <1>9, <2>1, Leaves, OrderKept
<1>10. CASE Restart
  <2>1. \A t \in Savers : saver'[t].pc \notin Working /\ saver'[t].pc = "free"
    BY <1>10, RestartAlone DEF Working
  <2>2. status' \notin {"save", "shutdown"}
    BY <1>10, RestartAlone
  <2>3. DumpVersion \in Nat /\ written \in Nat /\ DumpVersion <= written
    BY Numbers DEF Order
  <2>4. /\ DumpVersion' = DumpVersion /\ (DumpIntact' <=> DumpIntact)
        /\ written' \in {written, written + 1}
        /\ DumpIntact => db' = DumpVersion
        /\ ~ DumpIntact => db' \in {0, written'}
    BY <1>10, RestartVersion DEF SameDump
  <2>5. DumpVersion' \in Int /\ DumpVersion' <= written' /\ db' <= written'
    BY <2>3, <2>4
  <2>6. DumpIntact' => DumpVersion' <= db'
    BY <2>3, <2>4
  <2> QED
    BY <2>1, <2>2, <2>5, <2>6 DEF Order
<1> QED
  BY <1>1, <1>2, <1>3, <1>4, <1>5, <1>6, <1>7, <1>8, <1>9, <1>10 DEF Next, SaveStep

LEMMA Monotone ==
  ASSUME Alone, Base, Order, [Next]_vars
  PROVE  DumpIntact => DumpVersion' >= DumpVersion
<1>0. DumpVersion \in Int
  BY DEF Order
<1>1. ASSUME SameDump PROVE DumpVersion' >= DumpVersion
  BY <1>0, <1>1 DEF SameDump
<1>2. ASSUME NEW s \in Savers, RenameTemp(s) \/ FailSave(s), DumpIntact
      PROVE  DumpVersion' >= DumpVersion
  <2>1. saver[s].pc \in Working /\ (DumpVersion' = saver[s].snap \/ SameDump)
    BY <1>2, SaveEnds
  <2>2. DumpVersion <= saver[s].snap /\ saver[s].snap \in Int
    BY <1>2, <2>1, Numbers DEF Order
  <2> QED
    BY <1>0, <1>1, <2>1, <2>2
<1>3. CASE \/ Write \/ Tick \/ ServerCron \/ BgsaveCommand \/ SaveCommand \/ ShutDownCommand
           \/ \E p \in Pids : ChildKilled(p)
           \/ InterruptHandler \/ Exit \/ ServerKilled \/ Restart \/ UNCHANGED vars
  <2>1. disk' = disk /\ harm' = harm
    BY <1>3 DEF Write, Tick, ServerCron, BgsaveCommand, SaveCommand, ShutDownCommand,
       EnterSaveDB, ChildKilled, InterruptHandler, Exit, ServerKilled, Restart, vars
  <2> QED
    BY <2>1, <1>1, SameVersion
<1>4. ASSUME NEW s \in Savers, OpenTemp(s) \/ WriteBlock(s) \/ CloseTemp(s)
      PROVE  DumpVersion' >= DumpVersion
  BY <1>1, <1>4, FileStep
<1> QED
  BY <1>2, <1>3, <1>4 DEF Next, SaveStep

-----------------------------------------------------------------------------
(* What is reported as saved                                               *)

(* Nothing is reported, and the savers go on, fail or die.                 *)
LEMMA HonestKept ==
  ASSUME Base, Honest, DumpVersion' = DumpVersion, db' >= db,
         UNCHANGED <<reported, deceived, forked>>, Running' => Running,
         \A t \in Savers : saver'[t].pc \in Working =>
           saver[t].pc \in Working /\ saver'[t].snap = saver[t].snap,
         \A p \in Children' :
           /\ p \in Children
           /\ saver'[p].pc = "succeeded" => saver[p].pc = "succeeded",
         db' \in Int
  PROVE  Honest'
<1>1. /\ DumpVersion \in Int /\ reported \in Int /\ forked \in Int /\ db \in Int
      /\ \A n \in Int : n <= db => n <= db'
  BY Numbers
<1>2. ~ deceived' =>
       /\ reported' <= DumpVersion'
       /\ Running' => reported' <= db'
       /\ \A s \in Savers : saver'[s].pc \in Working => reported' <= saver'[s].snap
  BY <1>1 DEF Honest
<1>3. Running' => forked' <= db'
  BY <1>1 DEF Honest
<1>4. ASSUME NEW p \in Children'
      PROVE  /\ saver'[p].pc \in Working => saver'[p].snap = forked'
             /\ saver'[p].pc = "succeeded" => forked' <= DumpVersion'
  <2>1. p \in Children /\ p \in Savers
    BY <1>4 DEF Children, Savers
  <2> QED
    BY <1>4, <2>1 DEF Honest
<1> QED
  BY <1>2, <1>3, <1>4 DEF Honest

(* The server takes a version for saved, at a time when nobody is at work. *)
LEMMA HonestRecorded ==
  ASSUME Base, NEW v \in Int, NEW done \in BOOLEAN, RecordSaved(v, done),
         DumpVersion' \in Int, db' \in Int,
         done => /\ v <= DumpVersion' /\ v <= db'
                 /\ ~ deceived => reported <= DumpVersion' /\ reported <= db',
         \A t \in Savers : saver'[t].pc \notin Working
  PROVE  ~ deceived' =>
           /\ reported' <= DumpVersion'
           /\ Running' => reported' <= db'
           /\ \A s \in Savers : saver'[s].pc \in Working => reported' <= saver'[s].snap
<1> SUFFICES ASSUME ~ deceived' PROVE reported' <= DumpVersion' /\ reported' <= db'
  OBVIOUS
<1>1. done /\ (deceived => reported <= v) /\ reported' = Newer(reported, v)
  <2>1. reported \in Int
    BY Numbers
  <2>2. reported' = Newer(reported, v) /\ deceived' = (~ done \/ (deceived /\ v < reported))
    BY DEF RecordSaved
  <2>3. done /\ ~ (deceived /\ v < reported)
    BY ONLY <2>2, ~ deceived', done \in BOOLEAN
  <2>4. deceived => reported <= v
    <3>1. ~ (v < reported) => reported <= v
      BY <2>1
    <3> QED
      BY <2>3, <3>1
  <2> QED
    BY <2>2, <2>3, <2>4
<1>2. CASE deceived
  BY <1>1, <1>2, Numbers DEF Newer
<1>3. CASE ~ deceived
  BY <1>1, <1>3 DEF Newer
<1> QED
  BY <1>2, <1>3

LEMMA CronHonest ==
  ASSUME Base, Order, Honest, ServerCron \/ BgsaveCommand PROVE Honest'
<1>0. /\ status = "serving" /\ Running /\ Running' /\ DumpVersion' = DumpVersion /\ db' = db
      /\ DumpVersion \in Int /\ reported \in Int /\ forked \in Int /\ db \in Int
      /\ saver \in [Savers -> SaverStates] /\ db' >= db
      /\ \A t \in Savers : saver[t].pc # "free" => t \in Children
  <2>1. db \in Int
    BY Numbers
  <2> QED
    BY <2>1, CronCases, AtRest, Numbers DEF Running, Base, TypeInv, SaverType, SameDump
<1>1. CASE saver' = saver /\ UNCHANGED <<bg_saving, forked, reported, deceived>>
  <2>1. Children' = Children
    BY <1>1 DEF Children
  <2> QED
    BY <1>0, <1>1, <2>1, HonestKept
<1>2. CASE ~ bg_saving /\ SaveDBBackground /\ UNCHANGED <<reported, deceived>>
  <2>0. Children = {} /\ \A t \in Savers : saver[t].pc = "free"
    BY <1>0, <1>2, AtRest
  <2>1. forked' = db /\ (~ deceived => reported <= db /\ reported <= DumpVersion)
    BY <1>0, <1>2, Forked DEF Honest
  <2>2. CASE saver' = saver
    <3>1. Children' = {}
      BY <2>0, <2>2 DEF Children
    <3>2. \A t \in Savers : saver'[t].pc \notin Working
      BY <2>0, <2>2 DEF Working
    <3> QED
      BY <1>0, <1>2, <2>1, <3>1, <3>2 DEF Honest
  <2>3. CASE saver' # saver
    <3>1. PICK p \in Pids :
             saver' = [saver EXCEPT ![p] = [Idle EXCEPT !.pc = "open", !.snap = db, !.draw = draws]]
      BY <1>2, <2>3, Forked
    <3>2. p \in Savers /\ SameDump /\ written' = written /\ status' = status
      BY CronCases DEF Savers
    <3>3. \A t \in Savers \ {p} : saver[t].pc \notin Working
      BY <2>0 DEF Working
    <3>4. /\ saver'[p].pc = "open" /\ saver'[p].snap = db
          /\ \A t \in Savers \ {p} : saver'[t] = saver[t]
      BY <1>0, <3>1, <3>2, <3>3, OrderBegin
    <3>5. \A t \in Savers : saver'[t].pc \in Working => saver'[t].snap = db
      BY <3>3, <3>4
    <3>6. Children' \subseteq {p}
      BY <2>0, <3>4 DEF Children, Savers
    <3>7. \A q \in Children' : saver'[q].pc = "open" /\ saver'[q].snap = db
      BY <3>4, <3>6
    <3> QED
      BY <1>0, <1>2, <2>1, <3>5, <3>7 DEF Honest
  <2> QED
    BY <2>2, <2>3
<1>3. CASE bg_saving /\ ReapChild /\ forked' = forked
  <2>1. CASE saver' = saver /\ UNCHANGED <<bg_saving, reported, deceived>>
    BY <1>1, <1>3, <2>1
  <2>2. ASSUME NEW success, NEW done \in BOOLEAN, Reaped(success, done),
               \A t \in Savers : saver'[t].pc = "free",
               done => forked <= DumpVersion
        PROVE  Honest'
    <3>1. Children' = {} /\ \A t \in Savers : saver'[t].pc \notin Working
      BY <2>2 DEF Children, Savers, Working
    <3>2. CASE success
      <4>1. RecordSaved(forked, done)
        BY <2>2, <3>2 DEF Reaped
      <4>2. forked <= db /\ (~ deceived => reported <= DumpVersion /\ reported <= db)
        BY <1>0 DEF Honest
      <4>3. ~ deceived' =>
               /\ reported' <= DumpVersion'
               /\ Running' => reported' <= db'
               /\ \A s \in Savers : saver'[s].pc \in Working => reported' <= saver'[s].snap
        <5>1. done => /\ forked <= DumpVersion' /\ forked <= db'
                      /\ ~ deceived => reported <= DumpVersion' /\ reported <= db'
          BY <1>0, <2>2, <4>2
        <5>2. DumpVersion' \in Int /\ db' \in Int
          BY <1>0
        <5> QED
          BY ONLY Base, <1>0, <2>2, <3>1, <4>1, <5>1, <5>2, HonestRecorded
      <4> QED
        BY <1>0, <1>3, <3>1, <4>2, <4>3 DEF Honest
    <3>3. CASE ~ success
      <4>1. UNCHANGED <<reported, deceived>>
        BY <2>2, <3>3 DEF Reaped
      <4> QED
        BY <1>0, <1>3, <3>1, <4>1, HonestKept
    <3> QED
      BY <3>2, <3>3
  <2>3. ASSUME NEW p \in Zombies, saver' = [saver EXCEPT ![p] = Idle],
               Reaped(saver[p].pc # "failed", saver[p].pc = "succeeded")
        PROVE  Honest'
    <3>1. p \in Children /\ p \in Savers
      BY DEF Zombies, Children, Savers
    <3>2. \A q \in Children : q = p
      BY <3>1 DEF Base, ChildInv, AtMostOneChild
    <3>3. \A t \in Savers : saver'[t].pc = "free"
      BY <1>0, <2>3, <3>1, <3>2 DEF Idle
    <3>4. saver[p].pc = "succeeded" => forked <= DumpVersion
      BY <3>1 DEF Honest
    <3>5. (saver[p].pc = "succeeded") \in BOOLEAN
      OBVIOUS
    <3> QED
      BY <2>2, <2>3, <3>3, <3>4, <3>5
  <2>4. ASSUME Children = {}, saver' = saver, NEW success \in BOOLEAN, Reaped(success, FALSE)
        PROVE  Honest'
    <3>1. \A t \in Savers : saver'[t].pc = "free"
      BY <1>0, <2>4
    <3> QED
      BY <2>2, <2>4, <3>1
  <2> QED
    BY <1>3, <2>1, <2>3, <2>4 DEF ReapChild
<1> QED
  BY <1>1, <1>2, <1>3, CronCases

LEMMA ReturnHonest ==
  ASSUME Base, Order, Honest, NEW s \in Savers, RenameTemp(s) \/ FailSave(s)
  PROVE  Honest'
<1>1. /\ saver[s].pc \in Working
      /\ UNCHANGED <<db, bg_saving, written, forked>>
      /\ \/ Returns(s, TRUE) /\ DumpVersion' = saver[s].snap
         \/ Returns(s, FALSE) /\ SameDump
  BY SaveEnds
<1>2. PICK ok : Returns(s, ok)
  BY <1>1
<1>3. /\ saver'[s].pc \notin Working /\ ~ saver'[s].orphan
      /\ \A t \in Savers \ {s} : SameSaver(t)
  BY <1>2, AfterReturnIdle DEF Returns
<1>4. /\ DumpVersion \in Int /\ reported \in Int /\ forked \in Int /\ db \in Int
      /\ saver[s].snap \in Int /\ db' \in Int /\ db' >= db
  <2>1. db \in Int
    BY Numbers
  <2> QED
    BY <1>1, <2>1, Numbers
<1>5. (s = Main => Running /\ saver[s].snap = db) /\ (s # Main => status' = status)
  BY <1>1, <1>2 DEF Base, MainInv, Running, Working, Returns, ServerReturns, Order
<1>6. Running' => Running
  BY <1>5 DEF Running
<1>7. \A p \in Children' : p \in Children
  <2>1. TypeInv
    BY DEF Base
  <2> QED
    BY <2>1, SaveStepChildren DEF SaveStep
<1>8. \A p \in Children' \ {s} : saver'[p].pc = saver[p].pc /\ saver'[p].snap = saver[p].snap
  BY <1>3 DEF SameSaver, Children, Savers
<1>9. CASE Returns(s, FALSE) /\ SameDump
  <2>1. UNCHANGED <<reported, deceived>>
    BY <1>9 DEF Returns, ServerReturns
  <2>2. saver'[s].pc # "succeeded"
    BY <1>9 DEF Returns, AfterReturn, Idle
  <2>3. \A t \in Savers : saver'[t].pc \in Working =>
          saver[t].pc \in Working /\ saver'[t].snap = saver[t].snap
    BY <1>3 DEF SameSaver
  <2>4. \A p \in Children' :
          p \in Children /\ (saver'[p].pc = "succeeded" => saver[p].pc = "succeeded")
    BY <1>7, <1>8, <2>2
  <2> QED
    BY <1>1, <1>4, <1>6, <1>9, <2>1, <2>3, <2>4, HonestKept DEF SameDump
<1>10. CASE Returns(s, TRUE) /\ DumpVersion' = saver[s].snap
  <2>1. \A t \in Savers : saver'[t].pc \notin Working
    BY <1>1, <1>3 DEF Order, SameSaver
  <2>2. ~ deceived => /\ reported <= saver[s].snap
                      /\ Running => reported <= db
    BY <1>1 DEF Honest
  <2>3. Running' => forked' <= db'
    BY <1>1, <1>6 DEF Honest
  <2>4. CASE s = Main
    <3>1. RecordSaved(saver[s].snap, TRUE)
      BY <1>10, <2>4 DEF Returns, ServerReturns
    <3>2. ~ deceived' =>
             /\ reported' <= DumpVersion'
             /\ Running' => reported' <= db'
             /\ \A t \in Savers : saver'[t].pc \in Working => reported' <= saver'[t].snap
      <4>1. TRUE => /\ saver[s].snap <= DumpVersion' /\ saver[s].snap <= db'
                    /\ ~ deceived => reported <= DumpVersion' /\ reported <= db'
        BY <1>1, <1>4, <1>5, <1>10, <2>2, <2>4
      <4>2. DumpVersion' \in Int /\ db' \in Int /\ saver[s].snap \in Int /\ TRUE \in BOOLEAN
        BY <1>4, <1>10
      <4> QED
        BY ONLY Base, <2>1, <3>1, <4>1, <4>2, HonestRecorded
    <3>3. s \notin Children'
      BY <2>4, SaverAssumption DEF Children
    <3>4. forked <= DumpVersion'
      BY <1>1, <1>5, <1>10, <2>4 DEF Honest
    <3>5. \A p \in Children' : /\ saver'[p].pc \in Working => saver'[p].snap = forked'
                               /\ saver'[p].pc = "succeeded" => forked' <= DumpVersion'
      BY <1>1, <1>7, <1>8, <3>3, <3>4 DEF Honest
    <3> QED
      BY <2>3, <3>2, <3>5 DEF Honest
  <2>5. CASE s # Main
    <3>1. UNCHANGED <<reported, deceived>>
      BY <1>10, <2>5 DEF Returns, ServerReturns
    <3>2. \A p \in Children' : p = s
      <4>1. ASSUME NEW p \in Children' PROVE p = s
        <5>1. saver[s].orphan => ~ Running
          BY <1>1 DEF Order, Working
        <5>2. ~ Running => Children = {}
          BY DEF Base, TypeInv, ServerType, Statuses, ChildInv, Stopped, Running
        <5>3. ~ saver[s].orphan => s \in Children
          BY <1>1, <2>5 DEF Children, Savers, Working
        <5> QED
          BY <1>7, <4>1, <5>1, <5>2, <5>3 DEF Base, ChildInv, AtMostOneChild
      <4> QED
        BY <4>1
    <3>3. s \in Children => saver[s].snap = forked
      BY <1>1 DEF Honest
    <3>4. \A p \in Children' : /\ saver'[p].pc \in Working => saver'[p].snap = forked'
                               /\ saver'[p].pc = "succeeded" => forked' <= DumpVersion'
      BY <1>1, <1>3, <1>4, <1>7, <1>10, <3>2, <3>3
    <3> QED
      BY <1>1, <1>6, <1>10, <2>1, <2>2, <2>3, <3>1, <3>4 DEF Honest
  <2> QED
    BY <2>4, <2>5
<1> QED
  BY <1>1, <1>9, <1>10

LEMMA StepHonest ==
  ASSUME Alone, Base, Order, Honest, [Next]_vars PROVE Honest'
<1>0. saver \in [Savers -> SaverStates] /\ db \in Int /\ Main \in Savers
  BY Numbers DEF Base, TypeInv, SaverType, Savers
<1>1. CASE Write \/ Tick \/ InterruptHandler \/ UNCHANGED vars
  <2>1. /\ UNCHANGED <<status, forked, reported, deceived>>
        /\ \A p \in Savers : /\ saver'[p].pc = saver[p].pc /\ saver'[p].snap = saver[p].snap
                             /\ saver'[p].orphan = saver[p].orphan
    BY <1>0, <1>1 DEF Write, Tick, InterruptHandler, vars, server, history, SaverStates
  <2>2. Children' = Children /\ \A p \in Children : p \in Savers
    BY <2>1 DEF Children, Savers
  <2>3. disk' = disk /\ harm' = harm
    BY <1>1 DEF Write, Tick, InterruptHandler, vars
  <2>4. SameDump
    BY <2>3, SameVersion
  <2>5. db' \in Int /\ db' >= db
    <3>1. written \in Int /\ db <= written
      BY Numbers DEF Order
    <3>2. db' \in {db, written + 1}
      BY <1>1 DEF Write, Tick, InterruptHandler, vars, server
    <3> QED
      BY <1>0, <3>1, <3>2
  <2> QED
    BY <2>1, <2>2, <2>4, <2>5, HonestKept DEF Running, SameDump
<1>2. CASE ServerCron \/ BgsaveCommand
  BY <1>2, CronHonest
<1>3. CASE SaveCommand \/ ShutDownCommand
  <2>1. /\ saver'[Main].snap = db /\ SameDump /\ Running
        /\ UNCHANGED <<db, history>>
        /\ \A t \in Savers \ {Main} : saver[t].pc \notin Working /\ saver'[t] = saver[t]
    BY <1>3, EnterOrder
  <2>2. \A p \in Pids : p \in Savers /\ saver'[p] = saver[p]
    BY <2>1, SaverAssumption DEF Savers
  <2>3. Children' = Children /\ \A p \in Children : saver'[p] = saver[p]
    BY <2>2 DEF Children
  <2>4. ~ deceived => reported <= db
    BY <2>1 DEF Honest
  <2>5. \A t \in Savers : saver'[t].pc \in Working => saver'[t].snap = db
    BY <2>1
  <2> QED
    BY <2>1, <2>3, <2>4, <2>5 DEF Honest, SameDump, history
<1>4. ASSUME NEW s \in Savers, OpenTemp(s) \/ WriteBlock(s) \/ CloseTemp(s) PROVE Honest'
  <2>1. /\ SameDump /\ UNCHANGED <<server, history>>
        /\ \A t \in Savers : /\ saver'[t].pc \in Working <=> saver[t].pc \in Working
                             /\ saver[t].pc \notin Working => saver'[t].pc = saver[t].pc
                             /\ saver'[t].snap = saver[t].snap
                             /\ saver'[t].orphan = saver[t].orphan
    BY <1>4, FileStep
  <2>2. Children' = Children /\ \A p \in Children : p \in Savers
    BY <2>1 DEF Children, Savers, Working
  <2>3. \A p \in Children : saver'[p].pc = "succeeded" => saver[p].pc = "succeeded"
    BY <2>1, <2>2 DEF Working
  <2>4. status' = status /\ db' = db /\ db' >= db
        /\ UNCHANGED <<reported, deceived, forked>>
    BY <1>0, <2>1 DEF server, history
  <2> QED
    BY <1>0, <2>1, <2>2, <2>3, <2>4, HonestKept DEF Running, SameDump
<1>5. ASSUME NEW s \in Savers, RenameTemp(s) \/ FailSave(s) PROVE Honest'
  BY <1>5, ReturnHonest
<1>6. ASSUME NEW p \in Pids, ChildKilled(p) PROVE Honest'
  <2>1. /\ UNCHANGED <<server, history>> /\ disk' = disk /\ harm' = harm
        /\ p \in Savers /\ saver[p].pc \in Working
        /\ \/ saver[p].orphan /\ saver' = [saver EXCEPT ![p] = Idle]
           \/ ~ saver[p].orphan /\ saver' = [saver EXCEPT ![p] = [Idle EXCEPT !.pc = "killed"]]
    BY <1>6 DEF ChildKilled, Savers
  <2>2. /\ saver'[p].pc \in {"free", "killed"}
        /\ saver[p].orphan => saver'[p].pc = "free"
        /\ \A t \in Savers \ {p} : saver'[t] = saver[t]
    BY <1>0, <2>1 DEF Idle
  <2>3. SameDump /\ db' = db /\ db' >= db /\ status' = status
    BY <1>0, <2>1, SameVersion DEF server
  <2>4. \A q \in Children' :
          q \in Children /\ (saver'[q].pc = "succeeded" => saver[q].pc = "succeeded")
    BY <2>1, <2>2 DEF Children, Savers, Working
  <2>5. \A t \in Savers : saver'[t].pc \in Working =>
          saver[t].pc \in Working /\ saver'[t].snap = saver[t].snap
    BY <2>2 DEF Working
  <2> QED
    BY <1>0, <2>1, <2>3, <2>4, <2>5, HonestKept DEF Running, SameDump, history
<1>7. CASE Exit \/ ServerKilled
  <2>1. /\ ~ Running' /\ SameDump /\ UNCHANGED <<db, history>> /\ Children' = {}
        /\ \A t \in Savers : \/ saver[t].pc \in Working /\ saver'[t].snap = saver[t].snap
                                /\ saver'[t].pc = saver[t].pc
                             \/ saver'[t] = Idle
    BY <1>7, Leaves
  <2>2. Idle.pc \notin Working
    BY DEF Idle, Working
  <2>3. db' \in Int /\ db' >= db
    BY <1>0, <2>1
  <2> QED
    BY <2>1, <2>2, <2>3, HonestKept DEF SameDump, history
<1>8. CASE Restart
  <2>1. Children' = {} /\ \A t \in Savers : saver'[t].pc \notin Working
    BY <1>8, RestartAlone DEF Working
  <2>2. forked' = 0 /\ deceived' = deceived
    BY <1>8 DEF Restart
  <2>3. /\ DumpVersion' = DumpVersion /\ written' \in {written, written + 1}
        /\ DumpIntact => db' = DumpVersion /\ reported' = reported
        /\ ~ DumpIntact => db' \in {0, written'} /\ reported' = 0
    BY <1>8, RestartVersion DEF SameDump
  <2>4. DumpVersion \in Nat /\ written \in Nat
    BY Numbers
  <2>5. 0 <= db' /\ (~ deceived => reported' <= DumpVersion' /\ reported' <= db')
    BY <2>3, <2>4 DEF Honest
  <2> QED
    BY <2>1, <2>2, <2>5 DEF Honest
<1> QED
  BY <1>1, <1>2, <1>3, <1>4, <1>5, <1>6, <1>7, <1>8 DEF Next, SaveStep

-----------------------------------------------------------------------------
(* What SHUTDOWN leaves behind                                             *)

LEMMA StoppingKept ==
  ASSUME Stopping, DumpVersion' = DumpVersion, acked' = acked, db' = db,
         stop' = stop, Running' => Running,
         \A t \in Savers : saver'[t].pc \in Working =>
           saver[t].pc \in Working /\ saver'[t].snap = saver[t].snap,
         status' = "off" => status = "off" \/ stop
  PROVE  Stopping'
BY DEF Stopping

LEMMA StoppingBegins ==
  ASSUME Stopping, Running, SameDump, acked' = acked, db' = db, stop' = stop,
         status' # "off",
         \A t \in Savers : saver'[t].pc \in Working =>
           \/ saver[t].pc \in Working /\ saver'[t].snap = saver[t].snap
           \/ saver'[t].snap = db
  PROVE  Stopping'
BY DEF Stopping, SameDump

LEMMA ReturnStopping ==
  ASSUME Base, Order, Stopping, NEW s \in Savers, RenameTemp(s) \/ FailSave(s)
  PROVE  Stopping'
<1>1. /\ saver[s].pc \in Working
      /\ UNCHANGED <<db, bg_saving, written, forked, acked>>
      /\ \/ Returns(s, TRUE) /\ DumpVersion' = saver[s].snap
         \/ Returns(s, FALSE) /\ SameDump
  BY SaveEnds
<1>2. PICK ok : Returns(s, ok)
  BY <1>1
<1>3. saver'[s].pc \notin Working /\ \A t \in Savers \ {s} : SameSaver(t)
  BY <1>2, AfterReturnIdle DEF Returns
<1>4. /\ s = Main => Running /\ saver[s].snap = db /\ status' = "serving"
      /\ s # Main => status' = status /\ stop' = stop
  BY <1>1, <1>2 DEF Base, MainInv, Running, Working, Returns, ServerReturns, Order
<1>5. Running' => Running
  BY <1>4 DEF Running
<1>6. Running' => acked' <= db'
  BY <1>1, <1>5 DEF Stopping
<1>7. CASE Returns(s, FALSE) /\ SameDump
  <2>1. stop' = stop
    BY <1>4, <1>7 DEF Returns, ServerReturns
  <2>2. \A t \in Savers : saver'[t].pc \in Working =>
          saver[t].pc \in Working /\ saver'[t].snap = saver[t].snap
    BY <1>3 DEF SameSaver
  <2>3. status' = "off" => status = "off" \/ stop
    BY <1>4
  <2> QED
    BY <1>1, <1>5, <1>7, <2>1, <2>2, <2>3, StoppingKept DEF SameDump
<1>8. CASE Returns(s, TRUE) /\ DumpVersion' = saver[s].snap
  <2>1. \A t \in Savers : saver'[t].pc \notin Working
    BY <1>1, <1>3 DEF Order, SameSaver
  <2>2. stop' => acked' <= DumpVersion'
    BY <1>1, <1>4, <1>8 DEF Stopping
  <2>3. status' = "off" => stop'
    BY <1>4 DEF Stopping
  <2> QED
    BY <1>6, <2>1, <2>2, <2>3 DEF Stopping
<1> QED
  BY <1>1, <1>7, <1>8

LEMMA StepStopping ==
  ASSUME Alone, "interrupt" \notin Faults, Base, Order, Stopping, [Next]_vars
  PROVE  Stopping'
<1>0. /\ saver \in [Savers -> SaverStates] /\ acked \in Int /\ db \in Int
      /\ written \in Int /\ Main \in Savers
  BY Numbers DEF Base, TypeInv, SaverType, Savers
<1>1. CASE Write
  <2>1. /\ db' = written + 1 /\ acked' = (IF stop THEN acked ELSE written + 1)
        /\ UNCHANGED <<status, stop, saver>> /\ status = "serving"
        /\ disk' = disk /\ harm' = harm
    BY <1>1 DEF Write
  <2>2. acked <= db /\ db <= written
    BY <2>1 DEF Stopping, Order, Running
  <2>3. acked' <= db'
    BY <1>0, <2>1, <2>2
  <2>4. DumpVersion' = DumpVersion
    BY <2>1, SameVersion DEF SameDump
  <2> QED
    BY <2>1, <2>3, <2>4 DEF Stopping
<1>2. CASE Tick \/ UNCHANGED vars
  <2>1. /\ UNCHANGED <<status, stop, db, acked>> /\ disk' = disk /\ harm' = harm
        /\ \A t \in Savers : saver'[t].pc = saver[t].pc /\ saver'[t].snap = saver[t].snap
    BY <1>0, <1>2 DEF Tick, vars, server, history, SaverStates
  <2>2. DumpVersion' = DumpVersion
    BY <2>1, SameVersion DEF SameDump
  <2> QED
    BY <2>1, <2>2, StoppingKept DEF Running
<1>3. CASE ServerCron \/ BgsaveCommand
  <2>1. /\ UNCHANGED <<status, stop, db, acked>> /\ status = "serving" /\ SameDump /\ Running
        /\ \/ saver' = saver
           \/ ~ bg_saving /\ SaveDBBackground
           \/ ReapChild
    BY <1>3, CronCases DEF Running
  <2>2. CASE ~ bg_saving /\ SaveDBBackground /\ saver' # saver
    <3>1. PICK p \in Pids :
             saver' = [saver EXCEPT ![p] = [Idle EXCEPT !.pc = "open", !.snap = db, !.draw = draws]]
      BY <2>2, Forked
    <3>2. saver'[p].snap = db /\ \A t \in Savers \ {p} : saver'[t] = saver[t]
      BY <1>0, <3>1 DEF Idle, Savers
    <3> QED
      BY <2>1, <3>2, StoppingBegins
  <2>3. CASE ReapChild
    <3>1. \A t \in Savers : saver'[t] = saver[t] \/ saver'[t] = Idle
      BY <1>0, <2>3 DEF ReapChild
    <3>2. Idle.pc \notin Working
      BY DEF Idle, Working
    <3> QED
      BY <2>1, <3>1, <3>2, StoppingBegins
  <2>4. CASE saver' = saver
    BY <2>1, <2>4, StoppingBegins
  <2> QED
    BY <2>1, <2>2, <2>3, <2>4
<1>4. CASE SaveCommand \/ ShutDownCommand
  <2>1. /\ saver'[Main].snap = db /\ SameDump /\ Running
        /\ UNCHANGED <<stop, db, history>> /\ status' \in {"save", "shutdown"}
        /\ \A t \in Savers \ {Main} : saver'[t] = saver[t]
    BY <1>4, EnterOrder
  <2>2. status' # "off" /\ acked' = acked
    BY <2>1 DEF history
  <2> QED
    BY <2>1, <2>2, StoppingBegins
<1>5. ASSUME NEW s \in Savers, OpenTemp(s) \/ WriteBlock(s) \/ CloseTemp(s) PROVE Stopping'
  <2>1. /\ UNCHANGED <<server, history>> /\ DumpVersion' = DumpVersion
        /\ \A t \in Savers : /\ saver'[t].pc \in Working <=> saver[t].pc \in Working
                             /\ saver'[t].snap = saver[t].snap
    BY <1>5, FileStep DEF SameDump
  <2>2. UNCHANGED <<status, stop, db, acked>>
    BY <2>1 DEF server, history
  <2> QED
    BY <2>1, <2>2, StoppingKept DEF Running
<1>6. ASSUME NEW s \in Savers, RenameTemp(s) \/ FailSave(s) PROVE Stopping'
  BY <1>6, ReturnStopping
<1>7. CASE InterruptHandler
  BY <1>7 DEF InterruptHandler
<1>8. ASSUME NEW p \in Pids, ChildKilled(p) PROVE Stopping'
  <2>1. /\ UNCHANGED <<status, stop, db, acked>> /\ disk' = disk /\ harm' = harm
        /\ saver'[p].pc \notin Working /\ p \in Savers
        /\ \A t \in Savers \ {p} : saver'[t] = saver[t]
    BY <1>0, <1>8 DEF ChildKilled, Savers, server, history, Idle, Working
  <2>2. DumpVersion' = DumpVersion
    BY <2>1, SameVersion DEF SameDump
  <2> QED
    BY <2>1, <2>2, StoppingKept DEF Running
<1>9. CASE Exit \/ ServerKilled
  <2>1. /\ ~ Running' /\ DumpVersion' = DumpVersion /\ UNCHANGED <<stop, db, history>>
        /\ \A t \in Savers : \/ saver[t].pc \in Working /\ saver'[t].snap = saver[t].snap
                                /\ saver'[t].pc = saver[t].pc
                             \/ saver'[t] = Idle
    BY <1>9, Leaves DEF SameDump
  <2>2. Idle.pc \notin Working /\ acked' = acked
    BY <2>1 DEF Idle, Working, history
  <2>3. status' = "off" => stop
    BY <1>9 DEF Exit, ServerKilled
  <2> QED
    BY <2>1, <2>2, <2>3, StoppingKept
<1>10. CASE Restart
  <2>1. stop' = FALSE /\ acked' = db' /\ status' # "off"
    BY <1>10 DEF Restart, LoadDB
  <2>2. db' \in Int
    <3>1. DumpVersion \in Nat /\ written \in Nat
      BY Numbers
    <3> QED
      BY <1>10, <3>1, RestartVersion
  <2> QED
    BY <2>1, <2>2 DEF Stopping
<1> QED
  BY <1>1, <1>2, <1>3, <1>4, <1>5, <1>6, <1>7, <1>8, <1>9, <1>10 DEF Next, SaveStep

-----------------------------------------------------------------------------
LEMMA InitOrder ==
  ASSUME Init PROVE Order /\ Honest /\ Stopping
<1>1. \A s \in Savers : saver[s].pc = "free" /\ saver[s].pc \notin Working
  BY DEF Init, Idle, Working
<1>2. Children = {}
  BY <1>1 DEF Children, Savers
<1>3. DumpVersion = 0
  BY DEF Init, DumpVersion, Dump
<1>4. /\ db = 0 /\ written = 0 /\ reported = 0 /\ acked = 0 /\ forked = 0
      /\ ~ stop /\ status = "serving"
  BY DEF Init
<1> QED
  BY <1>1, <1>2, <1>3, <1>4 DEF Order, Honest, Stopping

LEMMA OrderAlways ==
  ASSUME Alone PROVE Spec => [](Base /\ Order)
<1>1. Spec => []Base
  BY BaseAlways
<1>2. Init => Order
  BY InitOrder
<1>3. Base /\ Order /\ [Next]_vars => Order'
  BY StepOrder
<1> QED
  BY <1>1, <1>2, <1>3, PTL DEF Spec

(* What the server has reported as saved, by the OK of SAVE, by LASTSAVE   *)
(* or by dirty (server.c:494-495, 736-739), is what the dump was made from *)
(* or older, for any number of children, writes, failures, crashes and     *)
(* restarts, unless the report rests on a child killed or never forked.    *)
(* That a flush may have damaged the dump unnoticed is not excluded here.  *)
THEOREM ReportedIsSaved ==
  ASSUME Alone PROVE Spec => []LastSaveHonest
<1>1. Spec => [](Base /\ Order)
  BY OrderAlways
<1>2. Init => Honest
  BY InitOrder
<1>3. Base /\ Order /\ Honest /\ [Next]_vars => Honest'
  BY StepHonest
<1>4. Base /\ Honest => LastSaveHonest
  <2>1. Base => reported \in Int /\ DumpVersion \in Int
    BY Numbers
  <2> QED
    BY <2>1 DEF Honest, LastSaveHonest
<1> QED
  BY <1>1, <1>2, <1>3, <1>4, PTL DEF Spec

(* No save puts an older snapshot in the place of a newer one that can be  *)
(* read back, however it ends (server.c:485-492), as long as the savers do *)
(* not overlap.                                                            *)
THEOREM DumpOnlyAdvances ==
  ASSUME Alone PROVE Spec => DumpNeverOlder
<1>1. Spec => [](Base /\ Order)
  BY OrderAlways
<1>2. Base /\ Order /\ [Next]_vars => [DumpIntact => DumpVersion' >= DumpVersion]_vars
  BY Monotone
<1> QED
  BY <1>1, <1>2, PTL DEF Spec, DumpNeverOlder

(* When SHUTDOWN has stopped the server (command.c:879-888), every write   *)
(* that was acknowledged is in the dataset the dump was made from; saves   *)
(* that fail and say so keep the server up.                                *)
THEOREM ShutdownKeepsAll ==
  ASSUME Alone, "interrupt" \notin Faults PROVE Spec => []ShutdownLosesNothing
<1>1. Spec => [](Base /\ Order)
  BY OrderAlways
<1>2. Init => Stopping
  BY InitOrder
<1>3. Base /\ Order /\ Stopping /\ [Next]_vars => Stopping'
  BY StepStopping
<1>4. Base /\ Stopping => ShutdownLosesNothing
  <2>1. Base => acked \in Int /\ DumpVersion \in Int
    BY Numbers
  <2> QED
    BY <2>1 DEF Stopping, ShutdownLosesNothing
<1> QED
  BY <1>1, <1>2, <1>3, <1>4, PTL DEF Spec
=============================================================================
