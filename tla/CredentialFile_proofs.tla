------------------------ MODULE CredentialFile_proofs ------------------------
(***************************************************************************)
(* The credential file from below and from above: FileStore's safety, and  *)
(* that it implements CredentialRegister, for any calls of Save, Load and  *)
(* Delete and any number of crashes; then the safety of the commands that  *)
(* share the register, for any number of each command.                     *)
(***************************************************************************)
EXTENDS FileStore, Commands, TLAPS

(***************************************************************************)
(* The store.                                                              *)
(***************************************************************************)

\* A file that s.path has named was complete and on disk before, and nothing
\* writes to it any more; a crash leaves only such files.
PastInv ==
    /\ path \in onDisk
    /\ onDisk \subseteq past \cup {NoFile}
    /\ \A f \in past : f \in synced /\ content[f] = "complete"
    /\ \A s \in Saves : pc[s] \in {"idle"} \cup Unrenamed => s \notin past

\* What a Save has written, and what a Load has open.
CallInv ==
    /\ \A s \in Saves :
          /\ pc[s] \in {"written", "synced", "closed"} => content[s] = "complete"
          /\ pc[s] \in {"synced", "closed"} => s \in synced
    /\ \A l \in Loads : pc[l] = "opened" => opened[l] \in past

\* What a crash may bring back has not been replaced for good.
OutdatedInv ==
    /\ outdated \subseteq past
    /\ outdated \cap onDisk = {}

\* The temporary files a crash may leave are those of Saves that have not
\* succeeded.
TempInv ==
    /\ temps \subseteq tempsOnDisk
    /\ \A s \in tempsOnDisk :
          pc[s] \in Unrenamed \cup {"renamed", "dead", "error"}

\* Without the directory there is nothing, and no Save is past making it.
DirectoryInv ==
    directory = "absent" =>
       /\ onDisk = {NoFile} /\ tempsOnDisk = {}
       /\ \A s \in Saves : pc[s] \notin Unrenamed \cup {"renamed"}

Inv ==
    /\ TypeOK
    /\ TempInv
    /\ DirectoryInv
    /\ PastInv
    /\ CallInv
    /\ OutdatedInv
    /\ NeverTorn
    /\ NoStrayTemp

---------------------------------------------------------------------------
\* The steps of Inv's induction, one per system call and per fault.
LEMMA InvInductive == Inv /\ [Next]_vars => Inv'
<1> SUFFICES ASSUME Inv, [Next]_vars PROVE Inv'
  OBVIOUS
<1> USE CallsAssumption, MaxCrashesAssumption
    DEF Inv, TypeOK, Files, Callers, Locations, Running, Unrenamed, Contents,
        Moves, pathVars, fileVars, tempVars, TempInv, DirectoryInv
<1>0. ASSUME NEW s \in Saves, PrepareDirectory(s) PROVE Inv'
  <2>1. TypeOK'
    BY <1>0 DEF PrepareDirectory, PastInv
  <2>2. PastInv' /\ CallInv'
    BY <1>0 DEF PrepareDirectory, PastInv, CallInv
  <2>3. OutdatedInv'
    BY <1>0 DEF PrepareDirectory, PastInv, OutdatedInv
  <2>4. TempInv' /\ DirectoryInv' /\ NeverTorn' /\ NoStrayTemp'
    BY <1>0 DEF PrepareDirectory, PastInv, CallInv, NeverTorn, NoStrayTemp
  <2>5. QED
    BY <2>1, <2>2, <2>3, <2>4
<1>1. ASSUME NEW s \in Saves, Create(s) PROVE Inv'
  <2>1. TypeOK'
    BY <1>1 DEF Create, PastInv
  <2>2. PastInv' /\ CallInv'
    BY <1>1 DEF Create, PastInv, CallInv
  <2>3. OutdatedInv'
    BY <1>1 DEF Create, PastInv, OutdatedInv
  <2>4. TempInv' /\ DirectoryInv' /\ NeverTorn' /\ NoStrayTemp'
    BY <1>1 DEF Create, PastInv, CallInv, NeverTorn, NoStrayTemp
  <2>5. QED
    BY <2>1, <2>2, <2>3, <2>4
<1>2. ASSUME NEW s \in Saves, Encode(s) PROVE Inv'
  <2>1. TypeOK'
    BY <1>2 DEF Encode, PastInv
  <2>2. PastInv' /\ CallInv'
    BY <1>2 DEF Encode, PastInv, CallInv
  <2>3. OutdatedInv'
    BY <1>2 DEF Encode, PastInv, OutdatedInv
  <2>4. TempInv' /\ DirectoryInv' /\ NeverTorn' /\ NoStrayTemp'
    BY <1>2 DEF Encode, PastInv, CallInv, NeverTorn, NoStrayTemp
  <2>5. QED
    BY <2>1, <2>2, <2>3, <2>4
<1>3. ASSUME NEW s \in Saves, Sync(s) PROVE Inv'
  <2>1. TypeOK'
    BY <1>3 DEF Sync, PastInv
  <2>2. PastInv' /\ CallInv'
    BY <1>3 DEF Sync, PastInv, CallInv
  <2>3. OutdatedInv'
    BY <1>3 DEF Sync, PastInv, OutdatedInv
  <2>4. TempInv' /\ DirectoryInv' /\ NeverTorn' /\ NoStrayTemp'
    BY <1>3 DEF Sync, PastInv, CallInv, NeverTorn, NoStrayTemp
  <2>5. QED
    BY <2>1, <2>2, <2>3, <2>4
<1>4. ASSUME NEW s \in Saves, Close(s) PROVE Inv'
  <2>1. TypeOK'
    BY <1>4 DEF Close, PastInv
  <2>2. PastInv' /\ CallInv'
    BY <1>4 DEF Close, PastInv, CallInv
  <2>3. OutdatedInv'
    BY <1>4 DEF Close, PastInv, OutdatedInv
  <2>4. TempInv' /\ DirectoryInv' /\ NeverTorn' /\ NoStrayTemp'
    BY <1>4 DEF Close, PastInv, CallInv, NeverTorn, NoStrayTemp
  <2>5. QED
    BY <2>1, <2>2, <2>3, <2>4
<1>5. ASSUME NEW s \in Saves, Rename(s) PROVE Inv'
  <2>1. TypeOK'
    BY <1>5 DEF Rename, PastInv
  <2>2. PastInv' /\ CallInv'
    BY <1>5 DEF Rename, PastInv, CallInv
  <2>3. OutdatedInv'
    BY <1>5 DEF Rename, PastInv, OutdatedInv
  <2>4. TempInv' /\ DirectoryInv' /\ NeverTorn' /\ NoStrayTemp'
    BY <1>5 DEF Rename, PastInv, CallInv, NeverTorn, NoStrayTemp
  <2>5. QED
    BY <2>1, <2>2, <2>3, <2>4
<1>6. ASSUME NEW s \in Saves, SyncDirectory(s) PROVE Inv'
  <2>1. TypeOK'
    BY <1>6 DEF SyncDirectory, PastInv
  <2>2. PastInv' /\ CallInv'
    BY <1>6 DEF SyncDirectory, PastInv, CallInv
  <2>3. OutdatedInv'
    BY <1>6 DEF SyncDirectory, PastInv, OutdatedInv
  <2>4. TempInv' /\ DirectoryInv' /\ NeverTorn' /\ NoStrayTemp'
    BY <1>6 DEF SyncDirectory, PastInv, CallInv, NeverTorn, NoStrayTemp
  <2>5. QED
    BY <2>1, <2>2, <2>3, <2>4
<1>7. ASSUME NEW s \in Saves, SaveFails(s) PROVE Inv'
  <2>1. TypeOK'
    BY <1>7 DEF SaveFails, PastInv
  <2>2. PastInv' /\ CallInv'
    BY <1>7 DEF SaveFails, PastInv, CallInv
  <2>3. OutdatedInv'
    BY <1>7 DEF SaveFails, PastInv, OutdatedInv
  <2>4. TempInv' /\ DirectoryInv' /\ NeverTorn' /\ NoStrayTemp'
    BY <1>7 DEF SaveFails, PastInv, CallInv, NeverTorn, NoStrayTemp
  <2>5. QED
    BY <2>1, <2>2, <2>3, <2>4
<1>8. ASSUME NEW s \in Saves, SyncDirectoryFails(s) PROVE Inv'
  <2>1. TypeOK'
    BY <1>8 DEF SyncDirectoryFails, PastInv
  <2>2. PastInv' /\ CallInv'
    BY <1>8 DEF SyncDirectoryFails, PastInv, CallInv
  <2>3. OutdatedInv'
    BY <1>8 DEF SyncDirectoryFails, PastInv, OutdatedInv
  <2>4. TempInv' /\ DirectoryInv' /\ NeverTorn' /\ NoStrayTemp'
    BY <1>8 DEF SyncDirectoryFails, PastInv, CallInv, NeverTorn, NoStrayTemp
  <2>5. QED
    BY <2>1, <2>2, <2>3, <2>4
<1>9. ASSUME NEW l \in Loads, Open(l) PROVE Inv'
  <2>1. TypeOK'
    BY <1>9 DEF Open, PastInv
  <2>2. PastInv' /\ CallInv'
    BY <1>9 DEF Open, PastInv, CallInv
  <2>3. OutdatedInv'
    BY <1>9 DEF Open, PastInv, OutdatedInv
  <2>4. TempInv' /\ DirectoryInv' /\ NeverTorn' /\ NoStrayTemp'
    BY <1>9 DEF Open, PastInv, CallInv, NeverTorn, NoStrayTemp
  <2>5. QED
    BY <2>1, <2>2, <2>3, <2>4
<1>10. ASSUME NEW l \in Loads, ReadAll(l) PROVE Inv'
  <2>1. TypeOK'
    BY <1>10 DEF ReadAll, PastInv
  <2>2. PastInv' /\ CallInv'
    BY <1>10 DEF ReadAll, PastInv, CallInv
  <2>3. OutdatedInv'
    BY <1>10 DEF ReadAll, PastInv, OutdatedInv
  <2>4. TempInv' /\ DirectoryInv' /\ NeverTorn' /\ NoStrayTemp'
    BY <1>10 DEF ReadAll, PastInv, CallInv, NeverTorn, NoStrayTemp
  <2>5. QED
    BY <2>1, <2>2, <2>3, <2>4
<1>11. ASSUME NEW l \in Loads, LoadFails(l) PROVE Inv'
  <2>1. TypeOK'
    BY <1>11 DEF LoadFails, PastInv
  <2>2. PastInv' /\ CallInv'
    BY <1>11 DEF LoadFails, PastInv, CallInv
  <2>3. OutdatedInv'
    BY <1>11 DEF LoadFails, PastInv, OutdatedInv
  <2>4. TempInv' /\ DirectoryInv' /\ NeverTorn' /\ NoStrayTemp'
    BY <1>11 DEF LoadFails, PastInv, CallInv, NeverTorn, NoStrayTemp
  <2>5. QED
    BY <2>1, <2>2, <2>3, <2>4
<1>12. ASSUME NEW d \in Deletes, Remove(d) PROVE Inv'
  <2>1. TypeOK'
    BY <1>12 DEF Remove, PastInv
  <2>2. PastInv' /\ CallInv'
    BY <1>12 DEF Remove, PastInv, CallInv
  <2>3. OutdatedInv'
    BY <1>12 DEF Remove, PastInv, OutdatedInv
  <2>4. TempInv' /\ DirectoryInv' /\ NeverTorn' /\ NoStrayTemp'
    BY <1>12 DEF Remove, PastInv, CallInv, NeverTorn, NoStrayTemp
  <2>5. QED
    BY <2>1, <2>2, <2>3, <2>4
<1>13. ASSUME NEW d \in Deletes, DeleteFails(d) PROVE Inv'
  <2>1. TypeOK'
    BY <1>13 DEF DeleteFails, PastInv
  <2>2. PastInv' /\ CallInv'
    BY <1>13 DEF DeleteFails, PastInv, CallInv
  <2>3. OutdatedInv'
    BY <1>13 DEF DeleteFails, PastInv, OutdatedInv
  <2>4. TempInv' /\ DirectoryInv' /\ NeverTorn' /\ NoStrayTemp'
    BY <1>13 DEF DeleteFails, PastInv, CallInv, NeverTorn, NoStrayTemp
  <2>5. QED
    BY <2>1, <2>2, <2>3, <2>4
<1>14. ASSUME NEW c \in Callers, Kill(c) PROVE Inv'
  <2>1. TypeOK'
    BY <1>14 DEF Kill, PastInv
  <2>2. PastInv' /\ CallInv'
    BY <1>14 DEF Kill, PastInv, CallInv
  <2>3. OutdatedInv'
    BY <1>14 DEF Kill, PastInv, OutdatedInv
  <2>4. TempInv' /\ DirectoryInv' /\ NeverTorn' /\ NoStrayTemp'
    BY <1>14 DEF Kill, PastInv, CallInv, NeverTorn, NoStrayTemp
  <2>5. QED
    BY <2>1, <2>2, <2>3, <2>4
<1>15. CASE Crash
  <2>1. TypeOK'
    BY <1>15 DEF Crash, DirectorySurvives, DirectoryIsLost, PastInv, Survives
  <2>2. PastInv' /\ CallInv'
    <3>1. \A f \in past : content'[f] = "complete"
      BY <1>15 DEF Crash, DirectorySurvives, DirectoryIsLost, PastInv, Survives
    <3>2. \A c \in Callers : pc'[c] = IF pc[c] \in Running THEN "dead" ELSE pc[c]
      BY <1>15 DEF Crash
    <3>3. PastInv'
      BY <1>15, <3>1, <3>2 DEF Crash, DirectorySurvives, DirectoryIsLost, PastInv
    <3>4. CallInv'
      BY <1>15, <3>2 DEF Crash, DirectorySurvives, DirectoryIsLost, CallInv
    <3>5. QED
      BY <3>3, <3>4
  <2>3. OutdatedInv'
    BY <1>15 DEF Crash, DirectorySurvives, DirectoryIsLost, PastInv, OutdatedInv, Survives
  <2>4. TempInv' /\ DirectoryInv' /\ NeverTorn' /\ NoStrayTemp'
    BY <1>15 DEF Crash, DirectorySurvives, DirectoryIsLost, PastInv, CallInv,
                 NeverTorn, NoStrayTemp, Survives
  <2>5. QED
    BY <2>1, <2>2, <2>3, <2>4
<1>16. CASE UNCHANGED vars
  BY <1>16 DEF vars, PastInv, CallInv, OutdatedInv, NeverTorn, NoStrayTemp
<1>17. QED
  BY <1>0, <1>1, <1>2, <1>3, <1>4, <1>5, <1>6, <1>7, <1>8, <1>9, <1>10, <1>11,
     <1>12, <1>13, <1>14, <1>15, <1>16 DEF Next

\* Inv holds of every reachable state.
LEMMA InvHolds == Spec => []Inv
<1>1. Init => Inv
  <2> SUFFICES ASSUME Init PROVE Inv
    OBVIOUS
  <2> USE CallsAssumption
      DEF Init, Files, Callers, Locations, Running, Unrenamed, Contents
  <2>1. TypeOK
    BY DEF TypeOK
  <2>2. PastInv /\ CallInv
    BY DEF PastInv, CallInv
  <2>3. OutdatedInv /\ TempInv /\ DirectoryInv /\ NeverTorn /\ NoStrayTemp
    BY DEF OutdatedInv, TempInv, DirectoryInv, NeverTorn, NoStrayTemp
  <2>4. QED
    BY <2>1, <2>2, <2>3 DEF Inv
<1>2. QED
  BY <1>1, InvInductive, PTL DEF Spec

---------------------------------------------------------------------------
\* The types of the file system and of the calls.
THEOREM TypeCorrect == Spec => []TypeOK
<1>1. Inv => TypeOK
  BY DEF Inv
<1>2. QED
  BY <1>1, InvHolds, PTL

\* No Load finds part of a credential, for any number of saves and crashes
\* (tokenstore/file.go:199-221).
THEOREM NeverTornHolds == Spec => []NeverTorn
<1>1. Inv => NeverTorn
  BY DEF Inv
<1>2. QED
  BY <1>1, InvHolds, PTL

\* No crash brings back a credential that a successful Save replaced
\* (tokenstore/file.go:216-225).
THEOREM NoRollbackPastSaveHolds == Spec => []NoRollbackPastSave
<1>1. Inv => NoRollbackPastSave
  BY DEF Inv, PastInv, OutdatedInv, NoRollbackPastSave
<1>2. QED
  BY <1>1, InvHolds, PTL

\* A temporary file belongs to a Save that runs, was cut short, or failed before
\* a crash (tokenstore/file.go:185-190).
THEOREM NoStrayTempHolds == Spec => []NoStrayTemp
<1>1. Inv => NoStrayTemp
  BY DEF Inv
<1>2. QED
  BY <1>1, InvHolds, PTL

---------------------------------------------------------------------------
\* A step of one call's location is a step of its phase.
LEMMA PhaseStep ==
    ASSUME TypeOK, NEW c \in Callers, NEW from, NEW to, Moves(c, from, to)
    PROVE  /\ Phase[c] = PhaseOf(from)
           /\ Phase' = [Phase EXCEPT ![c] = PhaseOf(to)]
BY DEF TypeOK, Phase, Moves

\* The phase of every location.
LEMMA PhaseNames ==
    /\ \A p \in Unrenamed : PhaseOf(p) = "pending"
    /\ \A p \in {"renamed", "opened"} : PhaseOf(p) = "applied"
    /\ \A p \in {"idle", "ok", "error", "torn", "dead"} : PhaseOf(p) = p
    /\ Unrenamed = {"prepared", "created", "written", "synced", "closed"}
BY DEF PhaseOf, Unrenamed

\* The file store implements one register, which is firm once the directory is
\* durable: each system call is a step of the register or none at all
\* (tokenstore/file.go:164-238, 557-572).
THEOREM Implements == Spec => ActsAsRegister
<1>1. Init => Register!RegisterInit
  <2> SUFFICES ASSUME Init PROVE Register!RegisterInit
    OBVIOUS
  <2>1. Recoverable = {path} /\ (path # NoFile => directory = "durable")
    BY DEF Init, Recoverable
  <2>2. Phase = [c \in Register!Callers |-> "idle"]
    BY PhaseNames DEF Init, Register!Callers, Callers, Phase
  <2>3. (directory = "durable") \in BOOLEAN
    OBVIOUS
  <2> QED
    BY <2>1, <2>2, <2>3 DEF Init, Register!RegisterInit
<1>2. Inv /\ [Next]_vars => [Register!RegisterNext]_(Register!registerVars)
  <2> SUFFICES ASSUME Inv, [Next]_vars
               PROVE  \/ Register!RegisterNext
                      \/ UNCHANGED Register!registerVars
    OBVIOUS
  <2> USE DEF pathVars, fileVars, tempVars, Register!registerVars, Register!Callers,
              Callers, Register!Reaches, Recoverable
  <2>t. TypeOK
    BY DEF Inv
  <2>1. ASSUME NEW s \in Saves, PrepareDirectory(s) PROVE Register!BeginSave(s)
    <3>1. Phase[s] = "idle" /\ Phase' = [Phase EXCEPT ![s] = "pending"]
      BY <2>t, <2>1, PhaseStep, PhaseNames DEF PrepareDirectory
    <3>2. Recoverable' = Recoverable /\ (directory = "durable")' = (directory = "durable")
      BY <2>1 DEF PrepareDirectory, Recoverable
    <3>3. QED
      BY <2>1, <3>1, <3>2 DEF PrepareDirectory, Register!BeginSave
  <2>2. ASSUME NEW s \in Saves, Rename(s) PROVE Register!Write(s)
    <3>1. Phase[s] = "pending" /\ Phase' = [Phase EXCEPT ![s] = "applied"]
      BY <2>t, <2>2, PhaseStep, PhaseNames DEF Rename
    <3>2. QED
      BY <2>2, <3>1 DEF Rename, Register!Write
  <2>3. ASSUME NEW s \in Saves, SyncDirectory(s) PROVE Register!AckSave(s)
    <3>1. Phase[s] = "applied" /\ Phase' = [Phase EXCEPT ![s] = "ok"]
      BY <2>t, <2>3, PhaseStep, PhaseNames DEF SyncDirectory
    <3>2. QED
      BY <2>3, <3>1 DEF SyncDirectory, Register!AckSave
  <2>4. ASSUME NEW s \in Saves, SyncDirectoryFails(s) PROVE Register!Fail(s)
    <3>1. Phase[s] = "applied" /\ Phase' = [Phase EXCEPT ![s] = "error"]
      BY <2>t, <2>4, PhaseStep, PhaseNames DEF SyncDirectoryFails
    <3>2. QED
      BY <2>4, <3>1 DEF SyncDirectoryFails, Register!Fail
  <2>5. ASSUME NEW l \in Loads, Open(l) PROVE Register!Read(l)
    <3>1. Phase[l] = "idle" /\ Phase' = [Phase EXCEPT ![l] = "applied"]
      BY <2>t, <2>5, PhaseStep, PhaseNames DEF Open
    <3>2. QED
      BY <2>5, <3>1 DEF Open, Register!Read
  <2>6. ASSUME NEW d \in Deletes, Remove(d) PROVE Register!Remove(d)
    <3>1. Phase[d] = "idle" /\ Phase' = [Phase EXCEPT ![d] = "ok"]
      BY <2>t, <2>6, PhaseStep, PhaseNames DEF Remove
    <3>2. QED
      BY <2>6, <3>1 DEF Remove, Register!Remove
  <2>7. ASSUME NEW d \in Deletes, DeleteFails(d) PROVE Register!Fail(d)
    <3>1. Phase[d] = "idle" /\ Phase' = [Phase EXCEPT ![d] = "error"]
      BY <2>t, <2>7, PhaseStep, PhaseNames DEF DeleteFails
    <3>2. QED
      BY <2>7, <3>1 DEF DeleteFails, Register!Fail
  <2>8. ASSUME NEW s \in Saves, Create(s) \/ Encode(s) \/ Sync(s) \/ Close(s)
        PROVE  UNCHANGED Register!registerVars
    <3>1. PICK from, to \in Unrenamed : Moves(s, from, to)
      BY <2>8 DEF Create, Encode, Sync, Close, Unrenamed
    <3>2. Phase[s] = "pending" /\ Phase' = [Phase EXCEPT ![s] = "pending"]
      BY <2>t, <3>1, PhaseStep, PhaseNames
    <3>3. Phase' = Phase
      BY <3>2 DEF Phase
    <3>4. QED
      BY <2>8, <3>3 DEF Create, Encode, Sync, Close
  <2>9. ASSUME NEW s \in Saves, SaveFails(s) PROVE Register!Fail(s)
    <3>1. PICK from \in {"idle", "opened"} \cup Unrenamed : Moves(s, from, "error")
      BY <2>9 DEF SaveFails, Moves
    <3>2. /\ Phase[s] \in {"idle", "pending", "applied"}
          /\ Phase' = [Phase EXCEPT ![s] = "error"]
      BY <2>t, <3>1, PhaseStep, PhaseNames
    <3>3. QED
      BY <2>9, <3>2 DEF SaveFails, Register!Fail
  <2>10. ASSUME NEW l \in Loads, LoadFails(l) PROVE Register!Fail(l)
    <3>1. PICK from \in {"idle", "opened"} \cup Unrenamed : Moves(l, from, "error")
      BY <2>10 DEF LoadFails, Moves
    <3>2. /\ Phase[l] \in {"idle", "pending", "applied"}
          /\ Phase' = [Phase EXCEPT ![l] = "error"]
      BY <2>t, <3>1, PhaseStep, PhaseNames
    <3>3. QED
      BY <2>10, <3>2 DEF LoadFails, Register!Fail
  <2>11. ASSUME NEW l \in Loads, ReadAll(l) PROVE Register!AckLoad(l)
    <3>1. content[opened[l]] = "complete"
      BY <2>11 DEF ReadAll, Moves, Inv, PastInv, CallInv
    <3>2. Moves(l, "opened", "ok")
      BY <2>11, <3>1 DEF ReadAll
    <3>3. Phase[l] = "applied" /\ Phase' = [Phase EXCEPT ![l] = "ok"]
      BY <2>t, <3>2, PhaseStep, PhaseNames
    <3>4. QED
      BY <2>11, <3>3 DEF ReadAll, Register!AckLoad
  <2>12. ASSUME NEW c \in Callers, Kill(c) PROVE Register!Die(c)
    <3>1. PICK from \in Running : Moves(c, from, "dead")
      BY <2>12 DEF Kill, Moves
    <3>2. /\ Phase[c] \in {"pending", "applied"}
          /\ Phase' = [Phase EXCEPT ![c] = "dead"]
      BY <2>t, <3>1, PhaseStep, PhaseNames DEF Running
    <3>3. QED
      BY <2>12, <3>2 DEF Kill, Register!Die
  <2>13. CASE Crash
    <3>1. ASSUME NEW c \in Callers
          PROVE  Phase'[c] = IF Phase[c] \in {"pending", "applied"}
                             THEN "dead" ELSE Phase[c]
      <4>1. pc[c] \in Locations
        BY <2>t DEF TypeOK
      <4>2. Phase[c] = PhaseOf(pc[c]) /\ Phase'[c] = PhaseOf(pc'[c])
        BY DEF Phase
      <4>3. CASE pc[c] \in Running
        BY <2>13, <4>2, <4>3, PhaseNames DEF Crash, Running
      <4>4. CASE pc[c] \notin Running
        BY <2>13, <4>1, <4>2, <4>4, PhaseNames DEF Crash, Running, Locations
      <4>5. QED
        BY <4>3, <4>4
    <3>2. Phase' = [c \in Callers |-> IF Phase[c] \in {"pending", "applied"}
                                      THEN "dead" ELSE Phase[c]]
      BY <3>1 DEF Phase
    <3>3. /\ path' \in Recoverable /\ Recoverable' = {path'}
          /\ directory = "durable" \/ path' # NoFile => directory' = "durable"
      BY <2>13 DEF Crash, DirectorySurvives, DirectoryIsLost, Inv, TypeOK, DirectoryInv
    <3>4. Register!Restart
      BY <2>13, <3>2, <3>3 DEF Crash, Register!Restart
    <3>5. QED
      BY <3>4 DEF Register!RegisterNext
  <2>14. CASE UNCHANGED vars
    BY <2>14 DEF vars, Phase
  <2>15. QED
    BY <2>1, <2>2, <2>3, <2>4, <2>5, <2>6, <2>7, <2>8, <2>9, <2>10,
       <2>11, <2>12, <2>13, <2>14
       DEF Next, Register!RegisterNext
<1>3. QED
  BY <1>1, <1>2, InvHolds, PTL
     DEF Spec, ActsAsRegister, Register!RegisterSpec
---------------------------------------------------------------------------
(***************************************************************************)
(* The commands that share the credential file.                            *)
(***************************************************************************)

\* What a process holds: at most the credential it obtained itself, or one that
\* has been in the file.
HoldingInv ==
    /\ file \in saved \cup {Nothing}
    /\ \A p \in Processes :
          /\ held[p] \in saved \cup {p, Nothing}
          /\ held[p] = p => at[p] \in Finished \cup {"save"}
          /\ at[p] \in {"check", "refresh", "reload"} =>
                p \in Printers /\ held[p] # Nothing
          /\ at[p] = "save" => p \in Credentials /\ held[p] = p
          /\ at[p] \in {"revoke", "delete", "unrevoked"} => p \in Logouts
          /\ at[p] = "revoke" => held[p] # Nothing /\ kindOf[held[p]] = "pkce"

\* The credential of a process is its own until the process has saved it, and there
\* is none before the process has obtained it.
UnsavedInv ==
    \A p \in Processes \ Logouts :
        /\ at[p] \notin Finished => p \notin saved
        /\ at[p] \notin Finished \cup {"save"} => kindOf[p] = "plain"

\* A rotating token is that of its own credential; a kept one is shared with the
\* credentials that were obtained with it, all of a provider that keeps it.
TokenInv ==
    \A n \in Credentials :
        /\ kindOf[n] = "plain" => tokenOf[n] = Nothing
        /\ kindOf[n] \in {"pkce", "rotating"} => tokenOf[n] = n
        /\ kindOf[n] = "keeping" =>
              tokenOf[n] \in Credentials /\ kindOf[tokenOf[n]] = "keeping"

\* What is about to be saved is alive, since nobody else can have presented its
\* token, unless a newer login has replaced it.
SaveInv ==
    \A p \in Processes :
        at[p] = "save" => tokenOf[p] \in live \cup {Nothing} \/ p \in overtaken

\* A dead token in the file was overtaken, or is about to be replaced or removed.
LeftInv ==
    ~faults /\ file # Nothing =>
        \/ tokenOf[file] \in live \cup {Nothing} \/ file \in overtaken
        \/ \E p \in Processes : at[p] \in {"save", "delete"}

CommandsInv ==
    /\ CommandsTypeOK /\ HoldingInv /\ UnsavedInv /\ TokenInv /\ SaveInv /\ LeftInv

LEMMA CommandsInvInductive ==
    CommandsInv /\ [CommandsNext]_commandVars => CommandsInv'
<1> SUFFICES ASSUME CommandsInv, [CommandsNext]_commandVars PROVE CommandsInv'
  OBVIOUS
<1> USE ProcessesAssumption
    DEF CommandsInv, GoTo, registerVars, issuerVars, Processes, Credentials, Kinds,
        Points, Finished
<1>1. ASSUME NEW p \in Printers, PrinterLoads(p) PROVE CommandsInv'
  <2>1. CommandsTypeOK'
    BY <1>1 DEF PrinterLoads, Holds, CommandsTypeOK, HoldingInv
  <2>2. HoldingInv'
    BY <1>1 DEF PrinterLoads, Holds, HoldingInv, CommandsTypeOK, UnsavedInv
  <2>3. UnsavedInv' /\ TokenInv' /\ SaveInv' /\ LeftInv'
    BY <1>1
       DEF PrinterLoads, Holds, UnsavedInv, TokenInv, SaveInv, LeftInv,
           CommandsTypeOK, HoldingInv
  <2> QED
    BY <2>1, <2>2, <2>3
<1>2. ASSUME NEW p \in Printers, PrinterChecks(p) PROVE CommandsInv'
  <2>1. CommandsTypeOK' /\ HoldingInv'
    BY <1>2 DEF PrinterChecks, Prints, Fresh, CommandsTypeOK, HoldingInv
  <2>2. UnsavedInv' /\ TokenInv' /\ SaveInv' /\ LeftInv'
    BY <1>2
       DEF PrinterChecks, Prints, Fresh, UnsavedInv, TokenInv, SaveInv, LeftInv,
           CommandsTypeOK, HoldingInv
  <2> QED
    BY <2>1, <2>2
<1>3. ASSUME NEW p \in Printers, PrinterRefreshes(p) PROVE CommandsInv'
  <2>1. CommandsTypeOK'
    BY <1>3 DEF PrinterRefreshes, Issue, Holds, CommandsTypeOK, HoldingInv
  <2>2. HoldingInv' /\ UnsavedInv'
    BY <1>3 DEF PrinterRefreshes, Issue, Holds, HoldingInv, UnsavedInv, CommandsTypeOK
  <2>3. TokenInv'
    BY <1>3
       DEF PrinterRefreshes, Issue, Holds, TokenInv, CommandsTypeOK, HoldingInv,
           UnsavedInv
  <2>4. SaveInv'
    BY <1>3
       DEF PrinterRefreshes, Issue, Holds, SaveInv, CommandsTypeOK, HoldingInv,
           UnsavedInv, TokenInv
  <2>5. LeftInv'
    BY <1>3
       DEF PrinterRefreshes, Issue, Holds, LeftInv, CommandsTypeOK, HoldingInv,
           UnsavedInv, TokenInv, SaveInv
  <2> QED
    BY <2>1, <2>2, <2>3, <2>4, <2>5
<1>4. ASSUME NEW p \in Printers, PrinterLosesReply(p) PROVE CommandsInv'
  <2>1. CommandsTypeOK'
    BY <1>4 DEF PrinterLosesReply, Issue, CommandsTypeOK, HoldingInv
  <2>2. HoldingInv' /\ UnsavedInv'
    BY <1>4 DEF PrinterLosesReply, Issue, HoldingInv, UnsavedInv, CommandsTypeOK
  <2>3. TokenInv'
    BY <1>4
       DEF PrinterLosesReply, Issue, TokenInv, CommandsTypeOK, HoldingInv, UnsavedInv
  <2>4. SaveInv'
    BY <1>4
       DEF PrinterLosesReply, Issue, SaveInv, CommandsTypeOK, HoldingInv, UnsavedInv,
           TokenInv
  <2>5. LeftInv'
    BY <1>4
       DEF PrinterLosesReply, Issue, LeftInv, CommandsTypeOK, HoldingInv, UnsavedInv,
           TokenInv, SaveInv
  <2> QED
    BY <2>1, <2>2, <2>3, <2>4, <2>5
<1>5. ASSUME NEW p \in Printers, PrinterIsRejected(p) PROVE CommandsInv'
  <2>1. CommandsTypeOK' /\ HoldingInv'
    BY <1>5 DEF PrinterIsRejected, CommandsTypeOK, HoldingInv
  <2>2. UnsavedInv' /\ TokenInv' /\ SaveInv' /\ LeftInv'
    BY <1>5
       DEF PrinterIsRejected, UnsavedInv, TokenInv, SaveInv, LeftInv, CommandsTypeOK,
           HoldingInv
  <2> QED
    BY <2>1, <2>2
<1>6. ASSUME NEW p \in Printers, PrinterSaves(p) PROVE CommandsInv'
  <2>1. CommandsTypeOK' /\ HoldingInv'
    BY <1>6 DEF PrinterSaves, Prints, CommandsTypeOK, HoldingInv
  <2>2. UnsavedInv' /\ TokenInv'
    BY <1>6 DEF PrinterSaves, Prints, UnsavedInv, TokenInv, CommandsTypeOK, HoldingInv
  <2>3. SaveInv' /\ LeftInv'
    BY <1>6 DEF PrinterSaves, Prints, SaveInv, LeftInv, CommandsTypeOK, HoldingInv
  <2> QED
    BY <2>1, <2>2, <2>3
<1>7. ASSUME NEW p \in Printers, PrinterReloads(p) PROVE CommandsInv'
  <2>1. CommandsTypeOK' /\ HoldingInv'
    BY <1>7 DEF PrinterReloads, Prints, Fresh, CommandsTypeOK, HoldingInv
  <2>2. UnsavedInv' /\ TokenInv' /\ SaveInv' /\ LeftInv'
    BY <1>7
       DEF PrinterReloads, Prints, Fresh, UnsavedInv, TokenInv, SaveInv, LeftInv,
           CommandsTypeOK, HoldingInv
  <2> QED
    BY <2>1, <2>2
<1>8. ASSUME NEW l \in Logins, LoginFlow(l) PROVE CommandsInv'
  <2>1. PICK kind \in Kinds, replaced \in SUBSET {n \in live : kindOf[n] = "pkce"} :
          /\ kindOf' = [kindOf EXCEPT ![l] = kind]
          /\ tokenOf' = [tokenOf EXCEPT ![l] = OwnToken(l, kind)]
          /\ live' = (live \ replaced) \cup ({OwnToken(l, kind)} \ {Nothing})
          /\ overtaken' = overtaken \cup (replaced \ saved)
    BY <1>8 DEF LoginFlow
  <2>2. CommandsTypeOK'
    BY <1>8, <2>1 DEF LoginFlow, Holds, OwnToken, CommandsTypeOK, HoldingInv
  <2>3. HoldingInv' /\ UnsavedInv'
    BY <1>8, <2>1
       DEF LoginFlow, Holds, OwnToken, HoldingInv, UnsavedInv, CommandsTypeOK
  <2>4. TokenInv'
    BY <1>8, <2>1
       DEF LoginFlow, Holds, OwnToken, TokenInv, CommandsTypeOK, HoldingInv,
           UnsavedInv
  <2>5. SaveInv'
    <3> SUFFICES ASSUME NEW q \in Processes, at'[q] = "save"
                 PROVE  tokenOf'[q] \in live' \cup {Nothing} \/ q \in overtaken'
      BY DEF SaveInv
    <3>1. CASE q = l
      BY <1>8, <2>1, <3>1 DEF CommandsTypeOK, OwnToken
    <3>2. CASE q # l
      <4>1. at[q] = "save" /\ q \in Credentials /\ tokenOf'[q] = tokenOf[q]
        BY <1>8, <2>1, <3>2 DEF LoginFlow, CommandsTypeOK, HoldingInv
      <4>2. q \notin saved /\ q \notin Logouts
        BY <4>1 DEF UnsavedInv, HoldingInv
      <4>3. tokenOf[q] \in replaced => tokenOf[q] = q
        BY <2>1, <4>1 DEF TokenInv, CommandsTypeOK
      <4> QED
        BY <2>1, <4>1, <4>2, <4>3 DEF SaveInv
    <3> QED
      BY <3>1, <3>2
  <2>6. LeftInv'
    BY <1>8 DEF LoginFlow, LeftInv, CommandsTypeOK
  <2> QED
    BY <2>2, <2>3, <2>4, <2>5, <2>6
<1>9. ASSUME NEW i \in Imports, ImportAcquires(i) PROVE CommandsInv'
  <2>1. CommandsTypeOK' /\ HoldingInv'
    BY <1>9 DEF ImportAcquires, Holds, CommandsTypeOK, HoldingInv
  <2>2. UnsavedInv'
    BY <1>9 DEF ImportAcquires, Holds, UnsavedInv, CommandsTypeOK, HoldingInv
  <2>3. TokenInv'
    BY <1>9 DEF ImportAcquires, Holds, TokenInv, CommandsTypeOK, HoldingInv, UnsavedInv
  <2>4. SaveInv' /\ LeftInv'
    BY <1>9
       DEF ImportAcquires, Holds, SaveInv, LeftInv, CommandsTypeOK, HoldingInv,
           UnsavedInv, TokenInv
  <2> QED
    BY <2>1, <2>2, <2>3, <2>4
<1>10. ASSUME NEW l \in Logins \cup Imports, FirstSave(l) PROVE CommandsInv'
  <2>1. CommandsTypeOK' /\ HoldingInv'
    BY <1>10 DEF FirstSave, CommandsTypeOK, HoldingInv
  <2>2. UnsavedInv' /\ TokenInv'
    BY <1>10 DEF FirstSave, UnsavedInv, TokenInv, CommandsTypeOK, HoldingInv
  <2>3. SaveInv' /\ LeftInv'
    BY <1>10 DEF FirstSave, SaveInv, LeftInv, CommandsTypeOK, HoldingInv
  <2> QED
    BY <2>1, <2>2, <2>3
<1>11. ASSUME NEW o \in Logouts, LogoutLoads(o) PROVE CommandsInv'
  <2>1. CommandsTypeOK' /\ HoldingInv'
    BY <1>11 DEF LogoutLoads, Holds, CommandsTypeOK, HoldingInv
  <2>2. UnsavedInv' /\ TokenInv' /\ SaveInv' /\ LeftInv'
    BY <1>11
       DEF LogoutLoads, Holds, UnsavedInv, TokenInv, SaveInv, LeftInv, CommandsTypeOK,
           HoldingInv
  <2> QED
    BY <2>1, <2>2
<1>12. ASSUME NEW o \in Logouts, LogoutRevokes(o) PROVE CommandsInv'
  <2>1. CommandsTypeOK'
    BY <1>12 DEF LogoutRevokes, CommandsTypeOK, HoldingInv
  <2>2. HoldingInv' /\ UnsavedInv'
    BY <1>12 DEF LogoutRevokes, HoldingInv, UnsavedInv, CommandsTypeOK
  <2>3. TokenInv'
    BY <1>12 DEF LogoutRevokes, TokenInv, CommandsTypeOK, HoldingInv, UnsavedInv
  <2>4. SaveInv'
    BY <1>12
       DEF LogoutRevokes, SaveInv, CommandsTypeOK, HoldingInv, UnsavedInv, TokenInv
  <2>5. LeftInv'
    BY <1>12
       DEF LogoutRevokes, LeftInv, CommandsTypeOK, HoldingInv, UnsavedInv, TokenInv,
           SaveInv
  <2> QED
    BY <2>1, <2>2, <2>3, <2>4, <2>5
<1>13. ASSUME NEW o \in Logouts, LogoutLosesReply(o) PROVE CommandsInv'
  <2>1. CommandsTypeOK'
    BY <1>13 DEF LogoutLosesReply, CommandsTypeOK, HoldingInv
  <2>2. HoldingInv' /\ UnsavedInv'
    BY <1>13 DEF LogoutLosesReply, HoldingInv, UnsavedInv, CommandsTypeOK
  <2>3. TokenInv'
    BY <1>13 DEF LogoutLosesReply, TokenInv, CommandsTypeOK, HoldingInv, UnsavedInv
  <2>4. SaveInv'
    BY <1>13
       DEF LogoutLosesReply, SaveInv, CommandsTypeOK, HoldingInv, UnsavedInv, TokenInv
  <2>5. LeftInv'
    BY <1>13
       DEF LogoutLosesReply, LeftInv, CommandsTypeOK, HoldingInv, UnsavedInv,
           TokenInv, SaveInv
  <2> QED
    BY <2>1, <2>2, <2>3, <2>4, <2>5
<1>14. ASSUME NEW o \in Logouts, LogoutDeletes(o) PROVE CommandsInv'
  <2>1. CommandsTypeOK' /\ HoldingInv'
    BY <1>14 DEF LogoutDeletes, CommandsTypeOK, HoldingInv
  <2>2. UnsavedInv' /\ TokenInv'
    BY <1>14 DEF LogoutDeletes, UnsavedInv, TokenInv, CommandsTypeOK, HoldingInv
  <2>3. SaveInv' /\ LeftInv'
    BY <1>14 DEF LogoutDeletes, SaveInv, LeftInv, CommandsTypeOK, HoldingInv
  <2> QED
    BY <2>1, <2>2, <2>3
<1>15. ASSUME NEW o \in Logouts, LogoutDeleteFails(o) PROVE CommandsInv'
  <2>1. CommandsTypeOK' /\ HoldingInv'
    BY <1>15 DEF LogoutDeleteFails, CommandsTypeOK, HoldingInv
  <2>2. UnsavedInv' /\ TokenInv' /\ SaveInv' /\ LeftInv'
    BY <1>15
       DEF LogoutDeleteFails, UnsavedInv, TokenInv, SaveInv, LeftInv, CommandsTypeOK,
           HoldingInv
  <2> QED
    BY <2>1, <2>2
<1>16. ASSUME NEW p \in Processes, EndsEarly(p) PROVE CommandsInv'
  <2>1. CommandsTypeOK' /\ HoldingInv'
    BY <1>16 DEF EndsEarly, CommandsTypeOK, HoldingInv
  <2>2. UnsavedInv' /\ TokenInv' /\ SaveInv' /\ LeftInv'
    BY <1>16
       DEF EndsEarly, UnsavedInv, TokenInv, SaveInv, LeftInv, CommandsTypeOK,
           HoldingInv
  <2> QED
    BY <2>1, <2>2
<1>17. ASSUME NEW p \in Processes, CommandSaveFails(p) PROVE CommandsInv'
  <2>1. CommandsTypeOK' /\ HoldingInv'
    BY <1>17 DEF CommandSaveFails, CommandsTypeOK, HoldingInv
  <2>2. UnsavedInv' /\ TokenInv' /\ SaveInv' /\ LeftInv'
    BY <1>17
       DEF CommandSaveFails, UnsavedInv, TokenInv, SaveInv, LeftInv, CommandsTypeOK,
           HoldingInv
  <2> QED
    BY <2>1, <2>2
<1>18. ASSUME NEW p \in Processes, CommandSaveFailsLate(p) PROVE CommandsInv'
  <2>1. CommandsTypeOK' /\ HoldingInv'
    BY <1>18 DEF CommandSaveFailsLate, CommandsTypeOK, HoldingInv
  <2>2. UnsavedInv' /\ TokenInv'
    BY <1>18 DEF CommandSaveFailsLate, UnsavedInv, TokenInv, CommandsTypeOK, HoldingInv
  <2>3. SaveInv' /\ LeftInv'
    BY <1>18 DEF CommandSaveFailsLate, SaveInv, LeftInv, CommandsTypeOK, HoldingInv
  <2> QED
    BY <2>1, <2>2, <2>3
<1>19. ASSUME NEW n \in Credentials, Expire(n) PROVE CommandsInv'
  <2>1. CommandsTypeOK' /\ HoldingInv'
    BY <1>19 DEF Expire, CommandsTypeOK, HoldingInv
  <2>2. UnsavedInv' /\ TokenInv' /\ SaveInv' /\ LeftInv'
    BY <1>19
       DEF Expire, UnsavedInv, TokenInv, SaveInv, LeftInv, CommandsTypeOK, HoldingInv
  <2> QED
    BY <2>1, <2>2
<1>20. CASE UNCHANGED commandVars
  BY <1>20 DEF commandVars, CommandsTypeOK, HoldingInv, UnsavedInv, TokenInv, SaveInv,
         LeftInv
<1> HIDE DEF CommandsInv, GoTo, registerVars, issuerVars, Processes, Credentials
<1> QED
  BY <1>1, <1>2, <1>3, <1>4, <1>5, <1>6, <1>7, <1>8, <1>9, <1>10, <1>11, <1>12, <1>13,
     <1>14, <1>15, <1>16, <1>17, <1>18, <1>19, <1>20
  DEF CommandsNext

LEMMA CommandsInvHolds == CommandsSpec => []CommandsInv
<1>1. CommandsInit => CommandsInv
  <2> SUFFICES ASSUME CommandsInit PROVE CommandsInv
    OBVIOUS
  <2> USE ProcessesAssumption
      DEF CommandsInit, OwnToken, Processes, Credentials, Kinds, Points, Finished
  <2>1. /\ kindOf \in [Credentials -> Kinds]
        /\ tokenOf \in [Credentials -> Credentials \cup {Nothing}]
    OBVIOUS
  <2>2. CommandsTypeOK /\ HoldingInv
    BY <2>1 DEF CommandsTypeOK, HoldingInv
  <2>3. UnsavedInv
    <3>1. \A p \in Processes \ Logouts : p \in Credentials /\ p # Stored
      OBVIOUS
    <3>2. saved \subseteq {Stored}
      OBVIOUS
    <3>3. \A p \in Credentials \ {Stored} : kindOf[p] = "plain"
      OBVIOUS
    <3> QED
      BY <3>1, <3>2, <3>3 DEF UnsavedInv
  <2>4. TokenInv
    BY DEF TokenInv
  <2>5. SaveInv /\ LeftInv
    BY DEF SaveInv, LeftInv
  <2> QED
    BY <2>2, <2>3, <2>4, <2>5 DEF CommandsInv
<1> QED
  BY <1>1, CommandsInvInductive, PTL DEF CommandsSpec

\* The file, the processes and the issuer keep their types; a print-token that has
\* ended without an error has printed a credential (cli.go:366-398).
THEOREM CommandsTypeCorrect == CommandsSpec => []CommandsTypeOK
<1>1. CommandsInv => CommandsTypeOK
  BY DEF CommandsInv
<1> QED
  BY <1>1, CommandsInvHolds, PTL

\* However many commands interleave, the file is not left with a refresh token its
\* endpoint has forgotten, unless a reply was lost, the file could not be replaced or
\* removed, or what was saved had already been replaced by a newer login
\* (cli.go:369-398, 301-315).
THEOREM NoDeadTokenLeftHolds == CommandsSpec => []NoDeadTokenLeft
<1>1. CommandsInv => NoDeadTokenLeft
  <2> SUFFICES ASSUME CommandsInv,
                      \A p \in Processes : at[p] \in Finished \cup {"idle"},
                      ~faults, file # Nothing, tokenOf[file] # Nothing
               PROVE  tokenOf[file] \in live \/ file \in overtaken
    BY DEF NoDeadTokenLeft
  <2>1. \A p \in Processes : at[p] \notin {"save", "delete"}
    BY DEF Finished
  <2> QED
    BY <2>1 DEF CommandsInv, LeftInv
<1> QED
  BY <1>1, CommandsInvHolds, PTL

\* What a print-token writes out has been in the file, and is fresh or was renewed
\* by itself (cli.go:369, 386-398).
THEOREM PrintsSavedAndFreshHolds == CommandsSpec => PrintsSavedAndFresh
<1> DEFINE Right ==
      \A p \in Printers :
         printed'[p] # printed[p] =>
            /\ printed'[p] \in saved'
            /\ printed'[p] = p \/ printed'[p] \notin stale
<1>1. CommandsInv /\ [CommandsNext]_commandVars => Right
  <2> SUFFICES ASSUME CommandsInv, [CommandsNext]_commandVars, NEW p \in Printers,
                      printed'[p] # printed[p]
               PROVE  /\ printed'[p] \in saved'
                      /\ printed'[p] = p \/ printed'[p] \notin stale
    OBVIOUS
  <2>1. p \in Processes /\ p \notin Logouts
    BY ProcessesAssumption DEF Processes
  <2>2. CASE PrinterChecks(p)
    BY <2>1, <2>2
       DEF CommandsInv, CommandsTypeOK, HoldingInv, Finished, PrinterChecks, Prints,
           Fresh, registerVars
  <2>3. CASE PrinterSaves(p)
    BY <2>1, <2>3
       DEF CommandsInv, CommandsTypeOK, HoldingInv, PrinterSaves, Prints
  <2>4. CASE PrinterReloads(p)
    BY <2>1, <2>4
       DEF CommandsInv, CommandsTypeOK, HoldingInv, PrinterReloads, Prints, Fresh,
           registerVars
  <2>5. \A q \in Printers : PrinterChecks(q) \/ PrinterSaves(q) \/ PrinterReloads(q)
                              => q = p
    BY DEF CommandsInv, CommandsTypeOK, PrinterChecks, PrinterSaves, PrinterReloads,
           Prints
  <2>6. \E q \in Printers : PrinterChecks(q) \/ PrinterSaves(q) \/ PrinterReloads(q)
    BY DEF CommandsNext, commandVars, PrinterLoads, PrinterRefreshes, PrinterLosesReply,
           PrinterIsRejected, LoginFlow, ImportAcquires, FirstSave, LogoutLoads,
           LogoutRevokes, LogoutLosesReply, LogoutDeletes, LogoutDeleteFails, EndsEarly,
           CommandSaveFails, CommandSaveFailsLate, Expire
  <2> QED
    BY <2>2, <2>3, <2>4, <2>5, <2>6
<1> QED
  BY <1>1, CommandsInvHolds, PTL DEF CommandsSpec, PrintsSavedAndFresh

\* The token that a logout has revoked stays dead until the file is deleted.
RevokedInv ==
    \A o \in Processes : at[o] = "delete" =>
        /\ held[o] \in saved
        /\ kindOf[held[o]] = "pkce"
        /\ held[o] \notin live

\* No step makes a credential that has been in the file another one, or its token
\* alive again.
LEMMA SavedStays ==
  ASSUME CommandsInv, [CommandsNext]_commandVars
  PROVE  /\ saved \subseteq saved'
         /\ \A n \in saved : kindOf'[n] = kindOf[n] /\ (n \in live' => n \in live)
<1> USE DEF registerVars, issuerVars
<1>t. CommandsTypeOK /\ UnsavedInv /\ HoldingInv
  BY DEF CommandsInv
<1>1. ASSUME NEW p \in Printers, PrinterRefreshes(p) \/ PrinterLosesReply(p)
      PROVE  /\ saved \subseteq saved'
             /\ \A n \in saved : kindOf'[n] = kindOf[n] /\ (n \in live' => n \in live)
  <2>1. p \notin saved
    BY <1>t, <1>1, ProcessesAssumption
       DEF PrinterRefreshes, PrinterLosesReply, UnsavedInv, Processes, Finished
  <2> QED
    BY <1>t, <1>1, <2>1
       DEF PrinterRefreshes, PrinterLosesReply, Issue, CommandsTypeOK, Credentials
<1>2. ASSUME NEW l \in Logins, LoginFlow(l)
      PROVE  /\ saved \subseteq saved'
             /\ \A n \in saved : kindOf'[n] = kindOf[n] /\ (n \in live' => n \in live)
  <2>1. l \notin saved
    BY <1>t, <1>2, ProcessesAssumption DEF LoginFlow, UnsavedInv, Processes, Finished
  <2> QED
    BY <1>t, <1>2, <2>1 DEF LoginFlow, OwnToken, CommandsTypeOK, Credentials
<1>3. ASSUME NEW o \in Logouts, LogoutRevokes(o) \/ LogoutLosesReply(o)
      PROVE  /\ saved \subseteq saved'
             /\ \A n \in saved : kindOf'[n] = kindOf[n] /\ (n \in live' => n \in live)
  BY <1>3 DEF LogoutRevokes, LogoutLosesReply
<1>4. CASE /\ UNCHANGED <<kindOf, live>>
           /\ saved \subseteq saved'
  BY <1>4
<1> QED
  BY <1>1, <1>2, <1>3, <1>4
     DEF CommandsNext, commandVars, PrinterLoads, PrinterChecks, PrinterIsRejected,
         PrinterSaves, PrinterReloads, ImportAcquires, FirstSave, LogoutLoads,
         LogoutDeletes, LogoutDeleteFails, EndsEarly, CommandSaveFails,
         CommandSaveFailsLate, Expire

\* A process comes to delete only by a revocation, and holds what it held until then.
LEMMA ComesToDelete ==
  ASSUME CommandsInv, [CommandsNext]_commandVars, NEW o \in Processes,
         at'[o] = "delete"
  PROVE  /\ held'[o] = held[o]
         /\ at[o] = "delete" \/ (o \in Logouts /\ LogoutRevokes(o))
  BY ProcessesAssumption
     DEF CommandsInv, CommandsTypeOK, CommandsNext, commandVars, PrinterLoads,
         PrinterChecks, PrinterRefreshes, PrinterLosesReply, PrinterIsRejected,
         PrinterSaves, PrinterReloads, LoginFlow, ImportAcquires, FirstSave,
         LogoutLoads, LogoutRevokes, LogoutLosesReply, LogoutDeletes,
         LogoutDeleteFails, EndsEarly, CommandSaveFails, CommandSaveFailsLate, Expire,
         GoTo, Holds, Prints, Processes, Finished

LEMMA RevokedInvHolds == CommandsSpec => []RevokedInv
<1>1. CommandsInit => RevokedInv
  BY DEF CommandsInit, RevokedInv
<1>2. CommandsInv /\ RevokedInv /\ [CommandsNext]_commandVars => RevokedInv'
  <2> SUFFICES ASSUME CommandsInv, RevokedInv, [CommandsNext]_commandVars,
                      NEW o \in Processes, at'[o] = "delete"
               PROVE  /\ held'[o] \in saved'
                      /\ kindOf'[held'[o]] = "pkce"
                      /\ held'[o] \notin live'
    BY DEF RevokedInv
  <2>1. held'[o] = held[o]
    BY ComesToDelete
  <2>2. CASE at[o] = "delete"
    BY <2>1, <2>2, SavedStays DEF RevokedInv
  <2>3. CASE o \in Logouts /\ LogoutRevokes(o)
    <3>1. at[o] = "revoke" /\ held[o] \in saved /\ kindOf[held[o]] = "pkce"
      BY <2>3 DEF LogoutRevokes, CommandsInv, HoldingInv, Finished
    <3>2. tokenOf[held[o]] = held[o]
      BY <3>1 DEF CommandsInv, TokenInv, CommandsTypeOK
    <3>3. held[o] \notin live'
      BY <2>3, <3>2 DEF LogoutRevokes
    <3> QED
      BY <2>1, <3>1, <3>3, SavedStays
  <2> QED
    BY <2>2, <2>3, ComesToDelete
<1> QED
  BY <1>1, <1>2, CommandsInvHolds, PTL DEF CommandsSpec

\* However many commands interleave, a logout that has revoked the token it loaded
\* deletes no live one, unless another command has replaced the credential meanwhile
\* (cli.go:300-315).
THEOREM LogoutRevokesWhatItDeletesHolds == CommandsSpec => LogoutRevokesWhatItDeletes
<1> DEFINE Right ==
      \A o \in Logouts :
         at[o] = "delete" /\ at'[o] = "done" /\ file = held[o] =>
            tokenOf[file] \notin live
<1>1. CommandsInv /\ RevokedInv => Right
  <2> SUFFICES ASSUME CommandsInv, RevokedInv, NEW o \in Logouts, at[o] = "delete"
               PROVE  tokenOf[held[o]] \notin live
    OBVIOUS
  <2>1. held[o] \in saved /\ kindOf[held[o]] = "pkce" /\ held[o] \notin live
    BY DEF RevokedInv, Processes
  <2>2. tokenOf[held[o]] = held[o]
    BY <2>1 DEF CommandsInv, TokenInv, CommandsTypeOK
  <2> QED
    BY <2>1, <2>2
<1> QED
  BY <1>1, CommandsInvHolds, RevokedInvHolds, PTL DEF LogoutRevokesWhatItDeletes
==============================================================================
