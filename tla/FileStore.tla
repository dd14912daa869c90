----------------------------- MODULE FileStore -----------------------------
(***************************************************************************)
(* tokenstore.FileStore on a POSIX file system: Save makes the directory   *)
(* if there is none, writes a temporary file, syncs it, renames it over    *)
(* the credential file and syncs the directory, but never the directory's  *)
(* parent; Load opens the file and reads it; Delete removes it.  Calls of  *)
(* several processes interleave between system calls, any process may be   *)
(* killed and the machine may crash.                                       *)
(*                                                                         *)
(* A Save creates one file, so a file (an inode) and the credential in it  *)
(* carry the name of the Save that wrote it.  Every context check and      *)
(* failing system call of Save before the rename has the same effect, the  *)
(* deferred removal of the temporary file and an error: SaveFails.         *)
(***************************************************************************)
EXTENDS Integers

CONSTANTS
    Saves,       \* calls of Save, by any process
    Loads,       \* calls of Load
    Deletes,     \* calls of Delete
    Initial,     \* the credential file there may be at first
    NoFile,      \* no file
    MaxCrashes   \* bound on the crashes of the machine

ASSUME CallsAssumption ==
    /\ Saves \cap Loads = {} /\ Saves \cap Deletes = {}
    /\ Loads \cap Deletes = {}
    /\ Initial \notin Saves
    /\ NoFile \notin Saves \cup {Initial}
ASSUME MaxCrashesAssumption == MaxCrashes \in Nat

Callers == Saves \cup Loads \cup Deletes
Files == Saves \cup {Initial}

VARIABLES
    directory,  \* the credential directory: absent, made by a Save, or durable
    path,       \* the file that s.path names, or NoFile
    onDisk,     \* external: what s.path may name after a crash
    temps,      \* the temporary files in the directory
    tempsOnDisk,\* external: the temporary files there may be after a crash
    content,    \* what each file holds
    synced,     \* the files whose content is on disk
    pc,         \* where each call is
    opened,     \* the file a Load has open
    crashes,    \* the number of crashes
    past,       \* history: every file s.path has named
    outdated    \* history: files replaced for good when a Save succeeded

vars == <<directory, path, onDisk, temps, tempsOnDisk, content, synced, pc, opened,
          crashes, past, outdated>>

\* What only Save, Delete and a crash move.
pathVars == <<directory, path, onDisk, past, outdated>>
tempVars == <<temps, tempsOnDisk>>
fileVars == <<tempVars, content, synced>>

Unrenamed == {"prepared", "created", "written", "synced", "closed"}
Running == Unrenamed \cup {"renamed", "opened"}
Locations == Running \cup {"idle", "ok", "error", "torn", "dead"}
Contents == {"empty", "partial", "complete"}

TypeOK ==
    /\ directory \in {"absent", "made", "durable"}
    /\ path \in Files \cup {NoFile}
    /\ onDisk \in SUBSET (Files \cup {NoFile})
    /\ temps \in SUBSET Saves
    /\ tempsOnDisk \in SUBSET Saves
    /\ content \in [Files -> Contents]
    /\ synced \in SUBSET Files
    /\ pc \in [Callers -> Locations]
    /\ opened \in [Loads -> Files \cup {NoFile}]
    /\ \A l \in Loads : pc[l] = "opened" => opened[l] # NoFile
    /\ crashes \in Nat
    /\ past \in SUBSET Files
    /\ outdated \in SUBSET Files

Init ==
    /\ path \in {Initial, NoFile}
    /\ directory = "durable" \/ (directory = "absent" /\ path = NoFile)
    /\ onDisk = {path}
    /\ temps = {}
    /\ tempsOnDisk = {}
    /\ content = [f \in Files |-> IF f = Initial THEN "complete" ELSE "empty"]
    /\ synced = {Initial}
    /\ pc = [c \in Callers |-> "idle"]
    /\ opened = [l \in Loads |-> NoFile]
    /\ crashes = 0
    /\ past = {path} \cap Files
    /\ outdated = {}

---------------------------------------------------------------------------
Moves(c, from, to) ==
    /\ pc[c] = from
    /\ pc' = [pc EXCEPT ![c] = to]

\* preparePrivateDirectory(dir): MkdirAll, when there is no directory.
PrepareDirectory(s) ==
    /\ Moves(s, "idle", "prepared")
    /\ directory' = IF directory = "absent" THEN "made" ELSE directory
    /\ UNCHANGED <<path, onDisk, past, outdated, fileVars, opened, crashes>>

\* os.CreateTemp in the credential directory, and its mode.
Create(s) ==
    /\ Moves(s, "prepared", "created")
    /\ temps' = temps \cup {s}
    /\ tempsOnDisk' = tempsOnDisk \cup {s}
    /\ UNCHANGED <<pathVars, content, synced, opened, crashes>>

\* json.NewEncoder(file).Encode(saved)
Encode(s) ==
    /\ Moves(s, "created", "written")
    /\ content' = [content EXCEPT ![s] = "complete"]
    /\ UNCHANGED <<pathVars, tempVars, synced, opened, crashes>>

\* Mutant: the file is not synced before it is closed.
SyncSkipped(s) ==
    /\ Moves(s, "written", "synced")
    /\ UNCHANGED <<pathVars, fileVars, opened, crashes>>

\* file.Sync()
Sync(s) ==
    /\ Moves(s, "written", "synced")
    /\ synced' = synced \cup {s}
    /\ UNCHANGED <<pathVars, tempVars, content, opened, crashes>>

\* file.Close()
Close(s) ==
    /\ Moves(s, "synced", "closed")
    /\ UNCHANGED <<pathVars, fileVars, opened, crashes>>

\* os.Rename(tempPath, s.path); the directory is on disk only once synced.
Rename(s) ==
    /\ Moves(s, "closed", "renamed")
    /\ path' = s
    /\ onDisk' = onDisk \cup {s}
    /\ temps' = temps \ {s}
    /\ past' = past \cup {s}
    /\ UNCHANGED <<directory, tempsOnDisk, content, synced, opened, crashes, outdated>>

\* Mutant: success is returned without syncing the directory.
SyncDirectorySkipped(s) ==
    /\ Moves(s, "renamed", "ok")
    /\ outdated' = past \ {path}
    /\ UNCHANGED <<directory, path, onDisk, past, fileVars, opened, crashes>>

\* syncDirectory(dir), and success.
SyncDirectory(s) ==
    /\ Moves(s, "renamed", "ok")
    /\ onDisk' = {path}
    /\ tempsOnDisk' = temps
    /\ outdated' = past \ {path}
    /\ UNCHANGED <<directory, path, past, temps, content, synced, opened, crashes>>

\* Mutant: an early return leaves the temporary file.
SaveFailsLeavingTemp(s) ==
    /\ pc[s] \in {"idle"} \cup Unrenamed
    /\ pc' = [pc EXCEPT ![s] = "error"]
    /\ UNCHANGED <<pathVars, fileVars, opened, crashes>>

\* A context check, an unfit credential or directory, or a system call fails.
SaveFails(s) ==
    /\ pc[s] \in {"idle"} \cup Unrenamed
    /\ pc' = [pc EXCEPT ![s] = "error"]
    /\ temps' = temps \ {s}
    /\ UNCHANGED <<pathVars, tempsOnDisk, content, synced, opened, crashes>>

\* The directory cannot be synced: an error, though the file is replaced.
SyncDirectoryFails(s) ==
    /\ Moves(s, "renamed", "error")
    /\ UNCHANGED <<pathVars, fileVars, opened, crashes>>

---------------------------------------------------------------------------
\* openCredentialFile, and the check of the modes of the open file.
Open(l) ==
    /\ Moves(l, "idle", "opened")
    /\ path # NoFile
    /\ opened' = [opened EXCEPT ![l] = path]
    /\ UNCHANGED <<pathVars, fileVars, crashes>>

\* io.ReadAll of the open file, and the decoder's verdict on what it read.
ReadAll(l) ==
    /\ Moves(l, "opened",
             IF content[opened[l]] = "complete" THEN "ok" ELSE "torn")
    /\ UNCHANGED <<pathVars, fileVars, opened, crashes>>

\* ErrNoCredential, a context check, the modes, or a read error.
LoadFails(l) ==
    /\ pc[l] \in {"idle", "opened"}
    /\ pc' = [pc EXCEPT ![l] = "error"]
    /\ UNCHANGED <<pathVars, fileVars, opened, crashes>>

\* os.Remove(s.path), which succeeds when the file is already absent.
Remove(d) ==
    /\ Moves(d, "idle", "ok")
    /\ path' = NoFile
    /\ onDisk' = onDisk \cup {NoFile}
    /\ UNCHANGED <<directory, past, outdated, fileVars, opened, crashes>>

DeleteFails(d) ==
    /\ Moves(d, "idle", "error")
    /\ UNCHANGED <<pathVars, fileVars, opened, crashes>>

---------------------------------------------------------------------------
\* The environment.  A process is killed: nothing deferred runs.
Kill(c) ==
    /\ pc[c] \in Running
    /\ pc' = [pc EXCEPT ![c] = "dead"]
    /\ UNCHANGED <<pathVars, fileVars, opened, crashes>>

\* What a crash leaves of a file that was not synced.
Survives(f) ==
    IF f \in synced \/ content[f] = "empty" THEN {content[f]} ELSE Contents

\* The directory is still there after the crash, in some state since it was last
\* synced.
DirectorySurvives ==
    /\ directory' = IF directory = "absent" THEN "absent" ELSE "durable"
    /\ path' \in onDisk
    /\ temps' \in SUBSET tempsOnDisk

\* A directory that a Save has made goes with its parent, which nobody has synced,
\* and the credential with it.
DirectoryIsLost ==
    /\ directory = "made"
    /\ directory' = "absent"
    /\ path' = NoFile
    /\ temps' = {}

\* The machine crashes: every process dies and unsynced content may be missing.
Crash ==
    /\ crashes < MaxCrashes
    /\ crashes' = crashes + 1
    /\ DirectorySurvives \/ DirectoryIsLost
    /\ onDisk' = {path'}
    /\ past' = past
    /\ tempsOnDisk' = temps'
    /\ content' \in [Files -> Contents]
    /\ \A f \in Files : content'[f] \in Survives(f)
    /\ synced' = Files
    /\ pc' = [c \in Callers |-> IF pc[c] \in Running THEN "dead" ELSE pc[c]]
    /\ UNCHANGED <<opened, outdated>>

Next ==
    \/ \E s \in Saves :
          \/ PrepareDirectory(s) \/ Create(s) \/ Encode(s) \/ Sync(s) \/ Close(s)
          \/ Rename(s) \/ SyncDirectory(s) \/ SaveFails(s) \/ SyncDirectoryFails(s)
    \/ \E l \in Loads : Open(l) \/ ReadAll(l) \/ LoadFails(l)
    \/ \E d \in Deletes : Remove(d) \/ DeleteFails(d)
    \/ \E c \in Callers : Kill(c)
    \/ Crash

Spec == Init /\ [][Next]_vars

---------------------------------------------------------------------------
\* No Load ever finds part of a credential, whatever crashed before: a file has
\* its whole content on disk before s.path names it
\* (tokenstore/file.go:199-221).
NeverTorn == \A l \in Loads : pc[l] # "torn"

\* Once a Save has returned nil no crash brings back a credential it replaced:
\* a rotated refresh token, dead at its issuer, stays replaced
\* (tokenstore/file.go:216-225).
NoRollbackPastSave == path \notin outdated

\* A temporary file is there only while its Save runs, or because it could not
\* run to its end, or because a crash undid the removal or the rename of a Save
\* that failed; a Save that succeeded leaves none, crash or not
\* (tokenstore/file.go:185-190).
NoStrayTemp ==
    \A s \in temps :
        \/ pc[s] \in Unrenamed \cup {"dead"}
        \/ pc[s] = "error" /\ crashes > 0

\* The file store is one register (CredentialRegister): the inodes, the
\* temporary files and their content do not show.
PhaseOf(location) ==
    CASE location \in Unrenamed -> "pending"
      [] location \in {"renamed", "opened"} -> "applied"
      [] OTHER -> location

Phase == [c \in Callers |-> PhaseOf(pc[c])]

\* A crash may also take the directory, unless it is durable.
Recoverable == onDisk \cup (IF directory = "durable" THEN {} ELSE {NoFile})

Register == INSTANCE CredentialRegister WITH
    value <- path,
    recoverable <- Recoverable,
    firm <- directory = "durable",
    phase <- Phase,
    answer <- opened
ActsAsRegister == Register!RegisterSpec
===========================================================================
