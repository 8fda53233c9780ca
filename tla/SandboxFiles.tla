----------------------------- MODULE SandboxFiles -----------------------------
(***************************************************************************)
(* The files of one session: in its sandbox, a container that may go away  *)
(* at any time, and in the object storage, whose copies the session lists. *)
(* The task runner copies what its user attaches into the sandbox and what *)
(* its agent touches out of it, one step after the other; any of them may  *)
(* fail, and a cancelled run takes none of those left.                     *)
(***************************************************************************)
EXTENDS Naturals, FiniteSets

CONSTANTS
  Paths, UploadPath,  \* paths in a sandbox; all attachments have one name
  Contents, Absent,
  NoBox, NoFile,
  MaxBoxes, MaxFiles, \* bounds: containers started, files uploaded,
  MaxTouches          \* ... and touched or attached

Boxes == 1..MaxBoxes
FileIds == 1..MaxFiles

ASSUME SandboxAssumption ==
  /\ MaxBoxes \in Nat /\ NoBox \notin Boxes
  /\ MaxFiles \in Nat /\ NoFile \notin FileIds
  /\ UploadPath \in Paths /\ Absent \notin Contents

VARIABLES
  running,    \* containers that run
  disk,       \* disk[b][p] is what container b holds at path p
  born,       \* containers started so far
  sandboxId,  \* on the session's row
  runner,     \* the task runner and how far it is
  files,      \* files on the session's row, with the touches after which they were added
  objects,    \* what the storage holds of each file
  fileRows,   \* files with a row of their own
  uploads,    \* files uploaded so far
  touches,    \* files touched or attached so far
  synced,     \* what the last copy of a path, had it come to its end, was
  forgotten   \* containers whose name was never written down, or written over

fileVars == <<running, disk, born, sandboxId, runner, files, objects, fileRows,
              uploads, touches, synced, forgotten>>
boxVars == <<running, disk, born, sandboxId, forgotten>>
listVars == <<files, objects, fileRows, uploads, touches, synced>>

NoRunner == [at |-> "none", box |-> NoBox, path |-> UploadPath, id |-> NoFile, data |-> Absent]

EmptyDisk == [p \in Paths |-> Absent]
Working == [NoRunner EXCEPT !.at = "working", !.box = runner.box]

FilesInit ==
  /\ running = {} /\ forgotten = {} /\ born = 0
  /\ disk = [b \in Boxes |-> EmptyDisk]
  /\ sandboxId = NoBox
  /\ runner = NoRunner
  /\ files = {}
  /\ objects = [f \in FileIds |-> Absent]
  /\ fileRows = {} /\ uploads = 0 /\ touches = 0
  /\ synced = [p \in Paths |-> Absent]

-----------------------------------------------------------------------------
(* The sandbox.                                                            *)

\* What DockerSandbox.get finds: nothing, too, when Docker does not answer.
GetSandbox(b) == {NoBox} \cup ({b} \cap running)

StartsContainer ==
  /\ born < MaxBoxes
  /\ born' = born + 1
  /\ running' = running \cup {born'}

\* A container that runs when no address of it can be read is lost.
CreateFails ==
  /\ runner.at = "none"
  /\ StartsContainer
  /\ forgotten' = forgotten \cup {born'}
  /\ UNCHANGED <<disk, sandboxId, runner, listVars>>

\* _create_task, up to the save of the session.
ObtainsSandbox ==
  /\ runner.at = "none"
  /\ \E b \in GetSandbox(sandboxId) :
       IF b # NoBox
       THEN runner' = [runner EXCEPT !.at = "creating", !.box = b] /\ UNCHANGED <<running, born>>
       ELSE /\ StartsContainer
            /\ runner' = [runner EXCEPT !.at = "creating", !.box = born']
  /\ UNCHANGED <<disk, sandboxId, forgotten, listVars>>

\* Mutant of IdToSave: a sandbox that the session names already is not replaced.
MutIdToSave(old, b) == IF old = NoBox THEN b ELSE old

IdToSave(old, b) == b

SavesSandboxId ==
  /\ runner.at = "creating"
  /\ sandboxId' = IdToSave(sandboxId, runner.box)
  /\ forgotten' = forgotten \cup ((running \cap {sandboxId}) \ {runner.box})
  /\ runner' = [runner EXCEPT !.at = "created"]
  /\ UNCHANGED <<running, disk, born, listVars>>

\* No browser, or the request goes away.
CreationCut ==
  /\ runner.at = "creating"
  /\ forgotten' = forgotten \cup ({runner.box} \ {sandboxId})
  /\ runner' = NoRunner
  /\ UNCHANGED <<running, disk, born, sandboxId, listVars>>

\* The run begins once all services answer; after thirty attempts it fails.
EnsuresSandbox ==
  /\ runner.at = "created"
  /\ \/ runner.box \in running /\ runner' = Working
     \/ runner' = NoRunner
  /\ UNCHANGED <<boxVars, listVars>>

\* Its time is up.
ContainerStops(b) ==
  /\ b \in running
  /\ running' = running \ {b}
  /\ disk' = [disk EXCEPT ![b] = EmptyDisk]
  /\ UNCHANGED <<born, sandboxId, forgotten, runner, listVars>>

\* Shutdown cancels the run and removes the container.
DestroysSandbox ==
  /\ runner.at \notin {"none", "creating"}
  /\ running' = running \ {runner.box}
  /\ disk' = [disk EXCEPT ![runner.box] = EmptyDisk]
  /\ runner' = NoRunner
  /\ UNCHANGED <<born, sandboxId, forgotten, listVars>>

-----------------------------------------------------------------------------
(* The storage.                                                            *)

\* The object first, then its row.
UploadOutcomes ==
  {[put |-> TRUE, saved |-> TRUE], [put |-> TRUE, saved |-> FALSE], [put |-> FALSE, saved |-> FALSE]}

UploadFile(c, o) ==
  /\ uploads < MaxFiles
  /\ uploads' = uploads + 1
  /\ objects' = IF o.put THEN [objects EXCEPT ![uploads'] = c] ELSE objects
  /\ fileRows' = IF o.saved THEN fileRows \cup {uploads'} ELSE fileRows

UserUploads(c) ==
  /\ \E o \in UploadOutcomes : UploadFile(c, o)
  /\ UNCHANGED <<boxVars, runner, files, touches, synced>>

\* The first of the files listed under a path, or none.
FileByPath(fs, p) ==
  LET listed == {e \in fs : e.path = p}
  IN IF listed = {} THEN {NoFile} ELSE {e.id : e \in {x \in listed : \A y \in listed : x.at <= y.at}}

RemoveFile(fs, id) == {e \in fs : e.id # id}

\* A file goes to the end of the list: whatever is there was touched before.
ListFile(fs, id, p) == fs \cup {[id |-> id, path |-> p, at |-> touches]}

-----------------------------------------------------------------------------
(* Into the sandbox.                                                       *)

Touches ==
  /\ touches < MaxTouches /\ touches' = touches + 1
  /\ UNCHANGED <<files, objects, fileRows, uploads>>

\* An attachment that cannot be downloaded or copied is left out of the message.
DownloadsAttachment(f) ==
  /\ runner.at = "working" /\ f \in fileRows
  /\ runner' = [runner EXCEPT !.at = "fetched", !.id = f, !.data = objects[f]]
  /\ synced' = [p \in Paths |-> IF \E e \in files : e.id = f /\ e.path = p THEN Absent ELSE synced[p]]
  /\ Touches
  /\ UNCHANGED boxVars

UploadsAttachment ==
  /\ runner.at = "fetched" /\ runner.box \in running
  /\ disk' = [disk EXCEPT ![runner.box][UploadPath] = runner.data]
  /\ runner' = [runner EXCEPT !.at = "written"]
  /\ UNCHANGED <<running, born, sandboxId, forgotten, listVars>>

SavesAttachment ==
  /\ runner.at = "written"
  /\ fileRows' = fileRows \cup {runner.id}
  /\ runner' = [runner EXCEPT !.at = "copied"]
  /\ UNCHANGED <<boxVars, files, objects, uploads, touches, synced>>

AddsAttachment ==
  /\ runner.at = "copied" /\ Cardinality(files) <= MaxFiles
  /\ files' = ListFile(files, runner.id, UploadPath)
  /\ runner' = Working
  /\ UNCHANGED <<boxVars, objects, fileRows, uploads, touches, synced>>

-----------------------------------------------------------------------------
(* Out of it.                                                              *)

RunsShell(p, c) ==
  /\ runner.at = "working" /\ runner.box \in running
  /\ Touches
  /\ disk' = [disk EXCEPT ![runner.box][p] = c]
  /\ UNCHANGED <<running, born, sandboxId, forgotten, runner, synced>>

\* The agent writes or reads a file, or tries to, or shows it to the user: the
\* runner looks for the copy that the session has.
TouchesFile(p) ==
  /\ runner.at = "working"
  /\ \/ UNCHANGED disk
     \/ runner.box \in running /\ \E c \in Contents : disk' = [disk EXCEPT ![runner.box][p] = c]
  /\ Touches
  /\ \E i \in FileByPath(files, p) :
       runner' = [runner EXCEPT !.at = "found", !.path = p, !.id = i]
  /\ UNCHANGED <<running, born, sandboxId, forgotten, synced>>

DownloadsFile ==
  /\ runner.at = "found"
  /\ runner.box \in running /\ disk[runner.box][runner.path] # Absent
  /\ runner' = [runner EXCEPT !.at = "loaded", !.data = disk[runner.box][runner.path]]
  /\ UNCHANGED <<boxVars, listVars>>

RemovesOldCopy ==
  /\ runner.at = "loaded"
  /\ files' = IF runner.id = NoFile THEN files ELSE RemoveFile(files, runner.id)
  /\ runner' = [runner EXCEPT !.at = "removed"]
  /\ synced' = [synced EXCEPT ![runner.path] = Absent]
  /\ UNCHANGED <<boxVars, objects, fileRows, uploads, touches>>

\* Mutant of Returns: a file whose upload failed is returned all the same.
MutReturns(o) == TRUE

Returns(o) == o.saved

UploadsCopy ==
  /\ runner.at = "removed"
  /\ \E o \in UploadOutcomes :
       /\ UploadFile(runner.data, o)
       /\ runner' = IF Returns(o) THEN [runner EXCEPT !.at = "stored", !.id = uploads']
                    ELSE [runner EXCEPT !.at = "working"]
  /\ UNCHANGED <<boxVars, files, touches, synced>>

AddsCopy ==
  /\ runner.at = "stored" /\ Cardinality(files) <= MaxFiles
  /\ files' = ListFile(files, runner.id, runner.path)
  /\ synced' = [synced EXCEPT ![runner.path] = runner.data]
  /\ runner' = Working
  /\ UNCHANGED <<boxVars, objects, fileRows, uploads, touches>>

\* A step fails: the copy is given up where it is, and the run goes on.
CopyFails ==
  /\ runner.at \in {"found", "loaded", "removed", "stored", "fetched", "written", "copied"}
  /\ runner' = Working
  /\ UNCHANGED <<boxVars, listVars>>

\* The run is over, by itself or cancelled.
RunLeaves ==
  /\ runner.at \notin {"none", "creating", "created"}
  /\ runner' = NoRunner
  /\ UNCHANGED <<boxVars, listVars>>

FilesNext ==
  \/ CreateFails \/ ObtainsSandbox \/ SavesSandboxId \/ CreationCut \/ EnsuresSandbox
  \/ \E b \in Boxes : ContainerStops(b)
  \/ DestroysSandbox
  \/ \E c \in Contents : UserUploads(c)
  \/ \E f \in FileIds : DownloadsAttachment(f)
  \/ UploadsAttachment \/ SavesAttachment \/ AddsAttachment
  \/ \E p \in Paths : TouchesFile(p) \/ \E c \in Contents : RunsShell(p, c)
  \/ DownloadsFile \/ RemovesOldCopy \/ UploadsCopy \/ AddsCopy \/ CopyFails \/ RunLeaves

FilesSpec == FilesInit /\ [][FilesNext]_fileVars

-----------------------------------------------------------------------------
(* Properties.                                                             *)

\* Every file that the session lists can be downloaded.  A path that is no
\* attachment's is listed once at most, however its copies were cut short, and if
\* its last copy came to its end, it is listed with what the sandbox held then (one
\* that was attached to a message in its turn is no longer followed).
ListedFilesAreCurrent ==
  /\ \A e \in files : e.id \in fileRows /\ objects[e.id] # Absent
  /\ \A p \in Paths \ {UploadPath} :
       LET listed == {e \in files : e.path = p}
       IN /\ Cardinality(listed) <= 1
          /\ synced[p] # Absent => \E e \in listed : objects[e.id] = synced[p]

\* A container that runs is the session's or the runner's, so that the next task
\* takes it again or shutdown removes it, unless its creation was cut short or
\* Docker did not answer for it when another was started.
RunningSandboxesAreKnown == running \subseteq {sandboxId, runner.box} \cup forgotten
=============================================================================
