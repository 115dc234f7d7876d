------------------------------- MODULE RunFiles -------------------------------
(***************************************************************************)
(* The files of a session's Runs: an input the user uploads and a Run stages *)
(* (application/input_artifacts.py), the artifacts its tool and its end      *)
(* publish (runtime/artifact_tools.py, application/artifacts.py) and the     *)
(* snapshots of the workspace that a Run leaves to the next one              *)
(* (application/workspaces.py), in the order of RunOrchestrator.execute.     *)
(* Runs of a session execute one after the other; every step of them may     *)
(* fail, and the worker may crash, after which the Run executes again.       *)
(*                                                                           *)
(* A content is <<run, n>>, the nth text that Run wrote; NoFile: no file.    *)
(***************************************************************************)
EXTENDS Naturals, Sequences, FiniteSets

CONSTANTS Output,       \* paths under outputs/
          MaxRuns,      \* bound: Runs of the session
          MaxWrites,    \* bound: writes of a Run
          MaxMishaps    \* bound: failing steps and crashes

VARIABLES input,        \* the uploaded file: [status, object]
          artifacts,    \* [run, file, content, status, object, quota]
          ready,        \* artifact.ready events: [run, file, row]
          snapshots,    \* [files, object, row, quota], in the order of created_at
          exec,         \* the execution of the present Run
          ended,        \* Runs that ended: [ok, left: the files, base: their baseline]
          mishaps

fileVars == <<input, artifacts, ready, snapshots, exec, ended, mishaps>>

NoFile == <<0, 0>>
Empty == [f \in Output |-> NoFile]
ThisRun == Len(ended) + 1
NoExec == [pc |-> "idle", ok |-> TRUE, staged |-> FALSE, disk |-> Empty, base |-> Empty,
           writes |-> 0, row |-> 0, step |-> "none", back |-> "none"]

FilesInit ==
  /\ input = [status |-> "none", object |-> FALSE]
  /\ artifacts = << >> /\ ready = {} /\ snapshots = << >>
  /\ exec = NoExec /\ ended = << >> /\ mishaps = 0

Mishap == mishaps < MaxMishaps /\ mishaps' = mishaps + 1
ExecAt(pc) == exec.pc = pc /\ exec.step = "none"
StoreRests == UNCHANGED <<input, artifacts, ready, snapshots, ended>>

-----------------------------------------------------------------------------
(* InputArtifactService.upload: the row, the object, the row again.  A bound  *)
(* of the model: the file is uploaded before the session's first execution.   *)
UploadInput ==
  /\ input.status = "none" /\ exec = NoExec /\ ended = << >>
  /\ input' = [input EXCEPT !.status = "pending"]
  /\ UNCHANGED <<artifacts, ready, snapshots, exec, ended, mishaps>>

StoreInput ==
  /\ input.status = "pending" /\ ~input.object
  /\ \/ input' = [input EXCEPT !.object = TRUE] /\ UNCHANGED mishaps
     \/ input' = [input EXCEPT !.status = "failed"] /\ Mishap
  /\ UNCHANGED <<artifacts, ready, snapshots, exec, ended>>

ReadyInput ==
  /\ input.status = "pending" /\ input.object
  /\ input' = [input EXCEPT !.status = "ready"]
  /\ UNCHANGED <<artifacts, ready, snapshots, exec, ended, mishaps>>

-----------------------------------------------------------------------------
(* The beginning of an execution                                             *)

(* PostgresWorkspaceSnapshotRepository.latest: rows only                     *)
Latest == LET rows == {i \in DOMAIN snapshots : snapshots[i].row}
          IN IF rows = {} THEN 0 ELSE CHOOSE i \in rows : \A j \in rows : j <= i

(* WorkspaceService.restore: the archive is checked whole, then unpacked.     *)
Restored == IF Latest = 0 THEN Empty ELSE snapshots[Latest].files

(* restore_latest; stage_for_run reads the input, which the message names    *)
(* when resolve_for_run finds it ready.                                      *)
StartRun ==
  /\ exec.pc = "idle" /\ ThisRun <= MaxRuns /\ input.status \in {"ready", "failed"}
  /\ exec' = [NoExec EXCEPT !.pc = "work", !.disk = Restored, !.base = Restored,
                            !.staged = input.status = "ready", !.writes = exec.writes]
  /\ StoreRests /\ UNCHANGED mishaps

(* A failure before the baseline is taken: nothing is recovered.             *)
StartFails ==
  /\ exec.pc = "idle" /\ ThisRun <= MaxRuns /\ input.status = "ready" /\ Mishap
  /\ exec' = [NoExec EXCEPT !.pc = "settle", !.ok = FALSE]
  /\ StoreRests

(* The runtime writes a file.                                                *)
WriteFile(f) ==
  /\ ExecAt("work") /\ exec.writes < MaxWrites
  /\ exec' = [exec EXCEPT !.disk[f] = <<ThisRun, exec.writes + 1>>, !.writes = @ + 1]
  /\ StoreRests /\ UNCHANGED mishaps

RuntimeEnds(ok) ==
  /\ ExecAt("work")
  /\ exec' = [exec EXCEPT !.pc = "publish", !.ok = ok]
  /\ StoreRests /\ UNCHANGED mishaps

-----------------------------------------------------------------------------
(* ArtifactService.upload, and the event that announces the artifact         *)

UploadAt(step) == exec.step = step
Row == artifacts[exec.row]
SetRow(row) == artifacts' = [artifacts EXCEPT ![exec.row] = row]
UploadRest == UNCHANGED <<input, snapshots, ended>>

(* Quota is reserved; a refused reservation leaves nothing.                  *)
BeginUpload(f, back) ==
  /\ artifacts' = Append(artifacts, [run |-> ThisRun, file |-> f, content |-> exec.disk[f],
                                     status |-> "none", object |-> FALSE, quota |-> "reserved"])
  /\ exec' = [exec EXCEPT !.step = "add", !.row = Len(artifacts'), !.back = back]
  /\ UploadRest /\ UNCHANGED <<ready, mishaps>>

AddPending ==
  /\ UploadAt("add")
  /\ SetRow([Row EXCEPT !.status = "pending"])
  /\ exec' = [exec EXCEPT !.step = "put"]
  /\ UploadRest /\ UNCHANGED <<ready, mishaps>>

PutObject ==
  /\ UploadAt("put")
  /\ SetRow([Row EXCEPT !.object = TRUE])
  /\ exec' = [exec EXCEPT !.step = "update"]
  /\ UploadRest /\ UNCHANGED <<ready, mishaps>>

UpdateReady ==
  /\ UploadAt("update")
  /\ SetRow([Row EXCEPT !.status = "ready"])
  /\ exec' = [exec EXCEPT !.step = "commit"]
  /\ UploadRest /\ UNCHANGED <<ready, mishaps>>

CommitBytes ==
  /\ UploadAt("commit")
  /\ SetRow([Row EXCEPT !.quota = "committed"])
  /\ exec' = [exec EXCEPT !.step = "announce"]
  /\ UploadRest /\ UNCHANGED <<ready, mishaps>>

Announce ==
  /\ UploadAt("announce")
  /\ ready' = ready \cup {[run |-> ThisRun, file |-> Row.file, row |-> exec.row]}
  /\ exec' = [exec EXCEPT !.step = "none", !.row = 0, !.pc = exec.back]
  /\ UploadRest /\ UNCHANGED <<artifacts, mishaps>>

(* Mutant of FailedRow: a failing put leaves the row as it is about to be.   *)
FailedRowReady(row, step) ==
  IF step = "put" THEN [row EXCEPT !.status = "ready", !.quota = "committed"] ELSE row

(* The row after a failing step: add and put release the quota, and put marks *)
(* the row; a failing update or commit leaves the reservation to the reaper.  *)
FailedRow(row, step) ==
  IF step = "add" THEN [row EXCEPT !.quota = "released"]
  ELSE IF step = "put" THEN [row EXCEPT !.status = "failed", !.quota = "released"]
  ELSE row

(* The tool answers with an error; at the end of a Run the execution fails   *)
(* and is recovered, and a recovery goes on without.                         *)
UploadFails ==
  /\ exec.step \in {"add", "put", "update", "commit", "announce"} /\ Mishap
  /\ SetRow(FailedRow(Row, exec.step))
  /\ exec' = [exec EXCEPT !.step = "none", !.row = 0, !.ok = @ /\ exec.back = "work",
                !.pc = IF exec.back = "work" THEN "work"
                       ELSE IF exec.ok THEN "publish" ELSE "archive"]
  /\ UploadRest /\ UNCHANGED ready

(* publish_artifact: any file that exists, as often as the model asks        *)
PublishTool(f) ==
  /\ ExecAt("work") /\ exec.disk[f] # NoFile
  /\ Cardinality({i \in DOMAIN artifacts : artifacts[i].run = ThisRun}) < MaxWrites
  /\ BeginUpload(f, "work")

-----------------------------------------------------------------------------
(* _publish_workspace_outputs                                                *)

PublishedPaths == {e.file : e \in {x \in ready : x.run = ThisRun}}

Candidates == {f \in Output \ PublishedPaths : exec.disk[f] \notin {NoFile, exec.base[f]}}

PublishOutput(f) ==
  /\ ExecAt("publish") /\ f \in Candidates
  /\ BeginUpload(f, "publish")

(* The files are collected from the sandbox and the loop is over.            *)
OutputsPublished ==
  /\ ExecAt("publish") /\ Candidates = {}
  /\ exec' = [exec EXCEPT !.pc = "archive"]
  /\ StoreRests /\ UNCHANGED mishaps

(* sandbox.collect fails: an execution that went well is recovered, which    *)
(* collects again; a recovery gives up and keeps the sandbox's files.        *)
CollectFilesFails ==
  /\ ExecAt("publish") /\ Mishap
  /\ exec' = [exec EXCEPT !.ok = FALSE, !.pc = IF exec.ok THEN "publish" ELSE "settle"]
  /\ StoreRests

-----------------------------------------------------------------------------
(* WorkspaceService.archive: pack and reserve, put, add the row, commit      *)

Snapshot == snapshots[Len(snapshots)]
SetSnapshot(row) == snapshots' = [snapshots EXCEPT ![Len(snapshots)] = row]
ArchiveRest == UNCHANGED <<input, artifacts, ready, ended>>

Pack ==
  /\ ExecAt("archive")
  /\ snapshots' = Append(snapshots, [files |-> exec.disk, object |-> FALSE, row |-> FALSE,
                                     quota |-> "reserved"])
  /\ exec' = [exec EXCEPT !.pc = "store"]
  /\ ArchiveRest /\ UNCHANGED mishaps

StoreSnapshot ==
  /\ ExecAt("store")
  /\ SetSnapshot([Snapshot EXCEPT !.object = TRUE])
  /\ exec' = [exec EXCEPT !.pc = "index"]
  /\ ArchiveRest /\ UNCHANGED mishaps

(* From here on the next execution starts with these files.                  *)
IndexSnapshot ==
  /\ ExecAt("index")
  /\ SetSnapshot([Snapshot EXCEPT !.row = TRUE])
  /\ exec' = [exec EXCEPT !.pc = "bill"]
  /\ ArchiveRest /\ UNCHANGED mishaps

BillSnapshot ==
  /\ ExecAt("bill")
  /\ SetSnapshot([Snapshot EXCEPT !.quota = "committed"])
  /\ exec' = [exec EXCEPT !.pc = "settle"]
  /\ ArchiveRest /\ UNCHANGED mishaps

(* A failing archive leaves the Run's outcome as it is; a put or an add that *)
(* fails releases the quota, and the object may be left without a row.       *)
ArchiveFails ==
  /\ exec.pc \in {"archive", "store", "index", "bill"} /\ exec.step = "none" /\ Mishap
  /\ IF exec.pc \in {"store", "index"}
     THEN SetSnapshot([Snapshot EXCEPT !.quota = "released"]) ELSE UNCHANGED snapshots
  /\ exec' = [exec EXCEPT !.pc = "settle"]
  /\ ArchiveRest

-----------------------------------------------------------------------------
(* The Run's row takes its outcome.                                          *)
SettleRun ==
  /\ ExecAt("settle")
  /\ ended' = Append(ended, [ok |-> exec.ok, left |-> exec.disk, base |-> exec.base])
  /\ exec' = NoExec
  /\ UNCHANGED <<input, artifacts, ready, snapshots, mishaps>>

(* The worker dies with its disk; the Run is executed again.                 *)
CrashRun ==
  /\ exec.pc # "idle" /\ Mishap
  /\ exec' = [NoExec EXCEPT !.writes = exec.writes]
  /\ StoreRests

FilesNext ==
  \/ UploadInput \/ StoreInput \/ ReadyInput
  \/ StartRun \/ StartFails
  \/ \E f \in Output : WriteFile(f) \/ PublishTool(f) \/ PublishOutput(f)
  \/ \E ok \in BOOLEAN : RuntimeEnds(ok)
  \/ AddPending \/ PutObject \/ UpdateReady \/ CommitBytes \/ Announce \/ UploadFails
  \/ OutputsPublished \/ CollectFilesFails
  \/ Pack \/ StoreSnapshot \/ IndexSnapshot \/ BillSnapshot \/ ArchiveFails
  \/ SettleRun \/ CrashRun

-----------------------------------------------------------------------------
(* Whatever step failed or crashed: what is announced, staged or restored is  *)
(* in the object store; bytes are charged for a file that is there and given  *)
(* back only for one no row offers.                                           *)
FilesAccounted ==
  /\ input.status = "ready" => input.object
  /\ exec.staged => input.object
  /\ \A e \in ready : artifacts[e.row].status = "ready"
  /\ \A i \in DOMAIN artifacts :
       /\ artifacts[i].status = "ready" => artifacts[i].object
       /\ artifacts[i].quota = "committed" => artifacts[i].status = "ready"
       /\ artifacts[i].quota = "released" => artifacts[i].status \in {"none", "failed"}
  /\ \A i \in DOMAIN snapshots :
       /\ snapshots[i].row => snapshots[i].object
       /\ snapshots[i].quota = "committed" => snapshots[i].row
       /\ snapshots[i].quota = "released" => ~snapshots[i].row

(* The files of an indexed snapshot, of this or an earlier execution         *)
InSnapshot(f, content) ==
  \E i \in DOMAIN snapshots : snapshots[i].row /\ snapshots[i].files[f] = content

(* A Run that succeeded has announced every output it leaves behind, over all *)
(* its executions, but for those that its last execution left as it had       *)
(* restored them; these an earlier execution, or Run, has put in a snapshot.  *)
OutputsAnnounced ==
  \A r \in DOMAIN ended, f \in Output :
    LET content == ended[r].left[f]
    IN ended[r].ok /\ content # NoFile =>
         \/ \E e \in ready : e.run = r /\ e.file = f
         \/ content = ended[r].base[f] /\ InSnapshot(f, content)
===============================================================================
