------------------------------- MODULE RemoteCli -------------------------------
(***************************************************************************)
(* One execution of the Claude CLI in a remote sandbox: the workspace goes   *)
(* up (prepare), the CLI talks to the worker over a session of the sandbox    *)
(* (runtime/daytona_transport.py over the sessions of sandbox/daytona.py,    *)
(* kubernetes.py and e2b.py), and the workspace comes back (collect).        *)
(*                                                                           *)
(* The CLI's output is a sequence of tokens: message m is an object of four, *)
(* <<"open", m>> <<"lo", m>> <<"hi", m>> <<"close", m>>, where lo and hi are *)
(* the bytes of one character; "nl" ends a line, "sp" is white space, "junk" *)
(* a line that is no JSON, and "bad" a byte decoded with errors="replace".   *)
(***************************************************************************)
EXTENDS Naturals, Sequences, FiniteSets

CONSTANTS Paths,        \* files of the workspace
          ReadOnly,     \* those of them staged as inputs, mode 444
          Withheld,     \* tokens Daytona's log demultiplexer holds back
          MaxMessages,  \* bound: messages of the CLI
          MaxJunk,      \* bound: lines of the CLI that are no JSON
          MaxTouches      \* bound: changes the CLI makes to files

(* The padding of a line, four tokens, is there because it is no shorter than *)
(* the suffix which Daytona holds back (runtime/daytona_transport.py:172).   *)
ASSUME WithheldAssumption == Withheld \in 0..4

VARIABLES sandboxKind,     \* "daytona", "kubernetes" or "e2b"
          cliAt,        \* the worker: prepare, connect, talk, close, collect, over, failed
          pinned,       \* the sandbox holds the pinned CLI version
          preparedCli,  \* a Daytona sandbox this worker has prepared before
          config,       \* the CLI's config directory: "none", "partial", "whole"
          resume,       \* the Run resumes a stored Claude session
          cli,          \* [state, code, wrote, answered, junk, edits, loose: close gave up on it]
          stdout,       \* what the wrapped CLI has printed
          taken,        \* how much of it the session has delivered
          receiver,       \* read_messages: [state, buffer, got]
          split,        \* a chunk ended inside a character
          local, remote,\* the worker's mirror and the sandbox: path -> version, 0: absent
          archive,      \* the workspace as tar packed it
          unwritten       \* files collect has still to write

cliVars == <<sandboxKind, cliAt, pinned, preparedCli, config, resume, cli, stdout, taken, receiver,
             split, local, remote, archive, unwritten>>
workVars == <<local, remote, archive, unwritten>>
talkVars == <<cli, stdout, taken, receiver, split>>
hostVars == <<sandboxKind, pinned, preparedCli, config, resume>>

CliInit ==
  /\ sandboxKind \in {"daytona", "kubernetes", "e2b"} /\ resume \in BOOLEAN /\ pinned \in BOOLEAN
  /\ preparedCli \in BOOLEAN /\ (preparedCli => sandboxKind = "daytona")
  /\ cliAt = "prepare" /\ config = "none"
  /\ cli = [state |-> "none", code |-> 0, wrote |-> 0, answered |-> 0, junk |-> 0, edits |-> 0,
            loose |-> FALSE]
  /\ stdout = << >> /\ taken = 0 /\ split = FALSE
  /\ receiver = [state |-> "idle", buffer |-> << >>, got |-> << >>]
  /\ local = [p \in Paths |-> 1] /\ remote = [p \in Paths |-> 0]
  /\ archive = remote /\ unwritten = {}

-----------------------------------------------------------------------------
(* prepare: the pinned CLI, then the files                                   *)

(* SdkDaytonaRemoteSandbox.ensure_claude_cli: another version than the pinned *)
(* one is replaced, and the new one verified.                                 *)
EnsureCli == pinned' = TRUE

(* SdkE2BRemoteSandbox.ensure_claude_cli, for which a raising check is a CLI *)
(* that is missing                                                           *)
E2BEnsureCli == pinned' = TRUE

(* KubernetesSandboxProvider.execute: the image's CLI is asked for its        *)
(* version in a session of its own, which is terminated whatever happens.     *)
KubernetesVersion == IF pinned THEN "pinned" ELSE "other"

(* The files there are go up; what the sandbox has besides stays.            *)
UploadWorkspace == remote' = [p \in Paths |-> IF local[p] = 0 THEN remote[p] ELSE local[p]]

Prepared(from) ==
  /\ sandboxKind = from /\ cliAt = "prepare" /\ cliAt' = "connect" /\ UploadWorkspace
  /\ UNCHANGED <<sandboxKind, preparedCli, config, resume, local, archive, unwritten>>
  /\ UNCHANGED talkVars

(* A sandbox this worker has prepared before is not asked for its CLI again. *)
DaytonaPrepare ==
  Prepared("daytona") /\ IF preparedCli THEN UNCHANGED pinned ELSE EnsureCli
E2BPrepare == Prepared("e2b") /\ E2BEnsureCli
KubernetesPrepare ==
  Prepared("kubernetes") /\ KubernetesVersion = "pinned" /\ UNCHANGED pinned

(* A failing or timed-out check, a failed install, a refused archive.        *)
SetupFails ==
  /\ cliAt = "prepare" /\ cliAt' = "failed"
  /\ UNCHANGED hostVars /\ UNCHANGED talkVars /\ UNCHANGED workVars

-----------------------------------------------------------------------------
(* DaytonaClaudeTransport.connect                                            *)

(* stage_config empties the directory and then writes the files, on Daytona   *)
(* and E2B one by one, on Kubernetes from one archive; each may stop on its   *)
(* way.                                                                      *)
DaytonaStages == {"whole", "partial"}
E2BStages == {"whole", "partial"}
KubernetesStages == {"whole", "partial"}
Staged == IF sandboxKind = "daytona" THEN DaytonaStages
          ELSE IF sandboxKind = "e2b" THEN E2BStages ELSE KubernetesStages

(* _stage_resume_config                                                      *)
StageConfig ==
  /\ cliAt = "connect" /\ resume /\ config # "whole"
  /\ config' \in Staged /\ cliAt' = IF config' = "whole" THEN cliAt ELSE "failed"
  /\ UNCHANGED <<sandboxKind, pinned, preparedCli, resume>>
  /\ UNCHANGED talkVars /\ UNCHANGED workVars

(* The session starts the wrapper, which reads the environment and the       *)
(* arguments from its input and then starts the CLI.                         *)
StartSession ==
  /\ cliAt = "connect" /\ (resume => config = "whole")
  /\ cliAt' = "talk"
  /\ cli' = [cli EXCEPT !.state = "running"] /\ receiver' = [receiver EXCEPT !.state = "reading"]
  /\ UNCHANGED <<stdout, taken, split>> /\ UNCHANGED hostVars /\ UNCHANGED workVars

CliStartFails ==
  /\ cliAt = "connect" /\ (resume => config = "whole") /\ cliAt' = "failed"
  /\ UNCHANGED hostVars /\ UNCHANGED talkVars /\ UNCHANGED workVars

-----------------------------------------------------------------------------
(* The CLI, and what a session makes of its output                           *)

Running == cli.state = "running"
Object(m) == << <<"open", m>>, <<"lo", m>>, <<"hi", m>>, <<"close", m>> >>
Newline == <<"nl", 0>>

(* Mutant of DaytonaLine: the wrapper adds no padding.                       *)
DaytonaLineBare(text) == text \o <<Newline>>

(* A line as the wrapper of a Daytona session prints it, with its padding    *)
DaytonaLine(text) == text \o << Newline, <<"sp", 0>>, <<"sp", 0>>, Newline >>

(* kubectl exec prints the CLI's lines as they are, and so does E2B.         *)
KubectlLine(text) == text \o <<Newline>>
E2BLine(text) == text \o <<Newline>>

Prints(text) ==
  \/ sandboxKind = "daytona" /\ stdout' = stdout \o DaytonaLine(text)
  \/ sandboxKind = "kubernetes" /\ stdout' = stdout \o KubectlLine(text)
  \/ sandboxKind = "e2b" /\ stdout' = stdout \o E2BLine(text)

(* A control request, which the CLI sends only when the previous one has     *)
(* been answered.                                                            *)
WriteMessage ==
  /\ Running /\ cliAt = "talk" /\ cli.wrote < MaxMessages /\ cli.answered = cli.wrote
  /\ cli' = [cli EXCEPT !.wrote = @ + 1] /\ Prints(Object(cli.wrote + 1))
  /\ UNCHANGED <<cliAt, taken, receiver, split>> /\ UNCHANGED hostVars /\ UNCHANGED workVars

PrintJunk ==
  /\ Running /\ cliAt = "talk" /\ cli.junk < MaxJunk
  /\ cli' = [cli EXCEPT !.junk = @ + 1] /\ Prints(<< <<"junk", 0>> >>)
  /\ UNCHANGED <<cliAt, taken, receiver, split>> /\ UNCHANGED hostVars /\ UNCHANGED workVars

(* A tool of the CLI writes or removes a file.                               *)
EditFile(p, version) ==
  /\ Running /\ cli.edits < MaxTouches /\ remote[p] # version
  /\ cli' = [cli EXCEPT !.edits = @ + 1] /\ remote' = [remote EXCEPT ![p] = version]
  /\ UNCHANGED <<cliAt, stdout, taken, receiver, split, local, archive, unwritten>>
  /\ UNCHANGED hostVars

CliExits(code) ==
  /\ Running /\ cli' = [cli EXCEPT !.state = "exited", !.code = code]
  /\ UNCHANGED <<cliAt, stdout, taken, receiver, split>> /\ UNCHANGED hostVars /\ UNCHANGED workVars

-----------------------------------------------------------------------------
(* The log of a Daytona command: its demultiplexer keeps a suffix back while *)
(* the command runs.  External: the daytona SDK.                             *)
DaytonaReadable == IF Running THEN (IF Len(stdout) > Withheld THEN Len(stdout) - Withheld ELSE 0)
                   ELSE Len(stdout)

(* How far the session can deliver                                           *)
Readable == IF sandboxKind = "daytona" THEN DaytonaReadable ELSE Len(stdout)

(* A chunk of a kubectl pipe ends at any byte; the callbacks of the others   *)
(* hand over strings.                                                        *)
ChunkEnds(n) == sandboxKind = "kubernetes" \/ stdout[n][1] # "lo"

(* chunk.decode("utf-8", errors="replace")                                   *)
Decode(chunk) ==
  [i \in DOMAIN chunk |->
     IF (i = 1 /\ chunk[i][1] = "hi") \/ (i = Len(chunk) /\ chunk[i][1] = "lo")
     THEN <<"bad", chunk[i][2]>> ELSE chunk[i]]

(* Where the parsed objects end: raw_decode needs the whole object, garbled  *)
(* or not, at the beginning of what is left of its line.                     *)
ObjectEnds(b) ==
  {i \in 4..Len(b) : /\ b[i][1] = "close" /\ b[i - 3][1] = "open"
                     /\ i = 4 \/ b[i - 4][1] \in {"nl", "sp", "close"}}

(* What is behind the last newline, the last object and white space is kept. *)
Consumed(b) ==
  LET ends == {i \in DOMAIN b : b[i][1] = "nl"} \cup ObjectEnds(b)
      last == IF ends = {} THEN 0 ELSE CHOOSE i \in ends : \A j \in ends : j <= i
  IN IF \A i \in (last + 1)..Len(b) : b[i][1] = "sp" THEN Len(b) ELSE last

Parsed(b) ==
  LET at(k) == CHOOSE i \in ObjectEnds(b) : Cardinality({j \in ObjectEnds(b) : j <= i}) = k
  IN [k \in 1..Cardinality(ObjectEnds(b)) |->
        [of |-> b[at(k)][2], intact |-> b[at(k) - 1][1] = "hi" /\ b[at(k) - 2][1] = "lo"]]

(* One turn of read_messages' loop                                           *)
ReadChunk(n) ==
  /\ receiver.state = "reading" /\ n \in (taken + 1)..Readable /\ ChunkEnds(n)
  /\ LET buffer == receiver.buffer \o Decode(SubSeq(stdout, taken + 1, n))
     IN receiver' = [receiver EXCEPT !.got = @ \o Parsed(buffer),
                                 !.buffer = SubSeq(buffer, Consumed(buffer) + 1, Len(buffer))]
  /\ taken' = n /\ split' = (split \/ stdout[n][1] = "lo")
  /\ UNCHANGED <<cliAt, cli, stdout>> /\ UNCHANGED hostVars /\ UNCHANGED workVars

(* The SDK answers a control request it has read (transport.write).          *)
Answer ==
  /\ cliAt = "talk" /\ Running /\ cli.answered < Len(receiver.got)
  /\ cli' = [cli EXCEPT !.answered = @ + 1]
  /\ UNCHANGED <<cliAt, stdout, taken, receiver, split>> /\ UNCHANGED hostVars /\ UNCHANGED workVars

(* The session's exit code: 1 where none is known                            *)
ExitCode == IF cli.state = "exited" THEN cli.code ELSE 1

(* The output ends: with the CLI's, or because the connection breaks, which  *)
(* the session's exit code tells on Kubernetes and E2B.  Daytona's log may    *)
(* also end early without an error: _stream_logs ends the output whatever     *)
(* the SDK's call does.                                                      *)
LogEnds ==
  /\ receiver.state = "reading"
  /\ \/ ~Running /\ taken = Len(stdout) /\ receiver' = [receiver EXCEPT !.state = "ended"]
     \/ sandboxKind = "daytona" /\ receiver' = [receiver EXCEPT !.state = "cut"]
     \/ receiver' = [receiver EXCEPT !.state = "failed"]
  /\ UNCHANGED <<cliAt, cli, stdout, taken, split>> /\ UNCHANGED hostVars /\ UNCHANGED workVars

(* wait: only then the exit code is asked for, which is that of a CLI that    *)
(* went on meanwhile; the call may fail.                                     *)
ReadExitCode ==
  /\ receiver.state \in {"ended", "cut"}
  /\ \/ /\ ExitCode = 0
        /\ receiver' = [receiver EXCEPT !.state = IF @ = "ended" THEN "done" ELSE "short"]
     \/ receiver' = [receiver EXCEPT !.state = "failed"]
  /\ UNCHANGED <<cliAt, cli, stdout, taken, split>> /\ UNCHANGED hostVars /\ UNCHANGED workVars

-----------------------------------------------------------------------------
(* terminate: Daytona deletes the session and E2B kills the process, either   *)
(* of which may fail; Kubernetes ends kubectl, which the CLI may outlive.     *)
Killed == [cli EXCEPT !.state = IF Running THEN "killed" ELSE @]
LetLoose == [cli EXCEPT !.loose = Running]
DaytonaTerminate == {Killed, LetLoose}
E2BTerminate == {Killed, LetLoose}
KubernetesTerminate == {Killed, LetLoose}

(* close: terminate, given up after close_timeout.  The worker closes when    *)
(* the stream ended and when the Run is cancelled; nobody reads the output    *)
(* from then on.                                                              *)
Close ==
  /\ cliAt = "talk" /\ cliAt' = "collect"
  /\ \/ sandboxKind = "daytona" /\ cli' \in DaytonaTerminate
     \/ sandboxKind = "e2b" /\ cli' \in E2BTerminate
     \/ sandboxKind = "kubernetes" /\ cli' \in KubernetesTerminate
  /\ receiver' = [state |-> "idle", buffer |-> << >>, got |-> << >>]
  /\ stdout' = << >> /\ taken' = 0 /\ split' = FALSE
  /\ UNCHANGED hostVars /\ UNCHANGED workVars

(* What there is to write: the members of a tar archive, which holds the      *)
(* files as they are now, or on E2B the files of a listing.                   *)
Packed == remote
ListedFiles == {p \in Paths : remote[p] # 0}

StartCollect ==
  /\ cliAt = "collect" /\ cliAt' = "write" /\ unwritten' = ListedFiles /\ archive' = Packed
  /\ UNCHANGED <<local, remote>> /\ UNCHANGED hostVars /\ UNCHANGED talkVars

(* Mutant of DaytonaExtract: a file that is there is left as it is.          *)
DaytonaExtractNew(p) == local' = [local EXCEPT ![p] = IF @ = 0 THEN archive[p] ELSE @]

(* A member of the archive is written over the mirror's file, which is made  *)
(* writable first; nothing is ever removed.                                  *)
DaytonaExtract(p) == local' = [local EXCEPT ![p] = archive[p]]

(* The other two write without that, which a read-only file refuses.         *)
Overwrites(p) == p \notin ReadOnly \/ local[p] = 0
KubernetesExtract(p) == Overwrites(p) /\ local' = [local EXCEPT ![p] = archive[p]]

(* E2B downloads the listed files one by one.                                *)
E2BDownload(p) == remote[p] # 0 /\ Overwrites(p) /\ local' = [local EXCEPT ![p] = remote[p]]

CollectFile(p) ==
  /\ cliAt = "write" /\ p \in unwritten
  /\ \/ sandboxKind = "daytona" /\ DaytonaExtract(p)
     \/ sandboxKind = "kubernetes" /\ KubernetesExtract(p)
     \/ sandboxKind = "e2b" /\ E2BDownload(p)
  /\ unwritten' = unwritten \ {p}
  /\ UNCHANGED <<cliAt, remote, archive>> /\ UNCHANGED hostVars /\ UNCHANGED talkVars

Collected ==
  /\ cliAt = "write" /\ unwritten = {} /\ cliAt' = "over"
  /\ UNCHANGED hostVars /\ UNCHANGED talkVars /\ UNCHANGED workVars

(* Too many, too large, a link, a read-only file or a failing download: what *)
(* has been written of the mirror stays.                                     *)
CollectFails ==
  /\ cliAt \in {"collect", "write"} /\ cliAt' = "failed" /\ unwritten' = {}
  /\ UNCHANGED <<local, remote, archive>> /\ UNCHANGED hostVars /\ UNCHANGED talkVars

CliNext ==
  \/ DaytonaPrepare \/ E2BPrepare \/ KubernetesPrepare \/ SetupFails
  \/ StageConfig \/ StartSession \/ CliStartFails
  \/ WriteMessage \/ PrintJunk \/ Answer \/ LogEnds \/ ReadExitCode \/ Close
  \/ \E p \in Paths, v \in {0, 2} : EditFile(p, v)
  \/ \E code \in {0, 1} : CliExits(code)
  \/ \E n \in 1..Len(stdout) : ReadChunk(n)
  \/ StartCollect \/ Collected \/ CollectFails
  \/ \E p \in Paths : CollectFile(p)

-----------------------------------------------------------------------------
(* What the CLI says is heard, wherever the chunks end: the messages the     *)
(* worker reads are those the CLI sent, in order, each once, and whole unless *)
(* a chunk ended inside a character; while the CLI waits for an answer, its   *)
(* request can be read although Daytona holds a suffix of its output back;    *)
(* and read_messages returns normally only when the CLI exited with 0, and    *)
(* then all was heard, unless Daytona's log ended early without an error.     *)
CliHeard ==
  /\ \A k \in DOMAIN receiver.got : receiver.got[k].of = k /\ (receiver.got[k].intact \/ split)
  /\ Len(receiver.got) <= cli.wrote
  /\ (Running /\ receiver.state = "reading" /\ taken = Readable) => Len(receiver.got) = cli.wrote
  /\ receiver.state = "done" => Len(receiver.got) = cli.wrote
  /\ receiver.state \in {"done", "short"} => cli.state = "exited" /\ cli.code = 0
  /\ receiver.state = "short" => sandboxKind = "daytona"

(* The mirror after a complete collection: what the sandbox has, it has, and *)
(* what it has besides is a file the CLI removed; unless close gave up on a  *)
(* running CLI.  A CLI runs on the pinned version, which a Daytona sandbox    *)
(* prepared before had then, and, resuming, on a wholly staged configuration. *)
MirrorAsRemote ==
  /\ (cliAt = "over" /\ ~cli.loose) =>
       \A p \in Paths : local[p] = remote[p] \/ (remote[p] = 0 /\ local[p] = 1)
  /\ Running => (pinned \/ preparedCli) /\ (resume => config = "whole")
===============================================================================
