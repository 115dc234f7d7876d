------------------------------- MODULE Services -------------------------------
(***************************************************************************)
(* The services around the execution of Runs.  Each keeps rows of its own    *)
(* and none reads those of another but through what its own module models,   *)
(* so their behaviours do not interact: a behaviour of this module is one of *)
(* the service that subject names, while the others rest.                    *)
(***************************************************************************)
EXTENDS Sandboxes, Triggers, Accounts, DataLifecycle, MemoryBank, Knowledge,
        Governance, RuntimeStream, ToolGate, Studio, A2ATasks,
        Threads, ToolSetup, RunFiles, RemoteCli, Incidents, History, EvalSuite, Promotion,
        WorkloadTokens

VARIABLE subject

Services == {"sandboxes", "pods", "triggers", "accounts", "lifecycle", "memory", "knowledge",
             "connections", "policies", "stream", "gate", "studio", "catalog", "preflight",
             "a2a", "threads", "tools", "files", "cli", "incidents", "history", "suite",
             "promotion", "workload", "release", "packages"}

servicesVars == <<subject, sandboxVars, podVars, triggerVars, accountVars, lifecycleVars,
                  memoryVars, knowledgeVars, connectionVars, policyVars, streamVars, gateVars,
                  studioVars, catalogVars, preflightVars, taskVars, threadVars, toolVars, fileVars,
                  cliVars, incidentVars, historyVars, suiteVars, promotionVars,
                  workloadVars, releaseVars, packageVars>>

(* A service that rests has one initial state.                              *)
Rests(service, here) == subject = service \/ here

ServicesInit ==
  /\ subject \in Services
  /\ SandboxInit /\ Rests("sandboxes", mode = "remote")
  /\ PodInit /\ Rests("pods", provider = "e2b")
  /\ TriggerInit /\ Rests("triggers", kind = "webhook")
  /\ AccountInit
  /\ LifecycleInit /\ Rests("lifecycle", stored[CHOOSE i \in Item : TRUE] # {})
  /\ MemoryInit
  /\ KnowledgeInit
  /\ Rests("knowledge", sharedBases = {} /\ base.revision = 0 /\ agents[Creator] = "a"
                          /\ \A u \in Person \ {Creator} : agents[u] = "none")
  /\ ConnectionInit /\ Rests("connections", \A c \in Connection : connections[c] = NoRow)
  /\ PolicyInit
  /\ StreamInit /\ Rests("stream", streams /\ ~background)
  /\ GateInit /\ Rests("gate", exists = File)
  /\ StudioInit
  /\ CatalogInit /\ Rests("catalog", catalog.revision = 0)
  /\ PreflightInit
  /\ TaskInit /\ Rests("a2a", face = "a2a" /\ \A t \in Task : updatedAt[t] = 0)
  /\ ThreadInit
  /\ ToolSetupInit
  /\ Rests("tools", world.credentials = {} /\ world.registry = Reference \X ToolName
                      /\ host = (CHOOSE h \in Hosts : TRUE)
                      /\ \A a \in Agent : directory[a].kind = "published")
  /\ FilesInit
  /\ CliInit /\ Rests("cli", sandboxKind = "e2b" /\ ~resume /\ ~pinned)
  /\ IncidentInit
  /\ HistoryInit
  /\ SuiteInit
  /\ PromotionInit /\ Rests("promotion", datasets = {})
  /\ WorkloadInit
  /\ ReleaseInit /\ Rests("release", \A b \in Bundle : place[b].healthy = Vacant)
  /\ PackageInit

Only(service) ==
  /\ subject = service /\ UNCHANGED subject
  /\ IF service = "sandboxes" THEN TRUE ELSE UNCHANGED sandboxVars
  /\ IF service = "pods" THEN TRUE ELSE UNCHANGED podVars
  /\ IF service = "triggers" THEN TRUE ELSE UNCHANGED triggerVars
  /\ IF service = "accounts" THEN TRUE ELSE UNCHANGED accountVars
  /\ IF service = "lifecycle" THEN TRUE ELSE UNCHANGED lifecycleVars
  /\ IF service = "memory" THEN TRUE ELSE UNCHANGED memoryVars
  /\ IF service = "knowledge" THEN TRUE ELSE UNCHANGED knowledgeVars
  /\ IF service = "connections" THEN TRUE ELSE UNCHANGED connectionVars
  /\ IF service = "policies" THEN TRUE ELSE UNCHANGED policyVars
  /\ IF service = "stream" THEN TRUE ELSE UNCHANGED streamVars
  /\ IF service = "gate" THEN TRUE ELSE UNCHANGED gateVars
  /\ IF service = "studio" THEN TRUE ELSE UNCHANGED studioVars
  /\ IF service = "catalog" THEN TRUE ELSE UNCHANGED catalogVars
  /\ IF service = "preflight" THEN TRUE ELSE UNCHANGED preflightVars
  /\ IF service = "a2a" THEN TRUE ELSE UNCHANGED taskVars
  /\ IF service = "threads" THEN TRUE ELSE UNCHANGED threadVars
  /\ IF service = "tools" THEN TRUE ELSE UNCHANGED toolVars
  /\ IF service = "files" THEN TRUE ELSE UNCHANGED fileVars
  /\ IF service = "cli" THEN TRUE ELSE UNCHANGED cliVars
  /\ IF service = "incidents" THEN TRUE ELSE UNCHANGED incidentVars
  /\ IF service = "history" THEN TRUE ELSE UNCHANGED historyVars
  /\ IF service = "suite" THEN TRUE ELSE UNCHANGED suiteVars
  /\ IF service = "promotion" THEN TRUE ELSE UNCHANGED promotionVars
  /\ IF service = "workload" THEN TRUE ELSE UNCHANGED workloadVars
  /\ IF service = "release" THEN TRUE ELSE UNCHANGED releaseVars
  /\ IF service = "packages" THEN TRUE ELSE UNCHANGED packageVars

ServicesNext ==
  \/ Only("sandboxes") /\ SandboxNext
  \/ Only("pods") /\ PodNext
  \/ Only("triggers") /\ TriggerNext
  \/ Only("accounts") /\ AccountNext
  \/ Only("lifecycle") /\ LifecycleNext
  \/ Only("memory") /\ MemoryNext
  \/ Only("knowledge") /\ KnowledgeNext
  \/ Only("connections") /\ ConnectionNext
  \/ Only("policies") /\ PolicyNext
  \/ Only("stream") /\ StreamNext
  \/ Only("gate") /\ GateNext
  \/ Only("studio") /\ StudioNext
  \/ Only("catalog") /\ CatalogNext
  \/ Only("preflight") /\ PreflightNext
  \/ Only("a2a") /\ TaskNext
  \/ Only("threads") /\ ThreadNext
  \/ Only("tools") /\ ToolSetupNext
  \/ Only("files") /\ FilesNext
  \/ Only("cli") /\ CliNext
  \/ Only("incidents") /\ IncidentNext
  \/ Only("history") /\ HistoryNext
  \/ Only("suite") /\ SuiteNext
  \/ Only("promotion") /\ PromotionNext
  \/ Only("workload") /\ WorkloadNext
  \/ Only("release") /\ ReleaseNext
  \/ Only("packages") /\ PackageNext

ServicesSpec == ServicesInit /\ [][ServicesNext]_servicesVars

-----------------------------------------------------------------------------
(* What the services promise together, by the kind of promise.  The parts    *)
(* are stated, each about the code it names, in their own modules.           *)

(* A Run that uses a sandbox has it to itself and running, on the worker or   *)
(* on a cluster, and nobody who waits for one waits forever.                 *)
SandboxesHeld == SandboxInUse /\ PodInUse /\ (subject = "sandboxes" => SandboxesGoOn)

(* Rights are those of the moment they are used, not of the moment a Run or   *)
(* a lease was given them: knowledge found, secrets handed over; and those of *)
(* the one who uses them: a platform tool acts for the Run that calls it.    *)
AccessIsCurrent == SearchesRecheck /\ SecretsFollowConnections /\ ActsForItsCaller

(* The event log tells what the model said and which subagents worked; once,  *)
(* unless a subagent in the background was heard out of its turn.            *)
StreamToldOnce == TextShownOnce /\ SubagentsEndOnce /\ OnlyBackgroundStrays

(* The tool gate's memory of a Run is right: what was read before a memory is *)
(* proposed, and which files are the Run's own.                              *)
GateRemembers == MemoryFromTrustedContext /\ OwnFilesOnly

(* An A2A client that resumes its stream is sent each update once, and what   *)
(* the task at its head repeats is only what that had ahead; one that reads   *)
(* its tasks page by page misses none that stood still.                       *)
A2AFaithful == TaskTextOnce /\ PagesSkipNothing

(* Files of a Run are stored as their rows and charges say, and a Run that    *)
(* succeeded has announced what it changed.                                  *)
OutputsKept == FilesAccounted /\ OutputsAnnounced

(* The worker hears the CLI in a remote sandbox as it speaks and has its      *)
(* files as they are.                                                        *)
RemoteFaithful == CliHeard /\ MirrorAsRemote

(* Rows that several requests read and write back: no change one of them      *)
(* confirmed is undone by a write that was prepared before it; and a draft    *)
(* that leaves in an archive comes back as it was.                           *)
NoEditLost == MemoriesAsConfirmed /\ EditsSurviveSyncs /\ CatalogEditsKept /\ CopiesAsExported

(* What ended, was revoked or was published stays so, whatever overlaps.      *)
RevokedForGood == FamiliesEnd /\ RevokedStays /\ PublicationsStay

(* A version is deployed only past its gates, and a release on every Agent or *)
(* on none that the client knows of.                                         *)
PromotionsHold == PromotionsGated /\ ReleaseWhole
===============================================================================
