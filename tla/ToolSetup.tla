------------------------------- MODULE ToolSetup -------------------------------
(***************************************************************************)
(* How a Run comes to its tools (registry_runtime.py, runtime/tools.py and   *)
(* ClaudeSdkRuntime._options).  A Lead and its Subagent were published with  *)
(* a directory of the MCP tools of that day, or before there were            *)
(* directories.  By the time a Run starts, the catalogue may list more or    *)
(* fewer tools and a credential may be gone, and both may change between the *)
(* reads the Run makes: for each Agent the registry and then one credential  *)
(* after the other.                                                          *)
(*                                                                           *)
(* A tool is <<reference, name>>; a reference is also the name of its server. *)
(***************************************************************************)
EXTENDS Naturals, FiniteSets

CONSTANTS Reference,     \* MCP references
          ToolName,      \* names of the tools of a server
          Uses,          \* [{"lead", "child"} -> SUBSET Reference]
          MaxChanges     \* bound: changes of the world

VARIABLES world,      \* registry and credentials
          directory,  \* what was published: [Agent -> [kind, tools]]
          host,       \* where the CLI runs and the route the Run asks for
          setup,      \* the Run's preparation
          changes

toolVars == <<world, directory, host, setup, changes>>

Agent == {"lead", "child"}
Platform == {"harness-memory", "harness-knowledge", "harness-artifacts", "sandbox"}
NoResolution == [registry |-> {}, left |-> {}, servers |-> {}, allowed |-> {}, unavailable |-> {}]

(* A directory, none, or none though the Agent's tools load on demand        *)
DirectoryKind == {"published", "none", "lost"}

(* The Run's route: none, one that is configured, or one that is not.        *)
Hosts == [remote : BOOLEAN, override : {"none", "known", "unknown"}]

ToolSetupInit ==
  /\ \E names \in (SUBSET ToolName) \ {{}}, c \in SUBSET Reference :
       world = [registry |-> Reference \X names, credentials |-> c]
  /\ \E kind \in [Agent -> DirectoryKind] : directory = [a \in Agent |->
       [kind |-> kind[a], tools |-> IF kind[a] # "published" THEN {}
                                    ELSE {t \in world.registry : t[1] \in Uses[a]}]]
  /\ host \in Hosts
  /\ setup = [pc |-> "route", agent |-> "lead", route |-> "none",
              of |-> [a \in Agent |-> NoResolution], owner |-> [r \in Reference |-> "none"],
              servers |-> {}, allowed |-> {}, builtins |-> {}, degraded |-> {}]
  /\ changes = 0

-----------------------------------------------------------------------------
(* The world changes: a rediscovered server, a credential, a version         *)

Changes ==
  /\ changes < MaxChanges /\ changes' = changes + 1
  /\ setup.pc \notin {"ready", "failed"}
  /\ UNCHANGED <<directory, host, setup>>

Rediscover(reference, names) ==
  /\ world' = [world EXCEPT !.registry =
                 {t \in @ : t[1] # reference} \cup {<<reference, n>> : n \in names}]
  /\ Changes

Configure(reference) ==
  /\ world' = [world EXCEPT !.credentials = @ \cup {reference}] /\ Changes

DeleteCredential(reference) ==
  /\ world' = [world EXCEPT !.credentials = @ \ {reference}] /\ Changes

-----------------------------------------------------------------------------
(* RegistryClaudeRuntime.execute                                             *)

SetupAt(pc) == setup.pc = pc
SetupGoes(record) == setup' = record /\ UNCHANGED <<world, directory, host, changes>>
Fail == SetupGoes([setup EXCEPT !.pc = "failed"])

(* _config_for_route: a route the task asks for is served as such or not at   *)
(* all; the Agent's own falls back to the default configuration.             *)
ConfigForRoute(override) == IF override = "none" THEN "default" ELSE override

(* ModelRouter.resolve: the fallback replaces a route that lacks a required   *)
(* capability, and never one the task asked for.                             *)
Routed(override, fit, fallback) ==
  IF fit THEN ConfigForRoute(override)
  ELSE IF override = "none" /\ fallback = "fit" THEN "fallback" ELSE "none"

SelectRoute(fit, fallback) ==
  LET route == Routed(host.override, fit, fallback)
  IN /\ SetupAt("route")
     /\ IF host.override = "unknown" \/ route = "none" THEN Fail
        ELSE SetupGoes([setup EXCEPT !.pc = "registry", !.route = route])

-----------------------------------------------------------------------------
(* ToolResolver.resolve                                                      *)

(* The tenant's registrations, read once for an Agent; a reference that has   *)
(* none is an error.                                                         *)
ReadRegistry(agent) ==
  /\ SetupAt("registry") /\ setup.agent = agent
  /\ LET found == {t \in world.registry : t[1] \in Uses[agent]}
     IN IF \E r \in Uses[agent] : \A t \in found : t[1] # r
        THEN Fail
        ELSE SetupGoes([setup EXCEPT
               !.pc = "credentials",
               !.of[agent] = [NoResolution EXCEPT !.registry = found, !.left = Uses[agent]]])

(* The credential of a reference; without it the server is left out.         *)
ResolveCredential(agent, reference) ==
  LET mine == setup.of[agent]
      tools == {t \in mine.registry : t[1] = reference}
  IN /\ SetupAt("credentials") /\ setup.agent = agent /\ reference \in mine.left
     /\ SetupGoes([setup EXCEPT !.of[agent] =
          IF reference \in world.credentials
          THEN [mine EXCEPT !.left = @ \ {reference}, !.servers = @ \cup {reference},
                            !.allowed = @ \cup tools]
          ELSE [mine EXCEPT !.left = @ \ {reference}, !.unavailable = @ \cup tools]])

(* Mutant of Enforced: tools the catalogue gained since are offered as well. *)
EnforcedLoosely(agent, mine) == mine

(* enforce_published_tool_directory: what was published and no more; without  *)
(* a directory what the registry had, unless the tools load on demand.       *)
Enforced(agent, mine) ==
  IF directory[agent].kind # "published" THEN mine
  ELSE [mine EXCEPT !.allowed = @ \cap directory[agent].tools]
NotAsPublished(agent, mine) ==
  \/ directory[agent].kind = "lost"
  \/ ~(directory[agent].tools \subseteq mine.allowed \cup mine.unavailable)

(* A server name belongs to one of the Agents.                               *)
Conflict(agent, mine) == \E r \in mine.servers : setup.owner[r] \notin {"none", agent}

(* _options joins what an Agent may use to the Run's configuration, which is *)
(* the Lead's; a Subagent's definition lists its own tools.                  *)
JoinTools(agent) ==
  LET mine == Enforced(agent, setup.of[agent])
  IN /\ SetupAt("credentials") /\ setup.agent = agent /\ setup.of[agent].left = {}
     /\ IF NotAsPublished(agent, setup.of[agent]) \/ Conflict(agent, mine) THEN Fail
        ELSE SetupGoes([setup EXCEPT
               !.pc = IF agent = "lead" THEN "attach" ELSE "assemble", !.agent = "child",
               !.of[agent] = [mine EXCEPT !.registry = {}],
               !.servers = @ \cup mine.servers,
               !.allowed = @ \cup mine.allowed,
               !.owner = [r \in Reference |-> IF r \in mine.servers THEN agent ELSE @[r]],
               !.degraded = IF agent = "lead" THEN mine.unavailable ELSE @])

(* The remote providers build a new ResolvedTools, in which no server is     *)
(* unavailable any more; remote knowledge needs its provider.  The session    *)
(* has knowledge or not.                                                     *)
AttachRemote(knowledge) ==
  /\ SetupAt("attach")
  /\ SetupGoes(IF ~host.remote THEN [setup EXCEPT !.pc = "registry"]
               ELSE [setup EXCEPT
                      !.pc = "registry", !.degraded = {},
                      !.servers = @ \cup {"harness-memory"} \cup
                        (IF knowledge THEN {"harness-knowledge"} ELSE {}),
                      !.allowed = @ \cup {<<"harness-memory", "propose_memory">>} \cup
                        (IF knowledge THEN {<<"harness-knowledge", "query">>} ELSE {})])

(* The rest of _options: builtins proxied into a sandbox that runs commands,  *)
(* and the servers that live in the worker's own process.                    *)
AssembleOptions(proxied, knowledge) ==
  /\ SetupAt("assemble")
  /\ IF host.remote /\ proxied THEN Fail
     ELSE LET proxy == IF proxied THEN {"sandbox"} ELSE {}
              local == IF host.remote THEN {}
                       ELSE {"harness-memory", "harness-artifacts"} \cup
                              (IF knowledge THEN {"harness-knowledge"} ELSE {})
          IN SetupGoes([setup EXCEPT
               !.pc = "ready",
               !.servers = @ \cup proxy \cup local,
               !.allowed = @ \cup {<<s, "tool">> : s \in proxy \cup local},
               !.builtins = IF proxied THEN {"coordination"} ELSE {"coordination", "files"}])

-----------------------------------------------------------------------------
ToolSetupNext ==
  \/ \E r \in Reference : \/ \E names \in SUBSET ToolName : Rediscover(r, names)
                          \/ Configure(r) \/ DeleteCredential(r)
  \/ \E a \in Agent : \/ ReadRegistry(a) \/ JoinTools(a)
                      \/ \E r \in Reference : ResolveCredential(a, r)
  \/ \E fit \in BOOLEAN, fallback \in {"none", "unconfigured", "unfit", "fit"} :
       SelectRoute(fit, fallback)
  \/ \E knowledge \in BOOLEAN :
       \/ AttachRemote(knowledge)
       \/ \E proxied \in BOOLEAN : AssembleOptions(proxied, knowledge)

-----------------------------------------------------------------------------
(* What the CLI lets an Agent call: the Lead all of allowed_tools, where the *)
(* tools of its Subagents are joined; a Subagent what its definition lists.   *)
MayCall(a) == IF a = "lead" THEN setup.allowed ELSE setup.of[a].allowed
HasDirectory(a) == directory[a].kind = "published"
Own(a) == IF HasDirectory(a) THEN directory[a].tools ELSE Uses[a] \X ToolName

(* Whatever changed since publication and while the Run was prepared, in a    *)
(* Run that starts a Subagent may call only tools it was published with, and  *)
(* the Lead only those, its own and the platform's; an Agent without a        *)
(* directory only tools of its references.  A published tool is missing only  *)
(* because its credential was not there; every tool offered has its server    *)
(* connected and no server serves two Agents; and a route the task asked for  *)
(* is the one it gets.                                                       *)
ToolsAsPublished ==
  SetupAt("ready") =>
    /\ MayCall("child") \subseteq Own("child")
    /\ \A t \in MayCall("lead") :
         t[1] \in Platform \/ t \in Own("lead") \/ t \in MayCall("child")
    /\ \A a \in Agent :
         HasDirectory(a) => directory[a].tools \subseteq MayCall(a) \cup setup.of[a].unavailable
    /\ \A t \in setup.allowed : t[1] \in setup.servers
    /\ setup.of["lead"].servers \cap setup.of["child"].servers = {}
    /\ host.override # "none" => setup.route = host.override
===============================================================================
