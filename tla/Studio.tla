------------------------------- MODULE Studio ---------------------------------
(*****************************************************************************)
(* Agent Studio (studio/): the draft of an Agent and its publication, the    *)
(* capability catalog of the tenant, the preflight of a preview, and the     *)
(* package of a draft.                                                       *)
(*****************************************************************************)
EXTENDS Naturals
-----------------------------------------------------------------------------
(*****************************************************************************)
(* Agent Studio (studio/service.py): one draft that its owner edits and      *)
(* publishes from several windows, the registry of immutable agent versions  *)
(* (application/agents.py), and the other ways into that registry.  Saving   *)
(* and publishing read the draft, suspend, and write it where its revision   *)
(* is still the expected one; a publication registers the version before it  *)
(* marks the draft.                                                          *)
(*****************************************************************************)

CONSTANTS Window,        \* requests of the owner
          Text, Skill,   \* contents of the instructions, of a large Skill file
          MaxVersion,    \* bound: patch versions
          MaxEdit        \* bound: revisions

ASSUME StudioAssumption ==
  MaxVersion \in Nat \ {0} /\ Text # {} /\ Skill # {} /\ "none" \notin Text

VARIABLES draft,         \* the row: revision, version, spec and publication marks
          registry,      \* spec of every registered version
          window         \* what every request has read and is about to write

studioVars == <<draft, registry, window>>

Version == 1 .. MaxVersion
NoSpec == [text |-> "none", skill |-> "none"]
DraftSpec == [text : Text, skill : Skill]
Unmarked == [version |-> 0, spec |-> NoSpec]
NoDraft == [revision |-> 0, version |-> 0, spec |-> NoSpec, mark |-> Unmarked]
NoEdit == [pc |-> "idle", expected |-> 0, shown |-> "none", next |-> NoDraft]

StudioInit ==
  /\ draft = NoDraft
  /\ registry = [v \in Version |-> NoSpec]
  /\ window = [w \in Window |-> NoEdit]

Waits(w) == window[w].pc = "idle"
Closes(w) == window' = [window EXCEPT ![w] = NoEdit]

-----------------------------------------------------------------------------
(* create from a template, or import_bundle of any content: a new row       *)
NewDraft(spec) == [NoDraft EXCEPT !.revision = 1, !.version = 1, !.spec = spec]
Template == CHOOSE spec \in DraftSpec : TRUE

CreateDraft ==
  draft.revision = 0 /\ draft' = NewDraft(Template) /\ UNCHANGED <<registry, window>>

ImportBundle ==
  /\ draft.revision = 0
  /\ \E spec \in DraftSpec : draft' = NewDraft(spec)
  /\ UNCHANGED <<registry, window>>

(* A window shows a revision; large files are shown as their hash only      *)
(* (compact_draft_for_editor).                                              *)
OpenEditor(w) ==
  /\ Waits(w) /\ draft.revision > 0
  /\ window' = [window EXCEPT ![w] = [NoEdit EXCEPT !.pc = "editing", !.shown = draft.spec.skill,
                                                     !.expected = draft.revision]]
  /\ UNCHANGED <<draft, registry>>

(* Mutant of AutoVersion: a released draft is edited under its old version. *)
AutoVersionKeeps(current, version, spec) == version

(* _auto_version_modified_release                                           *)
AutoVersion(current, version, spec) ==
  IF /\ current.mark.version = version
     /\ [version |-> version, spec |-> spec] # [version |-> current.version, spec |-> current.spec]
  THEN version + 1 ELSE version

(* _merge_editor_skill: what was shown as a hash must still be stored.      *)
Merges(sent, shown, current) == sent = shown => sent = current

(* replace and install_skill up to the write: the new spec is built on what *)
(* is read.                                                                 *)
Edited(w, current, version, spec) ==
  LET v == AutoVersion(current, version, spec)
  IN  /\ v \in Version
      /\ window' = [window EXCEPT ![w].pc = "saving", ![w].shown = "none",
                      ![w].next = [current EXCEPT !.revision = @ + 1, !.version = v, !.spec = spec]]

SaveRead(w) ==
  /\ window[w].pc = "editing" /\ draft.revision <= MaxEdit
  /\ \E text \in Text, version \in Version : \E skill \in Skill :
       IF Merges(skill, window[w].shown, draft.spec.skill)
       THEN Edited(w, draft, version, [text |-> text, skill |-> skill])
       ELSE Closes(w)
  /\ UNCHANGED <<draft, registry>>

InstallSkill(w) ==
  /\ window[w].pc = "editing" /\ draft.revision <= MaxEdit
  /\ \E skill \in Skill : Edited(w, draft, draft.version, [draft.spec EXCEPT !.skill = skill])
  /\ UNCHANGED <<draft, registry>>

(* The row is written at the expected revision, one further.                *)
ReplaceDraft(w, next, expected) ==
  /\ draft' = IF next.revision = expected + 1 /\ draft.revision = expected THEN next ELSE draft
  /\ Closes(w)

SaveWrite(w) ==
  /\ window[w].pc = "saving" /\ ReplaceDraft(w, window[w].next, window[w].expected)
  /\ UNCHANGED registry

-----------------------------------------------------------------------------
(* publish reads the draft, which must be the revision the owner reviewed,  *)
(* if the client says which                                                 *)
PublishRead(w) ==
  /\ window[w].pc \in {"idle", "editing"} /\ draft.revision \in 1 .. MaxEdit
  /\ IF window[w].pc = "editing" => draft.revision = window[w].expected
       THEN window' = [window EXCEPT ![w] = [NoEdit EXCEPT !.pc = "checking", !.next = draft]]
       ELSE Closes(w)
  /\ UNCHANGED <<draft, registry>>

(* _dependency_issues: subagents and capabilities change with the registry  *)
(* and the catalog, so any draft may be refused.                            *)
CheckDependencies(w) ==
  /\ window[w].pc = "checking"
  /\ window' = [window EXCEPT ![w].pc = "publishing"] \/ Closes(w)
  /\ UNCHANGED <<draft, registry>>

(* _idempotent_version, else _publish_snapshot: add, or the same content is *)
(* registered already, or a conflict                                        *)
Idempotent(d) == d.mark = [version |-> d.version, spec |-> d.spec]

PublishRegister(w) ==
  LET d == window[w].next
  IN  /\ window[w].pc = "publishing" /\ UNCHANGED draft
      /\ IF Idempotent(d) THEN Closes(w) /\ UNCHANGED registry
         ELSE IF registry[d.version] \in {NoSpec, d.spec}
         THEN /\ registry' = [registry EXCEPT ![d.version] = d.spec]
              /\ window' = [window EXCEPT ![w].pc = "marking"]
         ELSE Closes(w) /\ UNCHANGED registry

PublishMark(w) ==
  LET d == window[w].next
  IN  /\ window[w].pc = "marking"
      /\ ReplaceDraft(w, [d EXCEPT !.revision = @ + 1,
                                   !.mark = [version |-> d.version, spec |-> d.spec]], d.revision)
      /\ UNCHANGED registry

(* The API of the registry takes a bundle of the same agent (publish_bundle *)
(* of a client, a fork of a shared agent).                                  *)
PublishBundle ==
  /\ \E v \in Version, spec \in DraftSpec :
       registry[v] = NoSpec /\ registry' = [registry EXCEPT ![v] = spec]
  /\ UNCHANGED <<draft, window>>

(* The process dies, or the client goes away before the next step.          *)
WindowLost(w) ==
  ~Waits(w) /\ Closes(w) /\ UNCHANGED <<draft, registry>>

StudioNext ==
  \/ CreateDraft \/ ImportBundle \/ PublishBundle
  \/ \E w \in Window : \/ OpenEditor(w) \/ SaveRead(w) \/ InstallSkill(w) \/ SaveWrite(w)
                       \/ PublishRead(w) \/ CheckDependencies(w) \/ PublishRegister(w)
                       \/ PublishMark(w) \/ WindowLost(w)

StudioSpec == StudioInit /\ [][StudioNext]_studioVars

-----------------------------------------------------------------------------
(* A draft that shows itself as released under a version holds exactly what *)
(* is registered under it, although saving, installing and publishing       *)
(* interleave, the registry has other writers and a publication may stop    *)
(* between its two writes.                                                  *)
ReleasedAsShown ==
  draft.mark.version # 0 =>
    /\ registry[draft.mark.version] = draft.mark.spec
    /\ draft.version = draft.mark.version => draft.spec = draft.mark.spec
-----------------------------------------------------------------------------
(*****************************************************************************)
(* The capability catalog of a tenant (studio/catalog_service.py): model     *)
(* routes, MCP servers, policies and execution profiles in one row with a    *)
(* revision.  Every read may upgrade a row the system still owns; disabling  *)
(* or changing an entry reads the catalog three times before it writes.      *)
(*****************************************************************************)

CONSTANTS Clerk,         \* requests that change an entry
          Visitor,       \* requests that read the catalog
          Entry,         \* entries of the catalog
          MaxCatalog     \* bound: revisions

ASSUME CatalogAssumption == Entry # {}

VARIABLES catalog,       \* the row: revision, who wrote it, version of every
                         \* entry, whether built-in entries are of an old release,
                         \* whether it has MCP servers that belong to nobody
          clerk          \* what every request has read

catalogVars == <<catalog, clerk>>

NoCatalog == [revision |-> 0, by |-> "system", old |-> FALSE, unscoped |-> FALSE,
              entries |-> [e \in Entry |-> 0]]
AtDesk == [pc |-> "idle", expected |-> 0, entry |-> CHOOSE e \in Entry : TRUE,
           current |-> NoCatalog, basis |-> NoCatalog]
Reads(pc) == pc \in {"look", "first", "impact", "second"}

(* No row yet, or one of an earlier release, as it was seeded or as an      *)
(* administrator left it                                                    *)
CatalogInit ==
  /\ catalog \in {NoCatalog} \cup
       [revision : {1}, by : {"system", "admin"}, old : {TRUE}, unscoped : BOOLEAN,
        entries : {NoCatalog.entries}]
  /\ clerk = [c \in Clerk \cup Visitor |-> AtDesk]

-----------------------------------------------------------------------------
(* get: the row is seeded; a row of the system gets the new built-in        *)
(* entries and any row owners for its MCP servers, which makes it a row of  *)
(* the system again.  It is compared and set, and read again if somebody    *)
(* else was faster.                                                         *)
Seeded == IF catalog.revision = 0 THEN [NoCatalog EXCEPT !.revision = 1] ELSE catalog
Managed(row) == row.by = "system"
Outdated(row) == row.unscoped \/ (Managed(row) /\ row.old)
Upgrade(row) == [row EXCEPT !.revision = @ + 1, !.by = "system", !.unscoped = FALSE,
                            !.old = @ /\ ~Managed(row)]

After == [look |-> "idle", first |-> "impact", impact |-> "second", second |-> "write"]

(* The request has read row; the change is made to what the first read gave *)
Has(c, row) ==
  LET pc == clerk[c].pc
      next == After[pc]
  IN  clerk' = [clerk EXCEPT ![c] =
        IF next = "idle" THEN AtDesk
        ELSE [@ EXCEPT !.pc = next,
                       !.current = IF next = "write" THEN row ELSE NoCatalog,
                       !.basis = IF pc = "first" THEN row ELSE clerk[c].basis]]

Get(c) ==
  /\ Reads(clerk[c].pc) /\ clerk[c].current = NoCatalog
  /\ catalog' = Seeded
  /\ IF Outdated(Seeded) THEN clerk' = [clerk EXCEPT ![c].current = Seeded] ELSE Has(c, Seeded)

GetUpgrade(c) ==
  LET row == clerk[c].current
  IN  /\ Reads(clerk[c].pc) /\ row # NoCatalog
      /\ catalog' = IF catalog.revision = row.revision THEN Upgrade(row) ELSE catalog
      /\ Has(c, catalog')

-----------------------------------------------------------------------------
Look(c) ==
  /\ c \in Visitor /\ clerk[c].pc = "idle" /\ clerk' = [clerk EXCEPT ![c].pc = "look"]
  /\ UNCHANGED catalog

(* disable, upsert: of the entry the owner saw at some revision             *)
Ask(c, e) ==
  /\ c \in Clerk /\ clerk[c].pc = "idle" /\ catalog.revision \in 1 .. MaxCatalog
  /\ clerk' = [clerk EXCEPT ![c] = [@ EXCEPT !.pc = "first", !.entry = e,
                                             !.expected = catalog.revision]]
  /\ UNCHANGED catalog

(* replace: one revision further than the last read, at the expected one    *)
ReplaceRow(row, expected, current) ==
  IF current.revision = expected /\ catalog.revision = expected
  THEN [row EXCEPT !.revision = current.revision + 1] ELSE catalog

ReplaceCatalog(c) ==
  LET s == clerk[c]
      row == [s.basis EXCEPT !.by = "admin", !.entries[s.entry] = @ + 1]
  IN  /\ s.pc = "write"
      /\ catalog' = ReplaceRow(row, s.expected, s.current)
      /\ clerk' = [clerk EXCEPT ![c] = AtDesk]

CatalogNext ==
  \E c \in Clerk \cup Visitor :
    Get(c) \/ GetUpgrade(c) \/ Look(c) \/ ReplaceCatalog(c) \/ \E e \in Entry : Ask(c, e)

CatalogSpec == CatalogInit /\ [][CatalogNext]_catalogVars

-----------------------------------------------------------------------------
(* catalog_service.py:170, "Never overwrite that concurrent decision": no   *)
(* write takes back a change of another request or an upgrade it has not    *)
(* seen, although the change is made to the catalog of an earlier read than *)
(* the one whose revision is compared.                                      *)
CatalogEditsKept ==
  [][ /\ \A e \in Entry : catalog'.entries[e] >= catalog.entries[e]
      /\ catalog.old \/ ~catalog'.old ]_catalogVars

-----------------------------------------------------------------------------
(***************************************************************************)
(* LivePreflightRunner (studio/preflight.py): the checks of a preview run    *)
(* one after the other against a real sandbox, watched for a cancellation    *)
(* of the preview and a timeout, and always end with a cleanup.  The         *)
(* provisioner then stores the result in the preview row before the          *)
(* controller advances it.                                                   *)
(***************************************************************************)

CONSTANTS Stages,        \* checks before the cleanup; the second one provisions
          MaxAttach,     \* attempts to store the result
          MaxGlitches    \* bound: failed reads of the preview

ASSUME StagesAssumption == Stages \in Nat /\ Stages >= 2

VARIABLES row,           \* the preview: status, fencing token, has it a result
          flight,        \* the runner: stage, what it does, its verdict
          checks,        \* status of every check that completed
          events,        \* started and completed events
          box,           \* sandboxes: made for this preflight, and its handle
          glitches

preflightVars == <<row, flight, checks, events, box, glitches>>

ProvisionStage == 2
CleanupStage == Stages + 1

PreflightInit ==
  /\ row = [status |-> "provisioning", token |-> 1, result |-> FALSE]
  /\ flight = [pc |-> "check", stage |-> 1, verdict |-> "passed", attempt |-> 0, seen |-> 0]
  /\ checks = [s \in 1 .. CleanupStage |-> "none"]
  /\ events = [started |-> {}, completed |-> {}]
  /\ box = [made |-> FALSE, handle |-> FALSE, orphan |-> FALSE]
  /\ glitches = 0

Flies(pc) == flight.pc = pc
Cancelling == row.status = "cancelling"
Glitch == glitches < MaxGlitches /\ glitches' = glitches + 1

(* The check completes with a status; a bad one ends the checks.            *)
Completes(s, status, verdict) ==
  /\ checks' = [checks EXCEPT ![s] = status]
  /\ events' = [events EXCEPT !.completed = @ \cup {s}]
  /\ flight' = [flight EXCEPT !.verdict = verdict,
                 !.stage = IF status = "passed" THEN s + 1 ELSE CleanupStage,
                 !.pc = IF status = "passed" /\ s < Stages THEN "check" ELSE "clean"]

-----------------------------------------------------------------------------
(* record: a cancellation before the check ends the preflight without a     *)
(* check of this stage; a failing read ends it with that exception          *)
BeginCheck ==
  /\ Flies("check")
  /\ IF Cancelling
       THEN flight' = [flight EXCEPT !.pc = "clean", !.stage = CleanupStage,
                                     !.verdict = "cancelled"]
                 /\ UNCHANGED events
       ELSE flight' = [flight EXCEPT !.pc = "running"]
                 /\ events' = [events EXCEPT !.started = @ \cup {flight.stage}]
  /\ UNCHANGED <<row, checks, box, glitches>>

BeginFails ==
  /\ Flies("check") /\ Glitch
  /\ flight' = [flight EXCEPT !.pc = "clean", !.stage = CleanupStage, !.verdict = "raised"]
  /\ UNCHANGED <<row, checks, events, box>>

(* The action of the check returns; that of the second keeps the handle.    *)
CheckPasses ==
  /\ Flies("running") /\ Completes(flight.stage, "passed", flight.verdict)
  /\ box' = IF flight.stage = ProvisionStage
              THEN [box EXCEPT !.made = TRUE, !.handle = TRUE] ELSE box
  /\ UNCHANGED <<row, glitches>>

(* A check fails: a stale draft, drifted hashes, a wrong provider, a probe, *)
(* a denied tool, the workspace; provision may fail with or without handle. *)
CheckFails ==
  /\ Flies("running") /\ Completes(flight.stage, "failed", "failed")
  /\ box' \in {box} \cup IF flight.stage = ProvisionStage
                         THEN {[box EXCEPT !.made = TRUE, !.handle = TRUE]} ELSE {}
  /\ UNCHANGED <<row, glitches>>

(* Every 250 ms the preview is read; the action is cancelled and awaited.   *)
(* A provision that is cancelled may leave a sandbox (RunPods).             *)
PollCancels ==
  /\ Flies("running") /\ Cancelling /\ Completes(flight.stage, "cancelled", "cancelled")
  /\ box' \in {box} \cup
              IF flight.stage = ProvisionStage THEN {[box EXCEPT !.orphan = TRUE]} ELSE {}
  /\ UNCHANGED <<row, glitches>>

(* The read fails: the check counts as failed and its action goes on alone. *)
PollFails ==
  /\ Flies("running") /\ Glitch /\ Completes(flight.stage, "failed", "failed")
  /\ box' \in {box} \cup
              IF flight.stage = ProvisionStage THEN {[box EXCEPT !.orphan = TRUE]} ELSE {}
  /\ UNCHANGED row

(* Mutant of TimesOut: the interrupted check is not completed.              *)
TimesOutSilently ==
  /\ flight.pc \in {"check", "running"}
  /\ flight' = [flight EXCEPT !.pc = "clean", !.stage = CleanupStage, !.verdict = "timed_out"]
  /\ UNCHANGED <<checks, events, box>>

(* asyncio.timeout: the check that has started is completed as timed out    *)
TimesOut ==
  /\ flight.pc \in {"check", "running"}
  /\ IF Flies("running")
       THEN /\ Completes(flight.stage, "timed_out", "timed_out")
            /\ box' \in {box} \cup IF flight.stage = ProvisionStage
                                   THEN {[box EXCEPT !.orphan = TRUE]} ELSE {}
       ELSE /\ flight' = [flight EXCEPT !.pc = "clean", !.stage = CleanupStage,
                                         !.verdict = "timed_out"]
            /\ UNCHANGED <<checks, events, box>>

Timeout == TimesOut /\ UNCHANGED <<row, glitches>>

(* finally: cleanup_check, whatever happened                                *)
CleanUp ==
  /\ Flies("clean")
  /\ \E ok \in IF box.handle THEN BOOLEAN ELSE {TRUE} :
       /\ checks' = [checks EXCEPT ![CleanupStage] = IF ok THEN "passed" ELSE "failed"]
       /\ events' = [started |-> events.started \cup {CleanupStage},
                     completed |-> events.completed \cup {CleanupStage}]
       /\ flight' = [flight EXCEPT !.verdict = IF ok THEN @ ELSE "failed",
                                   !.pc = IF flight.verdict = "raised" THEN "returned" ELSE "read"]
       /\ box' = [box EXCEPT !.made = @ /\ ~ok]
  /\ UNCHANGED <<row, glitches>>

-----------------------------------------------------------------------------
(* _attach: read the row, write it with the result where it is unchanged    *)
PreviewOver == row.status \in {"cancelled", "expired", "failed", "ready"}

AttachRead ==
  /\ Flies("read")
  /\ flight' = IF PreviewOver \/ flight.attempt = MaxAttach
               THEN [flight EXCEPT !.pc = "returned"]
               ELSE [flight EXCEPT !.pc = "write", !.seen = row.token]
  /\ UNCHANGED <<row, checks, events, box, glitches>>

AttachWrite ==
  /\ Flies("write")
  /\ IF row.token = flight.seen
       THEN /\ row' = [row EXCEPT !.result = TRUE, !.token = @ + 1]
            /\ flight' = [flight EXCEPT !.pc = "returned"]
       ELSE /\ flight' = [flight EXCEPT !.pc = "read", !.attempt = @ + 1] /\ UNCHANGED row
  /\ UNCHANGED <<checks, events, box, glitches>>

(* The controller moves the preview by the verdict and the status it reads. *)
AdvancePreview ==
  /\ Flies("returned") /\ ~PreviewOver
  /\ row' = [row EXCEPT !.token = @ + 1, !.status =
       IF flight.verdict \in {"failed", "timed_out"} \/ ~row.result THEN "failed"
       ELSE IF Cancelling THEN "cancelled" ELSE "ready"]
  /\ UNCHANGED <<flight, checks, events, box, glitches>>

(* Others: cancel by the user, expiry by the reaper                         *)
CancelPreview ==
  /\ row.status = "provisioning"
  /\ row' = [row EXCEPT !.status = "cancelling", !.token = @ + 1]
  /\ UNCHANGED <<flight, checks, events, box, glitches>>

ExpirePreview ==
  /\ ~PreviewOver /\ row' = [row EXCEPT !.status = "expired", !.token = @ + 1]
  /\ UNCHANGED <<flight, checks, events, box, glitches>>

PreflightNext ==
  \/ BeginCheck \/ BeginFails \/ CheckPasses \/ CheckFails \/ PollCancels \/ PollFails
  \/ Timeout
  \/ CleanUp \/ AttachRead \/ AttachWrite \/ AdvancePreview \/ CancelPreview \/ ExpirePreview

PreflightSpec == PreflightInit /\ [][PreflightNext]_preflightVars

-----------------------------------------------------------------------------
(* A preview is ready only if every check and the cleanup passed and the    *)
(* result is stored; the report of a preflight that returned closes every   *)
(* check it opened, and no sandbox with a handle is left unless the cleanup *)
(* says so.                                                                 *)
ReadyMeansChecked ==
  /\ row.status = "ready" => row.result /\ \A s \in 1 .. CleanupStage : checks[s] = "passed"
  /\ Flies("returned") => events.started = events.completed
                          /\ (box.made => checks[CleanupStage] = "failed")

-----------------------------------------------------------------------------
(***************************************************************************)
(* The package of a draft (studio/compiler.py, agent_package.py,             *)
(* core/manifest.py, studio/bundle_import.py): a draft is compiled under the *)
(* catalog a request has read and packed with the hash of its files; an      *)
(* archive is parsed back into a new draft, compiled again under the catalog *)
(* of that moment, and kept if the two hashes agree.  One user exports and   *)
(* imports; a behaviour follows one archive, the next one starts afresh.     *)
(***************************************************************************)

CONSTANTS Profile,         \* execution profiles
          DefaultProfile,  \* the one of a draft that names none
          MaxOffer         \* bound: changes of the catalog

ASSUME ProfileAssumption == DefaultProfile \in Profile /\ "none" \notin Profile /\ MaxOffer \in Nat

VARIABLES offer,           \* what the catalog has of what a draft may name
          browsing,        \* the catalog an export has read, or NoOffer
          parcel,          \* the archive on its way: who made it, of what, its files
          reimport         \* what became of the last archive

packageVars == <<offer, browsing, parcel, reimport>>

Exposure == {"eager", "on_demand"}

(* What agent.yaml and the files beside it say: are they what packing and     *)
(* reading leave as they are (Skills listed by name, plain newlines, no file  *)
(* that packing excludes), the exposure of the tools, is tool_search required,*)
(* does it name an MCP server and a Python tool, and do its texts load, and   *)
(* with its evaluations and policy pass the checks of a package.              *)
PackagedAgent == [plain : BOOLEAN, exposure : Exposure, search : BOOLEAN, server : BOOLEAN,
                  operator : BOOLEAN, texts : {"unreadable", "unfit", "fit"}]
PackagedSpec == [agent : PackagedAgent, profile : Profile]

NoOffer == [revision |-> 0, route |-> "off", server |-> "unknown",
            profiles |-> [p \in Profile |-> "off"]]
FullOffer == [revision |-> 1, route |-> "search", server |-> "on",
              profiles |-> [p \in Profile |-> "open"]]
NoDirectory == [revision |-> 0, exposure |-> "eager", server |-> FALSE, operator |-> FALSE]
NoAgent == [plain |-> TRUE, exposure |-> "eager", search |-> FALSE, server |-> FALSE,
            operator |-> FALSE, texts |-> "fit"]
NoDesign == [agent |-> NoAgent, profile |-> DefaultProfile]
NoPackage == [agent |-> NoAgent, profile |-> "none", directory |-> NoDirectory]
NoParcel == [maker |-> "nobody", design |-> NoDesign, under |-> 0, files |-> NoPackage]
NoImport == [result |-> "none", of |-> NoParcel, at |-> 0, spec |-> NoDesign]

PackageInit ==
  /\ offer = FullOffer
  /\ browsing = NoOffer
  /\ parcel = NoParcel
  /\ reimport = NoImport

-----------------------------------------------------------------------------
(* agent.yaml of a draft: tools found on demand require tool_search          *)
Rendered(agent) == [agent EXCEPT !.search = agent.search \/ agent.exposure = "on_demand"]

(* Errors the catalog finds: the route, model and policy, the tools, and the  *)
(* execution profile, which has to admit the network and egress of the server *)
RouteServes(agent, o) ==
  /\ o.route # "off"
  /\ agent.search \/ agent.exposure = "on_demand" => o.route = "search"

ToolsServe(agent, o) ==
  /\ agent.exposure = "on_demand" => agent.server /\ ~agent.operator
  /\ agent.server => o.server = "on"

ProfileServes(spec, o) ==
  /\ spec.profile \in Profile
  /\ o.profiles[spec.profile] # "off"
  /\ spec.agent.server /\ o.server = "on" => o.profiles[spec.profile] = "open"

(* tool-directory.json: the tools of the entries the catalog still has        *)
DirectoryOf(agent, o) ==
  [revision |-> o.revision, exposure |-> agent.exposure,
   server |-> agent.server /\ o.server # "unknown", operator |-> agent.operator]

(* Mutant of Materialized: studio.json leaves the execution profile out.     *)
MaterializedBare(spec, o) ==
  [agent |-> Rendered(spec.agent), profile |-> "none",
   directory |-> DirectoryOf(spec.agent, o)]

(* The files of a draft; studio.json has its execution profile               *)
Materialized(spec, o) ==
  [agent |-> Rendered(spec.agent), profile |-> spec.profile,
   directory |-> DirectoryOf(spec.agent, o)]

(* load_manifest reads the Skills and Python tools; the directory is of this  *)
(* Manifest, and a Manifest whose tools are found on demand needs one.        *)
TextsLoad(agent) == agent.texts # "unreadable"

DirectoryFits(files) ==
  \/ files.directory = NoDirectory /\ files.agent.exposure = "eager"
  \/ /\ files.directory # NoDirectory
     /\ files.directory.exposure = files.agent.exposure
     /\ files.directory.server = files.agent.server
     /\ files.directory.operator = files.agent.operator

Loads(files) == TextsLoad(files.agent) /\ DirectoryFits(files)

PackagePasses(files) ==
  /\ Loads(files)
  /\ files.agent.texts = "fit"
  /\ files.agent.exposure = "on_demand" => files.agent.search

(* The hash covers the name and content of every file.                       *)
PackageHash(files) == files

CatalogServes(spec, o) ==
  RouteServes(spec.agent, o) /\ ToolsServe(spec.agent, o) /\ ProfileServes(spec, o)

Compiles(spec, o) == CatalogServes(spec, o) /\ PackagePasses(Materialized(spec, o))

(* What does not load ends a request; other issues are listed.               *)
LoadFails(spec, o) == CatalogServes(spec, o) /\ ~Loads(Materialized(spec, o))

-----------------------------------------------------------------------------
(* An editor or an administrator changes one entry of the catalog; a server   *)
(* that is on lists its tools.                                               *)
OfferChanges ==
  /\ offer.revision <= MaxOffer
  /\ \/ \E r \in {"off", "plain", "search"} :
          offer' = [offer EXCEPT !.revision = @ + 1, !.route = r]
     \/ \E s \in {"unknown", "off", "on"} :
          offer' = [offer EXCEPT !.revision = @ + 1, !.server = s]
     \/ \E p \in Profile, x \in {"off", "closed", "open"} :
          offer' = [offer EXCEPT !.revision = @ + 1, !.profiles[p] = x]
  /\ UNCHANGED <<browsing, parcel, reimport>>

(* No archive was made yet.                                                  *)
Fresh == parcel = NoParcel /\ browsing = NoOffer /\ reimport = NoImport

(* bundle reads the catalog, suspends, and reads the draft as it then is.    *)
BrowseOffer ==
  /\ Fresh
  /\ browsing' = offer
  /\ UNCHANGED <<offer, parcel, reimport>>

ExportDraft ==
  /\ browsing # NoOffer
  /\ \E spec \in PackagedSpec :
       parcel' = IF Compiles(spec, browsing)
                 THEN [maker |-> "studio", design |-> spec, under |-> browsing.revision,
                       files |-> Materialized(spec, browsing)]
                 ELSE parcel
  /\ browsing' = NoOffer
  /\ UNCHANGED <<offer, reimport>>

(* Archives of other makers: packed by hand from a directory without Studio's *)
(* file, and an export of NexAU.                                              *)
HandMade ==
  /\ Fresh
  /\ \E agent \in PackagedAgent, listed \in BOOLEAN :
       LET files == [agent |-> agent, profile |-> "none",
                     directory |-> IF listed THEN DirectoryOf(agent, FullOffer) ELSE NoDirectory]
       IN  /\ PackagePasses(files)
           /\ parcel' = [NoParcel EXCEPT !.maker = "hand", !.files = files]
  /\ UNCHANGED <<offer, browsing, reimport>>

FromNexau ==
  /\ Fresh
  /\ \E agent \in PackagedAgent :
       parcel' = [NoParcel EXCEPT !.maker = "nexau", !.files = [NoPackage EXCEPT !.agent = agent]]
  /\ UNCHANGED <<offer, browsing, reimport>>

(* A file of an archive is changed on its way: hashes no longer agree.       *)
Damage ==
  /\ parcel.maker \in {"studio", "hand"}
  /\ parcel' = [parcel EXCEPT !.maker = "damaged"]
  /\ UNCHANGED <<offer, browsing, reimport>>

(* extract_agent_bundle: the inventory and both hashes are those of the files *)
Intact(archive) == archive.maker \in {"studio", "hand"}

(* parse_agent_bundle: Skills come sorted; without studio.json the profile is *)
(* the default one.                                                          *)
BundleSpec(files) ==
  [agent |-> [files.agent EXCEPT !.plain = TRUE],
   profile |-> IF files.profile = "none" THEN DefaultProfile ELSE files.profile]

(* The conversion of NexAU loads all tools at once, under the default profile.*)
NexauSpec(files) ==
  [agent |-> [files.agent EXCEPT !.exposure = "eager", !.search = FALSE],
   profile |-> DefaultProfile]

(* What is not intact is tried as an export of NexAU.                        *)
ParsedSpec(archive) ==
  IF Intact(archive) THEN BundleSpec(archive.files) ELSE NexauSpec(archive.files)

Parses(archive) == (Intact(archive) /\ PackagePasses(archive.files)) \/ archive.maker = "nexau"
Lossless(archive) == Intact(archive) /\ archive.files.profile # "none"

(* import_bundle: what is lossless has to compile to the very same files     *)
Verified(archive, o) ==
  /\ Compiles(ParsedSpec(archive), o)
  /\ PackageHash(Materialized(ParsedSpec(archive), o)) = PackageHash(archive.files)

ImportArchive ==
  /\ parcel # NoParcel
  /\ LET kept == /\ Parses(parcel) /\ ~LoadFails(ParsedSpec(parcel), offer)
                 /\ Lossless(parcel) => Verified(parcel, offer)
     IN  reimport' = [result |-> IF kept THEN "kept" ELSE "refused", of |-> parcel,
                      at |-> offer.revision,
                      spec |-> IF kept THEN ParsedSpec(parcel) ELSE NoDesign]
  /\ parcel' = NoParcel
  /\ UNCHANGED <<offer, browsing>>

PackageNext ==
  OfferChanges \/ BrowseOffer \/ ExportDraft \/ HandMade \/ FromNexau \/ Damage \/ ImportArchive

PackageSpec == PackageInit /\ [][PackageNext]_packageVars

-----------------------------------------------------------------------------
(* An archive of Studio that was not changed on its way comes back as the     *)
(* draft it was made of but for blanks around its texts, with tool_search     *)
(* required where its tools are found on demand, whatever became of the       *)
(* catalog between its export and its import; under the catalog it was        *)
(* compiled with it is refused only for what packing and reading change (the  *)
(* order of its Skills); and nothing changed on its way becomes a draft.      *)
AsExported ==
  /\ reimport.of.maker = "studio" =>
       /\ reimport.result = "kept" =>
            reimport.spec = [agent |-> [reimport.of.design.agent EXCEPT
                                          !.search = @ \/ reimport.of.design.agent.exposure = "on_demand"],
                             profile |-> reimport.of.design.profile]
       /\ reimport.result = "refused" =>
            reimport.at # reimport.of.under \/ ~reimport.of.design.agent.plain
  /\ reimport.of.maker = "damaged" => reimport.result = "refused"

(* So ends every import, of whatever archive under whatever catalog.         *)
CopiesAsExported == [][AsExported']_packageVars
===============================================================================
