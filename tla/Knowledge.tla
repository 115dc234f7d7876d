------------------------------ MODULE Knowledge -------------------------------
(*****************************************************************************)
(* What is shared in a tenant: the members and the publications of a team    *)
(* space, and the knowledge sources that are shared through it and searched  *)
(* by Runs.                                                                  *)
(*****************************************************************************)
EXTENDS Naturals, FiniteSets
-----------------------------------------------------------------------------
(*****************************************************************************)
(* One team space (sharing/service.py, storage/sharing_repository.py): its   *)
(* members and their roles, and what is shared with it, agent versions and   *)
(* knowledge bases.  Every request checks the actor's role and then writes   *)
(* one row; nothing guards the row against a change in between.              *)
(*****************************************************************************)

CONSTANTS Person,       \* users of the tenant
          Creator,      \* the user who created the space
          Manager,      \* requests of the sharing API
          Base,         \* knowledge bases
          MaxAsked      \* bound: requests that change something

VARIABLES members,      \* role of every person, "none" if not a member
          sharedBases,  \* knowledge bases shared with the space
          sharedAgents, \* owners of the shared version, and if viewers may run it
          agents,       \* content of the version that each person owns, or "none"
          manager,      \* a request that has passed its checks, and its write
          asked         \* how many requests were made

spaceVars == <<members, sharedBases, sharedAgents, agents, manager, asked>>

Roles == {"owner", "admin", "contributor", "viewer"}
ManageRoles == {"owner", "admin"}
PublishRoles == ManageRoles \cup {"contributor"}
Passive == [pc |-> "idle", who |-> Creator, role |-> "none", base |-> CHOOSE b \in Base : TRUE]

(* create: the creator is the owner.  Or the others have joined, and the    *)
(* bases are shared with them.                                              *)
SpaceInit ==
  /\ \E role \in {"none", "viewer"} :
       /\ members = [u \in Person |-> IF u = Creator THEN "owner" ELSE role]
       /\ sharedBases = IF role = "none" THEN {} ELSE Base
  /\ sharedAgents = {}
  /\ \E other \in {"none", "b"} : agents = [u \in Person |-> IF u = Creator THEN "a" ELSE other]
  /\ manager = [r \in Manager |-> Passive]
  /\ asked = 0

Asked == asked < MaxAsked /\ asked' = asked + 1
Checked(r, write) ==
  manager[r].pc = "idle" /\ Asked /\ manager' = [manager EXCEPT ![r] = write]
Writes(r, pc) ==
  manager[r].pc = pc /\ manager' = [manager EXCEPT ![r] = Passive] /\ UNCHANGED asked
LastOwner(u) == members[u] = "owner" /\ Cardinality({v \in Person : members[v] = "owner"}) = 1

-----------------------------------------------------------------------------
(* put_member                                                               *)
MayPut(actor, u, role) ==
  /\ members[actor] \in ManageRoles
  /\ members[actor] = "admin" => {role, members[u]} \cap ManageRoles = {}
  /\ ~(LastOwner(u) /\ role # "owner")

CheckPut(r) ==
  /\ \E actor, u \in Person, role \in Roles :
       MayPut(actor, u, role) /\ Checked(r, [Passive EXCEPT !.pc = "put", !.who = u, !.role = role])
  /\ UNCHANGED <<members, sharedBases, sharedAgents, agents>>

PutMember(r) ==
  /\ Writes(r, "put")
  /\ members' = [members EXCEPT ![manager[r].who] = manager[r].role]
  /\ UNCHANGED <<sharedBases, sharedAgents, agents>>

(* remove_member: managers remove others, anybody removes himself           *)
MayRemove(actor, u) ==
  /\ members[actor] # "none" /\ members[u] # "none"
  /\ actor # u => members[actor] \in ManageRoles
  /\ members[actor] = "admin" => members[u] \notin ManageRoles
  /\ ~LastOwner(u)

CheckRemove(r) ==
  /\ \E actor, u \in Person :
       MayRemove(actor, u) /\ Checked(r, [Passive EXCEPT !.pc = "remove", !.who = u])
  /\ UNCHANGED <<members, sharedBases, sharedAgents, agents>>

DeleteMember(r) ==
  /\ Writes(r, "remove")
  /\ members' = [members EXCEPT ![manager[r].who] = "none"]
  /\ UNCHANGED <<sharedBases, sharedAgents, agents>>

-----------------------------------------------------------------------------
(* share_knowledge and unshare_knowledge                                    *)
CheckBase(r) ==
  /\ \E actor \in Person, b \in Base, pc \in {"shareBase", "unshareBase"} :
       members[actor] \in ManageRoles /\ Checked(r, [Passive EXCEPT !.pc = pc, !.base = b])
  /\ UNCHANGED <<members, sharedBases, sharedAgents, agents>>

ShareBase(r) ==
  /\ Writes(r, "shareBase") /\ sharedBases' = sharedBases \cup {manager[r].base}
  /\ UNCHANGED <<members, sharedAgents, agents>>

UnshareBase(r) ==
  /\ Writes(r, "unshareBase") /\ sharedBases' = sharedBases \ {manager[r].base}
  /\ UNCHANGED <<members, sharedAgents, agents>>

(* share_agent, of one's own published version                              *)
CheckAgent(r) ==
  /\ \E u \in Person :
       /\ members[u] \in PublishRoles /\ agents[u] # "none"
       /\ Checked(r, [Passive EXCEPT !.pc = "shareAgent", !.who = u])
  /\ UNCHANGED <<members, sharedBases, sharedAgents, agents>>

ShareAgent(r) ==
  /\ Writes(r, "shareAgent")
  /\ \E viewers \in BOOLEAN :
       sharedAgents' = IF \E s \in sharedAgents : s.owner = manager[r].who THEN sharedAgents
                         ELSE sharedAgents \cup {[owner |-> manager[r].who, viewers |-> viewers]}
  /\ UNCHANGED <<members, sharedBases, agents>>

(* unshare_agent: contributors take back only what is their own             *)
CheckUnshare(r) ==
  /\ \E actor, u \in Person :
       /\ members[actor] \in PublishRoles
       /\ u # actor => members[actor] # "contributor"
       /\ Checked(r, [Passive EXCEPT !.pc = "unshareAgent", !.who = u])
  /\ UNCHANGED <<members, sharedBases, sharedAgents, agents>>

UnshareAgent(r) ==
  /\ Writes(r, "unshareAgent")
  /\ sharedAgents' = {s \in sharedAgents : s.owner # manager[r].who}
  /\ UNCHANGED <<members, sharedBases, agents>>

(* require_agent_access: members, and viewers where it is open to them      *)
HasAgentAccess(u, s) == members[u] # "none" /\ (members[u] = "viewer" => s.viewers)

(* fork_agent: a personal copy; one that exists is kept                     *)
ForkAgent(r) ==
  /\ manager[r].pc = "idle" /\ Asked
  /\ \E u \in Person, s \in sharedAgents :
       /\ HasAgentAccess(u, s)
       /\ agents' = [agents EXCEPT ![u] = IF @ = "none" THEN agents[s.owner] ELSE @]
  /\ UNCHANGED <<members, sharedBases, sharedAgents, manager>>

SpaceNext ==
  \E r \in Manager :
    \/ CheckPut(r) \/ PutMember(r) \/ CheckRemove(r) \/ DeleteMember(r)
    \/ CheckBase(r) \/ ShareBase(r) \/ UnshareBase(r)
    \/ CheckAgent(r) \/ ShareAgent(r) \/ CheckUnshare(r) \/ UnshareAgent(r) \/ ForkAgent(r)
-----------------------------------------------------------------------------
(*****************************************************************************)
(* Knowledge sources (knowledge/service.py, knowledge_repository.py): the    *)
(* owner creates and edits a source and synchronises it; a synchronisation   *)
(* fetches documents with the source as it was read and publishes a          *)
(* snapshot if the source has not changed.  A session pins snapshots when    *)
(* it starts; each search of its Runs checks access again before it reads    *)
(* them.                                                                     *)
(*****************************************************************************)

CONSTANTS Source,       \* knowledge sources, all of Creator
          Syncer,       \* requests that edit or synchronise sources
          Reader,       \* Runs that search, each for one person
          PersonOf,     \* the person a reader's session belongs to
          Config,       \* configurations of a source
          Content,      \* what a connector can find
          MaxRevision   \* bound: revisions of a source, of the base

ASSUME SourceAssumption == Source # {} /\ Config # {} /\ Content # {}

VARIABLES source,       \* rows: revision, config, health, acl, snapshot, checkpoint
          base,         \* the base: revision, sources
          syncer,       \* a request, and the row that it has read
          syncs,        \* status of every request's last synchronisation
          reader,       \* pinned sources, those checked and loaded
          fetched,      \* history: contents ever found with a configuration
          since         \* history: what has let a reader in since its search began

spaceRows == <<members, sharedBases, sharedAgents, agents, manager>>
knowledgeVars == <<spaceVars, source, base, syncer, syncs, reader, fetched, since>>

TheBase == CHOOSE b \in Base : TRUE
NoContent == "none"
NewSource(c) == [revision |-> 0, config |-> c, health |-> "pending", acl |-> {},
                 snapshot |-> NoContent]
Quiet == [pc |-> "idle", source |-> CHOOSE s \in Source : TRUE, found |-> NoContent,
          read |-> NewSource(CHOOSE c \in Config : TRUE), members |-> {}]
NoSearch == [pc |-> "none", pinned |-> {}, teams |-> FALSE, acl |-> [s \in Source |-> {}],
             checked |-> {}, member |-> FALSE]

(* Nothing exists yet, or the sources are synchronised and in the base      *)
KnowledgeInit ==
  /\ SpaceInit
  /\ LET c == CHOOSE d \in Config : TRUE
          x == CHOOSE y \in Content : TRUE
     IN  \/ /\ source = [s \in Source |-> NewSource(c)]
            /\ base = [revision |-> 0, sources |-> {}]
            /\ fetched = [d \in Config |-> {}]
         \/ /\ source = [s \in Source |-> [NewSource(c) EXCEPT !.revision = 1, !.snapshot = x,
                                                            !.health = "healthy"]]
            /\ base = [revision |-> 1, sources |-> Source]
            /\ fetched = [d \in Config |-> IF d = c THEN {x} ELSE {}]
  /\ syncer = [q \in Syncer |-> Quiet]
  /\ syncs = [q \in Syncer |-> "none"]
  /\ reader = [r \in Reader |-> NoSearch]
  /\ since = [r \in Reader |-> {}]

-----------------------------------------------------------------------------
(* create_source and create_base: unique references                        *)
CreateSource(q) ==
  /\ syncer[q].pc = "idle" /\ Asked
  /\ \E s \in Source, acl \in {{}, Person} :
       /\ source[s].revision = 0
       /\ source' = [source EXCEPT ![s].revision = 1, ![s].acl = acl]
  /\ UNCHANGED <<spaceRows, base, syncer, syncs, reader, fetched>>

(* replace_base, and create_base at revision 0: the sources must exist; the *)
(* row is compared and set                                                  *)
ReadBase(q) ==
  /\ syncer[q].pc = "idle" /\ Asked /\ base.revision < MaxRevision
  /\ \E set \in SUBSET Source :
       /\ \A s \in set : source[s].revision > 0
       /\ syncer' = [syncer EXCEPT ![q] = [Quiet EXCEPT !.pc = "base", !.members = set,
                                                        !.read.revision = base.revision]]
  /\ UNCHANGED <<spaceRows, source, base, syncs, reader, fetched>>

SetBase(q) ==
  /\ syncer[q].pc = "base"
  /\ base' = IF base.revision = syncer[q].read.revision
               THEN [revision |-> base.revision + 1, sources |-> syncer[q].members] ELSE base
  /\ syncer' = [syncer EXCEPT ![q] = Quiet]
  /\ UNCHANGED <<spaceVars, source, syncs, reader, fetched>>

(* Mutant of SetSource: the revision is not compared.                       *)
SetSourceBlind(s, revision, row) ==
  source' = [source EXCEPT ![s] = [row EXCEPT !.revision = revision + 1]]

(* compare_and_set_source                                                   *)
SetSource(s, revision, row) ==
  source' = IF source[s].revision = revision
              THEN [source EXCEPT ![s] = [row EXCEPT !.revision = revision + 1]] ELSE source

(* publish_snapshot: in one transaction with the snapshot and its chunks    *)
PublishSnapshot(s, revision, row, found) ==
  SetSource(s, revision, [row EXCEPT !.health = "healthy", !.snapshot = found])

PutSync(q, status) == syncs' = [syncs EXCEPT ![q] = status]

(* replace_source: new configuration and access, health pending or disabled *)
ReadSource(q) ==
  /\ syncer[q].pc = "idle" /\ Asked
  /\ \E s \in Source :
       /\ source[s].revision \in 1 .. MaxRevision - 1
       /\ \/ \E c \in Config, h \in {"pending", "disabled"}, acl \in {{}, Person} :
               syncer' = [syncer EXCEPT ![q] = [Quiet EXCEPT !.pc = "replace", !.source = s,
                 !.read = [source[s] EXCEPT !.config = c, !.health = h, !.acl = acl]]]
          \/ /\ source[s].health # "disabled"
             /\ syncer' = [syncer EXCEPT ![q] = [Quiet EXCEPT !.pc = "fetch", !.source = s,
                                                              !.read = source[s]]]
  /\ IF syncer'[q].pc = "fetch" THEN PutSync(q, "running") ELSE UNCHANGED syncs
  /\ UNCHANGED <<spaceRows, source, base, reader, fetched>>

ReplaceSource(q) ==
  /\ syncer[q].pc = "replace"
  /\ SetSource(syncer[q].source, syncer[q].read.revision, syncer[q].read)
  /\ syncer' = [syncer EXCEPT ![q] = Quiet]
  /\ UNCHANGED <<spaceVars, base, syncs, reader, fetched>>

(* sync_source: the connector, which may fail or find nothing               *)
Fetch(q) ==
  /\ syncer[q].pc = "fetch"
  /\ \E found \in Content \cup {NoContent} :
       /\ syncer' = [syncer EXCEPT ![q].pc = "finish", ![q].found = found]
       /\ fetched' = IF found = NoContent THEN fetched
                       ELSE [fetched EXCEPT ![syncer[q].read.config] = @ \cup {found}]
  /\ UNCHANGED <<spaceVars, source, base, syncs, reader>>

(* The three ends: unchanged content keeps the snapshot, new content is     *)
(* published, a failure degrades the source; a conflict only fails the sync *)
FinishSync(q) ==
  LET row == syncer[q].read
      found == syncer[q].found
      won == source[syncer[q].source].revision = row.revision
  IN  /\ syncer[q].pc = "finish"
      /\ IF found = NoContent
           THEN SetSource(syncer[q].source, row.revision, [row EXCEPT !.health = "degraded"])
           ELSE IF found = row.snapshot
           THEN SetSource(syncer[q].source, row.revision, [row EXCEPT !.health = "healthy"])
           ELSE PublishSnapshot(syncer[q].source, row.revision, row, found)
      /\ PutSync(q, IF found = NoContent \/ ~won THEN "failed"
                    ELSE IF found = row.snapshot THEN "unchanged" ELSE "succeeded")
      /\ syncer' = [syncer EXCEPT ![q] = Quiet]
      /\ UNCHANGED <<spaceVars, base, reader, fetched>>

(* The request is cancelled (the client has gone): CancelledError is no     *)
(* Exception, so the synchronisation stays running                          *)
SyncCancelled(q) ==
  /\ syncer[q].pc \in {"fetch", "finish"}
  /\ syncer' = [syncer EXCEPT ![q] = Quiet]
  /\ UNCHANGED <<spaceVars, source, base, syncs, reader, fetched>>

-----------------------------------------------------------------------------
(* has_knowledge_access reads the member, then what is shared               *)
Granted(b, member) == member /\ b \in sharedBases
Owns(r) == PersonOf[r] = Creator
Listed(r, acl) == PersonOf[r] \in acl
IsMember(r) == members[PersonOf[r]] # "none"

(* resolve_bindings when the session starts                                 *)
PinSnapshots(r) ==
  /\ reader[r].pc = "none"
  /\ \E teams \in BOOLEAN :
       LET grant == teams /\ Granted(TheBase, IsMember(r))
       IN  reader' = [reader EXCEPT ![r] = [NoSearch EXCEPT !.pc = "idle", !.teams = teams,
             !.pinned = {s \in base.sources :
               /\ Owns(r) \/ grant
               /\ Owns(r) \/ Listed(r, source[s].acl) \/ grant
               /\ source[s].health = "healthy"}]]
  /\ UNCHANGED <<spaceVars, source, base, syncer, syncs, fetched>>

(* search reads the pinned sources, then the membership, then the shares;   *)
(* the tool of the worker's own process passes no teams                     *)
SearchReads(r) ==
  /\ reader[r].pc = "idle" /\ reader[r].pinned # {}
  /\ reader' = [reader EXCEPT ![r].pc = "member", ![r].acl = [s \in Source |-> source[s].acl]]
  /\ UNCHANGED <<spaceVars, source, base, syncer, syncs, fetched>>

SearchMember(r) ==
  /\ reader[r].pc = "member"
  /\ \E teams \in {FALSE, reader[r].teams} :
       reader' = [reader EXCEPT ![r].pc = "check", ![r].member = teams /\ IsMember(r)]
  /\ UNCHANGED <<spaceVars, source, base, syncer, syncs, fetched>>

(* Mutant of CheckPinned: the access of the moment of pinning is enough.    *)
CheckPinnedOnce(r) == reader[r].pinned

(* _allows_source, at every search                                          *)
CheckPinned(r) ==
  {s \in reader[r].pinned : \/ Owns(r)
                            \/ Listed(r, reader[r].acl[s])
                            \/ Granted(TheBase, reader[r].member)}

SearchChecks(r) ==
  /\ reader[r].pc = "check"
  /\ reader' = [reader EXCEPT ![r].pc = "found", ![r].checked = CheckPinned(r)]
  /\ UNCHANGED <<spaceVars, source, base, syncer, syncs, fetched>>

SearchEnds(r) ==
  /\ reader[r].pc = "found"
  /\ reader' = [reader EXCEPT ![r] = [@ EXCEPT !.pc = "idle", !.checked = {}, !.member = FALSE,
                                               !.acl = [s \in Source |-> {}]]]
  /\ UNCHANGED <<spaceVars, source, base, syncer, syncs, fetched>>

-----------------------------------------------------------------------------
KnowledgeStep ==
  \/ SpaceNext /\ UNCHANGED <<source, base, syncer, syncs, reader, fetched>>
  \/ \E q \in Syncer :
       \/ CreateSource(q) \/ ReadBase(q) \/ SetBase(q) \/ ReadSource(q) \/ ReplaceSource(q)
       \/ Fetch(q) \/ FinishSync(q) \/ SyncCancelled(q)
  \/ \E r \in Reader :
       PinSnapshots(r) \/ SearchReads(r) \/ SearchMember(r) \/ SearchChecks(r) \/ SearchEnds(r)

(* What lets a reader in now: membership, the share, and access lists       *)
Grants(r) ==
  {<<"member">> : x \in {y \in {1} : IsMember(r)}}
    \cup {<<"share">> : x \in {y \in {1} : TheBase \in sharedBases}}
    \cup {<<s>> : s \in {t \in Source : Listed(r, source[t].acl)}}

KnowledgeNext ==
  /\ KnowledgeStep
  /\ since' = [r \in Reader |->
       IF reader'[r].pc \in {"member", "check", "found"}
         THEN IF reader[r].pc = "idle" THEN Grants(r)' ELSE since[r] \cup Grants(r)'
         ELSE {}]

KnowledgeSpec == KnowledgeInit /\ [][KnowledgeNext]_knowledgeVars

-----------------------------------------------------------------------------
(* "An older failed worker must never overwrite a newer source revision or  *)
(* replace its healthy active snapshot": a synchronisation, however late,   *)
(* leaves the owner's configuration and access list as they are and a       *)
(* disabled source disabled; a healthy source serves what was fetched with  *)
(* its present configuration.                                               *)
EditsSurviveSyncs ==
  [][\A s \in Source :
       /\ source'[s].health = "healthy" => source'[s].snapshot \in fetched'[source'[s].config]
       /\ \A q \in Syncer : syncer[q].pc = "finish" /\ syncer'[q] = Quiet =>
            /\ source'[s].config = source[s].config /\ source'[s].acl = source[s].acl
            /\ source[s].health = "disabled" => source'[s].health = "disabled"]_knowledgeVars

(* "Session-pinned snapshot IDs do not bypass later access revocation":     *)
(* a search finds a source only if the reader owns it, or was on its access *)
(* list, or was a member and the base was shared, after the search began.   *)
SearchesRecheck ==
  \A r \in Reader : \A s \in reader[r].checked :
    Owns(r) \/ <<s>> \in since[r] \/ {<<"member">>, <<"share">>} \subseteq since[r]
===============================================================================
