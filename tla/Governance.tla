------------------------------- MODULE Governance -------------------------------
(***************************************************************************)
(* What administrators of a tenant govern (governance/service.py): managed   *)
(* credentials, which they create, edit and revoke and on whose secret a Run *)
(* gets a short lease (execution/credentials.py), looking at the lease and   *)
(* at the connection again when it resolves it; and policies, drafts edited  *)
(* by revision and published as immutable copies, which the worker resolves  *)
(* when a Run starts.                                                        *)
(***************************************************************************)
EXTENDS Naturals, FiniteSets

CONSTANTS Connection,   \* connections that match the identity of the Run
          Rank,         \* the preference of a connection, and its principal
          Steward,      \* requests of administrators
          Borrower,     \* calls of the broker
          SecretOf,     \* the secret that the platform has configured
          NoConnection,
          MaxIssue      \* bound: revisions of a connection

VARIABLES connections,  \* status, revision and secret of every connection
          steward,      \* an administrator's request and the row it read
          borrower,     \* where a broker call is
          leases,       \* the leases of the process: connection, secret, status
          authorized    \* history: connections active since a resolve began

connectionVars == <<connections, steward, borrower, leases, authorized>>

NoRow == [status |-> "absent", revision |-> 0, secret |-> SecretOf]
Unused == [pc |-> "idle", connection |-> CHOOSE c \in Connection : TRUE, read |-> NoRow]
NoLease == [connection |-> NoConnection, secret |-> SecretOf, status |-> "none"]

ConnectionInit ==
  /\ connections \in [Connection -> {NoRow, [NoRow EXCEPT !.status = "active", !.revision = 1]}]
  /\ steward = [q \in Steward |-> Unused]
  /\ borrower = [b \in Borrower |-> "idle"]
  /\ leases = [b \in Borrower |-> NoLease]
  /\ authorized = [b \in Borrower |-> {}]

ActiveConnections == {c \in Connection : connections[c].status = "active"}
Secrets == {SecretOf, "other"}

-----------------------------------------------------------------------------
(* create_connection: no active one of the same principal was listed        *)
ListPrincipal(q) ==
  /\ steward[q].pc = "idle"
  /\ \E c \in Connection :
       /\ connections[c] = NoRow
       /\ \A d \in ActiveConnections : Rank[d] # Rank[c]
       /\ steward' = [steward EXCEPT ![q] = [Unused EXCEPT !.pc = "add", !.connection = c]]
  /\ UNCHANGED <<connections, borrower, leases>>

AddConnection(q) ==
  LET c == steward[q].connection
  IN  /\ steward[q].pc = "add"
      /\ connections' = IF connections[c] # NoRow THEN connections
           ELSE [connections EXCEPT ![c] = [@ EXCEPT !.status = "active", !.revision = 1]]
      /\ steward' = [steward EXCEPT ![q] = Unused]
      /\ UNCHANGED <<borrower, leases>>

(* replace_connection and revoke_connection: read, compare and set          *)
GetConnection(q) ==
  /\ steward[q].pc = "idle"
  /\ \E c \in ActiveConnections :
       /\ connections[c].revision < MaxIssue
       /\ \E row \in {[connections[c] EXCEPT !.secret = s] : s \in Secrets}
                       \cup {[connections[c] EXCEPT !.status = "revoked"]} :
            steward' = [steward EXCEPT ![q] = [Unused EXCEPT !.pc = "set", !.connection = c,
                                                             !.read = row]]
  /\ UNCHANGED <<connections, borrower, leases>>

(* Mutant of SetConnection: the revision is not compared.                   *)
SetConnectionBlind(c, row) ==
  connections' = [connections EXCEPT ![c] = [row EXCEPT !.revision = @ + 1]]

(* compare_and_set_connection                                                *)
SetConnection(c, row) ==
  connections' = IF connections[c].revision # row.revision THEN connections
                 ELSE [connections EXCEPT ![c] = [row EXCEPT !.revision = @ + 1]]

ReplaceConnection(q) ==
  /\ steward[q].pc = "set"
  /\ SetConnection(steward[q].connection, steward[q].read)
  /\ steward' = [steward EXCEPT ![q] = Unused]
  /\ UNCHANGED <<borrower, leases>>

-----------------------------------------------------------------------------
(* authorize and issue: no connection at all means an unmanaged secret; a   *)
(* personal connection is preferred to one of a team                        *)
Selected == {c \in ActiveConnections : \A d \in ActiveConnections : Rank[d] <= Rank[c]}

Issue(b) ==
  /\ borrower[b] = "idle" /\ leases[b].status = "none"
  /\ \/ /\ \A c \in Connection : connections[c] = NoRow
        /\ leases' = [leases EXCEPT ![b] = [NoLease EXCEPT !.status = "live"]]
     \/ \E c \in Selected :
          /\ connections[c].secret = SecretOf
          /\ leases' = [leases EXCEPT ![b] = [connection |-> c, secret |-> SecretOf,
                                              status |-> "live"]]
  /\ UNCHANGED <<connections, steward, borrower>>

(* resolve: the lease first, then validate_connection                       *)
ResolveLease(b) ==
  /\ borrower[b] = "idle" /\ leases[b].status = "live"
  /\ borrower' = [borrower EXCEPT ![b] = IF leases[b].connection = NoConnection THEN "handed"
                                         ELSE "validate"]
  /\ UNCHANGED <<connections, steward, leases>>

(* Mutant of StillAuthorized: what was authorised once stays authorised.    *)
StillAuthorizedIssued(lease) == TRUE

(* validate_connection: the connection, at the reference the lease was for  *)
StillAuthorized(lease) ==
  /\ connections[lease.connection].status = "active"
  /\ connections[lease.connection].secret = lease.secret

ValidateConnection(b) ==
  /\ borrower[b] = "validate"
  /\ borrower' = [borrower EXCEPT ![b] = IF StillAuthorized(leases[b]) THEN "handed" ELSE "idle"]
  /\ UNCHANGED <<connections, steward, leases>>

UseSecret(b) ==
  /\ borrower[b] = "handed" /\ borrower' = [borrower EXCEPT ![b] = "idle"]
  /\ UNCHANGED <<connections, steward, leases>>

(* revoke_run, expiry, and reap_expired which forgets the lease             *)
EndLease(b) ==
  /\ leases[b].status = "live" /\ leases' = [leases EXCEPT ![b].status = "ended"]
  /\ UNCHANGED <<connections, steward, borrower>>

ReapLease(b) ==
  /\ leases[b].status = "ended" /\ borrower[b] = "idle"
  /\ leases' = [leases EXCEPT ![b] = NoLease]
  /\ UNCHANGED <<connections, steward, borrower>>

-----------------------------------------------------------------------------
ConnectionStep ==
  \/ \E q \in Steward :
       ListPrincipal(q) \/ AddConnection(q) \/ GetConnection(q) \/ ReplaceConnection(q)
  \/ \E b \in Borrower :
       \/ Issue(b) \/ ResolveLease(b) \/ ValidateConnection(b) \/ UseSecret(b)
       \/ EndLease(b) \/ ReapLease(b)

ConnectionNext ==
  /\ ConnectionStep
  /\ authorized' = [b \in Borrower |->
       IF borrower'[b] = "idle" THEN {}
       ELSE LET now == {c \in Connection : /\ connections'[c].status = "active"
                                           /\ connections'[c].secret = leases[b].secret}
            IN  IF borrower[b] = "idle" THEN now ELSE authorized[b] \cup now]

ConnectionSpec == ConnectionInit /\ [][ConnectionNext]_connectionVars

-----------------------------------------------------------------------------
(* A managed secret is handed to a Run only through a connection that was   *)
(* active, with that secret, after the Run asked: a lease issued before the *)
(* connection was revoked or pointed to another secret gives nothing.       *)
SecretsFollowConnections ==
  \A b \in Borrower : borrower[b] = "handed" /\ leases[b].connection # NoConnection =>
    leases[b].connection \in authorized[b]

(* A revoked connection stays revoked, whatever edit was read before.       *)
RevokedStays ==
  [][\A c \in Connection : connections[c].status = "revoked" =>
       connections'[c] = connections[c]]_connectionVars

-----------------------------------------------------------------------------
CONSTANTS Publisher,    \* requests of administrators
          MaxDraft      \* bound: revisions of the policy

ASSUME DraftAssumption == MaxDraft \in Nat

VARIABLES policy,       \* the draft: revision, content, published revision
          publications, \* immutable copies: content by revision, 0 if none
          publisher,    \* a request and the draft it has read
          resolved      \* what a worker reads of the policy

policyVars == <<policy, publications, publisher, resolved>>

Unasked == [pc |-> "idle", read |-> [revision |-> 0, content |-> 0, published |-> 0]]

PolicyInit ==
  /\ policy = [revision |-> 1, content |-> 1, published |-> 0]
  /\ publications = [r \in 1 .. MaxDraft |-> 0]
  /\ publisher = [q \in Publisher |-> Unasked]
  /\ resolved = "none"

-----------------------------------------------------------------------------
(* replace_policy and publish_policy read the draft; both write where the   *)
(* revision is the one read, and publishing leaves it as it is              *)
GetPolicyDraft(q) ==
  /\ publisher[q].pc = "idle" /\ policy.revision < MaxDraft
  /\ \E pc \in {"edit", "publish"} :
       publisher' = [publisher EXCEPT ![q] = [pc |-> pc, read |-> policy]]
  /\ UNCHANGED <<policy, publications, resolved>>

ReplacePolicy(q) ==
  LET read == publisher[q].read
  IN  /\ publisher[q].pc = "edit"
      /\ policy' = IF policy.revision # read.revision THEN policy
                   ELSE [read EXCEPT !.revision = @ + 1, !.content = @ + 1]
      /\ publisher' = [publisher EXCEPT ![q] = Unasked]
      /\ UNCHANGED <<publications, resolved>>

(* Mutant of PublishPolicy: the profile names the revision before the       *)
(* publication is stored.                                                   *)
PublishPolicyEarly(q) ==
  /\ publisher[q].pc = "publish"
  /\ policy' = [policy EXCEPT !.published = publisher[q].read.revision]
  /\ publications' = IF policy.revision # publisher[q].read.revision THEN publications
       ELSE [publications EXCEPT ![policy.revision] = policy.content]
  /\ publisher' = [publisher EXCEPT ![q] = Unasked]
  /\ UNCHANGED resolved

(* In one transaction; a revision that is published already is refused      *)
PublishPolicy(q) ==
  LET read == publisher[q].read
  IN  /\ publisher[q].pc = "publish"
      /\ IF policy.revision = read.revision /\ publications[read.revision] = 0
           THEN /\ policy' = [read EXCEPT !.published = read.revision]
                /\ publications' = [publications EXCEPT ![read.revision] = read.content]
           ELSE UNCHANGED <<policy, publications>>
      /\ publisher' = [publisher EXCEPT ![q] = Unasked]
      /\ UNCHANGED resolved

(* resolve_runtime: the profile names a publication, or the static policy   *)
ResolveRuntime ==
  /\ resolved' = IF policy.published = 0 THEN "static"
                 ELSE IF publications[policy.published] = policy.published THEN "governed"
                 ELSE "error"
  /\ UNCHANGED <<policy, publications, publisher>>

-----------------------------------------------------------------------------
PolicyNext ==
  \/ \E q \in Publisher : GetPolicyDraft(q) \/ ReplacePolicy(q) \/ PublishPolicy(q)
  \/ ResolveRuntime

PolicySpec == PolicyInit /\ [][PolicyNext]_policyVars

-----------------------------------------------------------------------------
(* A worker that resolves the policy never finds its publication missing or *)
(* different: the profile names a publication that exists, and publications *)
(* are never rewritten.                                                     *)
PublicationsStay ==
  [][/\ policy'.published # 0 => publications'[policy'.published] = policy'.published
     /\ \A r \in DOMAIN publications : publications[r] # 0 =>
          publications'[r] = publications[r]]_policyVars
===============================================================================
