------------------------------- MODULE Accounts -------------------------------
(***************************************************************************)
(* Accounts of a workspace (auth/service.py, auth/repositories.py): a user  *)
(* signs in by password or OAuth and gets a family of refresh tokens, of    *)
(* which each refresh replaces the last; members change roles, profile and  *)
(* password.  Every request reads, then writes whole rows: only the         *)
(* rotation of a token and the unique keys of rows are guarded.             *)
(***************************************************************************)
EXTENDS Naturals, Sequences, FiniteSets

CONSTANTS Request,      \* HTTP requests, each performs one operation
          Member,       \* members of the workspace, the first user among them
          FirstUser,    \* the account that the sessions belong to
          MaxToken      \* bound: refresh tokens issued

VARIABLES account,      \* FirstUser: does the row exist, its password, its OAuth link
          roles,        \* memberships, "none" if absent
          tokens,       \* refresh tokens in order of issue: family, live
          request       \* what every request is doing, and what it has read

accountVars == <<account, roles, tokens, request>>

Waiting == [pc |-> "idle", password |-> 0, token |-> 0, role |-> "none", target |-> FirstUser]

AccountInit ==
  /\ account = [exists |-> FALSE, password |-> 1, linked |-> FALSE]
  /\ roles = [m \in Member |-> IF m = FirstUser THEN "none" ELSE "owner"]
  /\ tokens = <<>>
  /\ request = [q \in Request |-> Waiting]

Asks(q, pc) == request[q].pc = pc
Replies(q, pc) == request' = [request EXCEPT ![q].pc = pc]
Live(f) == {i \in DOMAIN tokens : tokens[i].family = f /\ tokens[i].live}
Revoked(f) == [i \in DOMAIN tokens |-> [tokens[i] EXCEPT !.live = @ /\ tokens[i].family # f]]

-----------------------------------------------------------------------------
(* register and the first exchange_oauth_code: the role is chosen from a    *)
(* count of the members                                                     *)
ChooseRole(q) ==
  /\ Asks(q, "idle") /\ ~account.exists
  /\ \E pc \in {"register", "oauth"} :
       request' = [request EXCEPT ![q] = [@ EXCEPT !.pc = pc,
         !.role = IF \A m \in Member : roles[m] = "none" THEN "owner" ELSE "member"]]
  /\ UNCHANGED <<account, roles, tokens>>

(* create_user: the email is unique.  OAuth takes the row that won.         *)
CreateUser(q) ==
  /\ request[q].pc \in {"register", "oauth"}
  /\ IF account.exists
       THEN UNCHANGED <<account, roles>> /\ Replies(q, IF Asks(q, "oauth") THEN "link" ELSE "done")
       ELSE /\ account' = [account EXCEPT !.exists = TRUE]
            /\ roles' = [roles EXCEPT ![FirstUser] = request[q].role]
            /\ Replies(q, IF Asks(q, "oauth") THEN "link" ELSE "issue")
  /\ UNCHANGED tokens

(* exchange_oauth_code for an account found by identity or by email, and    *)
(* link_oauth_identity, unique as well                                      *)
FindByIdentity(q) ==
  /\ Asks(q, "idle") /\ account.exists
  /\ Replies(q, IF account.linked THEN "issue" ELSE "link")
  /\ UNCHANGED <<account, roles, tokens>>

LinkIdentity(q) ==
  /\ Asks(q, "link")
  /\ account' = [account EXCEPT !.linked = TRUE]
  /\ Replies(q, IF account.linked THEN "done" ELSE "issue")
  /\ UNCHANGED <<roles, tokens>>

(* login with the current password, or with one that is wrong               *)
Login(q) ==
  /\ Asks(q, "idle") /\ account.exists
  /\ \E password \in {account.password, 0} :
       Replies(q, IF password = account.password THEN "issue" ELSE "done")
  /\ UNCHANGED <<account, roles, tokens>>

(* _issue_session: a token of a new family                                  *)
IssueSession(q) ==
  /\ Asks(q, "issue") /\ Len(tokens) < MaxToken
  /\ tokens' = Append(tokens, [family |-> Len(tokens) + 1, live |-> TRUE])
  /\ Replies(q, "done")
  /\ UNCHANGED <<account, roles>>

-----------------------------------------------------------------------------
(* refresh: any token that was ever issued may be shown                     *)
ReadToken(q) ==
  /\ Asks(q, "idle")
  /\ \E i \in DOMAIN tokens :
       request' = [request EXCEPT ![q] = [@ EXCEPT !.token = i,
                     !.pc = IF tokens[i].live THEN "rotate" ELSE "revoke"]]
  /\ UNCHANGED <<account, roles, tokens>>

(* Mutant of Rotate: the replaced token is not compared again.              *)
RotateBlind(q) ==
  /\ Asks(q, "rotate") /\ Len(tokens) < MaxToken
  /\ tokens' = Append([tokens EXCEPT ![request[q].token].live = FALSE],
                      [family |-> tokens[request[q].token].family, live |-> TRUE])
  /\ Replies(q, "done") /\ UNCHANGED <<account, roles>>

(* rotate_refresh_token in one transaction; it has expired or lost a race:  *)
(* the family is revoked                                                    *)
Rotate(q) ==
  LET i == request[q].token
  IN  /\ Asks(q, "rotate")
      /\ \/ /\ tokens[i].live /\ Len(tokens) < MaxToken
            /\ tokens' = Append([tokens EXCEPT ![i].live = FALSE],
                                [family |-> tokens[i].family, live |-> TRUE])
            /\ Replies(q, "done")
         \/ UNCHANGED tokens /\ Replies(q, "revoke")
      /\ UNCHANGED <<account, roles>>

(* revoke_token_family: of refresh, and of logout                           *)
RevokeFamily(q) ==
  /\ Asks(q, "revoke")
  /\ tokens' = Revoked(tokens[request[q].token].family)
  /\ Replies(q, "done")
  /\ UNCHANGED <<account, roles>>

Logout(q) ==
  /\ Asks(q, "idle")
  /\ \E i \in DOMAIN tokens :
       request' = [request EXCEPT ![q] = [@ EXCEPT !.pc = "revoke", !.token = i]]
  /\ UNCHANGED <<account, roles, tokens>>

-----------------------------------------------------------------------------
(* change_password and update_profile read the user and save the whole row; *)
(* a new password also revokes every token of the user                      *)
ReadUser(q) ==
  /\ Asks(q, "idle") /\ account.exists
  /\ \E pc \in {"savePassword", "saveProfile"} :
       request' = [request EXCEPT ![q] = [@ EXCEPT !.pc = pc, !.password = account.password]]
  /\ UNCHANGED <<account, roles, tokens>>

SaveUser(q) ==
  /\ request[q].pc \in {"savePassword", "saveProfile"}
  /\ account' = [account EXCEPT !.password =
                   request[q].password + IF Asks(q, "savePassword") THEN 1 ELSE 0]
  /\ Replies(q, IF Asks(q, "savePassword") THEN "revokeAll" ELSE "done")
  /\ UNCHANGED <<roles, tokens>>

RevokeAll(q) ==
  /\ Asks(q, "revokeAll")
  /\ tokens' = [i \in DOMAIN tokens |-> [tokens[i] EXCEPT !.live = FALSE]]
  /\ Replies(q, "done")
  /\ UNCHANGED <<account, roles>>

(* update_member_role: owners manage everybody, admins manage members; the  *)
(* last owner that the count shows stays                                    *)
Owners == {m \in Member : roles[m] = "owner"}
MayAssign(actor, target, role) ==
  /\ roles[actor] \in {"owner", "admin"} /\ roles[target] # "none"
  /\ roles[actor] # "owner" => {roles[target], role} \cap {"owner", "admin"} = {}
  /\ roles[target] = "owner" /\ role # "owner" => Cardinality(Owners) > 1

CheckRole(q) ==
  /\ Asks(q, "idle")
  /\ \E actor, target \in Member, role \in {"owner", "admin", "member", "viewer"} :
       /\ MayAssign(actor, target, role)
       /\ request' = [request EXCEPT ![q] = [@ EXCEPT !.pc = "saveRole", !.role = role,
                                                      !.target = target]]
  /\ UNCHANGED <<account, roles, tokens>>

SaveMembership(q) ==
  /\ Asks(q, "saveRole")
  /\ roles' = [roles EXCEPT ![request[q].target] = request[q].role]
  /\ Replies(q, "done")
  /\ UNCHANGED <<account, tokens>>

AccountNext ==
  \E q \in Request :
    \/ ChooseRole(q) \/ CreateUser(q) \/ FindByIdentity(q) \/ LinkIdentity(q)
    \/ Login(q) \/ IssueSession(q) \/ ReadToken(q) \/ Rotate(q) \/ RevokeFamily(q)
    \/ Logout(q) \/ ReadUser(q) \/ SaveUser(q) \/ RevokeAll(q)
    \/ CheckRole(q) \/ SaveMembership(q)

AccountSpec == AccountInit /\ [][AccountNext]_accountVars

-----------------------------------------------------------------------------
(* docs/authentication.md: every refresh replaces the token and a token     *)
(* that is shown again revokes the family.  So a family has one live token  *)
(* at most and, once it has none, never one again, whatever refreshes,      *)
(* sign-outs and password changes overlap.                                  *)
FamiliesEnd ==
  [][\A f \in 1 .. MaxToken :
       /\ Cardinality(Live(f)') <= 1
       /\ f <= Len(tokens) /\ tokens[f].family = f /\ Live(f) = {} => Live(f)' = {}]_accountVars
===============================================================================
