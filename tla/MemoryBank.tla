------------------------------ MODULE MemoryBank ------------------------------
(***************************************************************************)
(* The memories that an agent keeps of one user (memory_bank/service.py,    *)
(* storage/memory_bank_repository.py).  An agent or the user proposes a      *)
(* memory; the user confirms, edits, rejects or deletes it from a list read  *)
(* before, with the version shown there; expired ones are reaped.  A row     *)
(* changes only by compare-and-set on its version.                           *)
(***************************************************************************)
EXTENDS Naturals

CONSTANTS Memory,       \* entries of one user and agent
          Editor,       \* requests of the user and of the agent's Runs
          Reaper,       \* worker processes that reap expired entries
          MaxPolicy,    \* bound: versions of the consent and of the retention
          MaxEdits      \* bound: version up to which entries are edited

ASSUME MemoryAssumption == Memory # {}

VARIABLES memories,     \* rows: status, version, text, due (expires_at has passed)
          consent,      \* the consent row: version, allow
          retention,    \* version of the retention row, 0 if there is none
          editor,       \* what a request does, what it was shown and has read
          reaping       \* rows a reaper has listed and not yet written

memoryVars == <<memories, consent, retention, editor, reaping>>

Texts == {"personal", "sensitive"}
Removed == {"rejected", "deleted", "expired"}
NoMemory == [status |-> "absent", version |-> 0, text |-> "erased", due |-> FALSE]
Still == [pc |-> "idle", op |-> "none", memory |-> CHOOSE m \in Memory : TRUE,
          seen |-> NoMemory, read |-> NoMemory, policy |-> 0]

MemoryInit ==
  /\ memories = [m \in Memory |-> NoMemory]
  /\ consent = [version |-> 0, allow |-> FALSE]
  /\ retention = 0
  /\ editor = [q \in Editor |-> Still]
  /\ reaping = [w \in Reaper |-> [m \in Memory |-> NoMemory]]

-----------------------------------------------------------------------------
(* Mutant of SetEntry: the version is not compared.                         *)
SetEntryBlind(m, version, row) == memories' = [memories EXCEPT ![m] = row]

(* compare_and_set_entry                                                    *)
SetEntry(m, version, row) ==
  IF memories[m].version = version THEN memories' = [memories EXCEPT ![m] = row]
                                   ELSE UNCHANGED memories

(* propose reads the consent; prohibited content ends here                  *)
Propose(q) ==
  /\ editor[q].pc = "idle"
  /\ \E m \in Memory, text \in Texts, kind \in {"agent", "user"} :
       /\ memories[m] = NoMemory
       /\ \A p \in Editor : editor[p].pc = "add" => editor[p].memory # m   \* ids are unique
       /\ editor' = [editor EXCEPT ![q] = [Still EXCEPT !.pc = "add", !.memory = m,
            !.read = [status |-> IF kind = "agent" /\ text = "personal" /\ consent.allow
                                   THEN "active" ELSE "pending",
                      version |-> 1, text |-> text, due |-> FALSE]]]
  /\ UNCHANGED <<memories, consent, retention, reaping>>

AddEntry(q) ==
  /\ editor[q].pc = "add"
  /\ memories' = [memories EXCEPT ![editor[q].memory] = editor[q].read]
  /\ editor' = [editor EXCEPT ![q] = Still]
  /\ UNCHANGED <<consent, retention, reaping>>

(* list_entries: the user sees rows and decides on one                      *)
ListEntries(q) ==
  /\ editor[q].pc = "idle"
  /\ \E m \in Memory :
       /\ memories[m].status \in {"pending", "active"}
       /\ editor' = [editor EXCEPT ![q] = [Still EXCEPT !.pc = "shown", !.memory = m,
                                                        !.seen = memories[m]]]
  /\ UNCHANGED <<memories, consent, retention, reaping>>

(* confirm, _terminal_update (reject), update, delete: the row is read,     *)
(* its version and status compared with what the operation needs            *)
MayEdit(op, status) ==
  \/ op \in {"confirm", "reject"} /\ status = "pending"
  \/ op = "update" /\ status \in {"pending", "active"}
  \/ op = "delete" /\ status \notin {"deleted", "expired"}

GetEntry(q) ==
  LET m == editor[q].memory
  IN  /\ editor[q].pc = "shown"
      /\ \E op \in {"confirm", "reject", "update", "delete"} :
           editor' = [editor EXCEPT ![q] =
             IF memories[m].version = editor[q].seen.version /\ MayEdit(op, memories[m].status)
               THEN [@ EXCEPT !.pc = "write", !.op = op, !.read = memories[m]]
               ELSE Still]
      /\ UNCHANGED <<memories, consent, retention, reaping>>

Confirmed(row) == [row EXCEPT !.status = "active", !.version = @ + 1, !.due = FALSE]
Rejected(row) == [row EXCEPT !.status = "rejected", !.version = @ + 1, !.text = "erased"]
Updated(row, text) == [row EXCEPT !.version = @ + 1, !.text = text]
DeletedEntry(row) ==
  [status |-> "deleted", version |-> row.version + 1, text |-> "erased", due |-> FALSE]

Edit(q) ==
  LET r == editor[q].read
  IN  /\ editor[q].pc = "write"
      /\ \/ editor[q].op = "confirm" /\ SetEntry(editor[q].memory, r.version, Confirmed(r))
         \/ editor[q].op = "reject" /\ SetEntry(editor[q].memory, r.version, Rejected(r))
         \/ editor[q].op = "delete" /\ SetEntry(editor[q].memory, r.version, DeletedEntry(r))
         \/ /\ editor[q].op = "update" /\ r.version < MaxEdits
            /\ \E text \in Texts : SetEntry(editor[q].memory, r.version, Updated(r, text))
      /\ editor' = [editor EXCEPT ![q] = Still]
      /\ UNCHANGED <<consent, retention, reaping>>

-----------------------------------------------------------------------------
(* replace_consent and replace_retention: a version is shown (a missing     *)
(* retention shows as version 1), compared, and compared again by           *)
(* _put_policy                                                              *)
GetPolicy(q) ==
  /\ editor[q].pc = "idle"
  /\ \/ editor' = [editor EXCEPT ![q] = [Still EXCEPT !.pc = "consent", !.policy = consent.version]]
     \/ \E version \in {retention, IF retention = 0 THEN 1 ELSE retention} :
          editor' = [editor EXCEPT ![q] = [Still EXCEPT !.pc = "retention", !.policy = version]]
  /\ UNCHANGED <<memories, consent, retention, reaping>>

ReplaceConsent(q) ==
  /\ editor[q].pc = "consent"
  /\ \/ /\ consent.version = editor[q].policy /\ consent.version < MaxPolicy
        /\ \E allow \in BOOLEAN : consent' = [version |-> consent.version + 1, allow |-> allow]
     \/ consent.version # editor[q].policy /\ UNCHANGED consent
  /\ editor' = [editor EXCEPT ![q] = Still]
  /\ UNCHANGED <<memories, retention, reaping>>

ReplaceRetention(q) ==
  /\ editor[q].pc = "retention"
  /\ \/ retention = editor[q].policy /\ retention < MaxPolicy /\ retention' = retention + 1
     \/ retention # editor[q].policy /\ UNCHANGED retention
  /\ editor' = [editor EXCEPT ![q] = Still]
  /\ UNCHANGED <<memories, consent, reaping>>

-----------------------------------------------------------------------------
(* Time passes for an active entry; reap_expired lists what is due, and     *)
(* writes row after row                                                     *)
Elapse(m) ==
  /\ memories[m].status = "active" /\ ~memories[m].due
  /\ memories' = [memories EXCEPT ![m].due = TRUE]
  /\ UNCHANGED <<consent, retention, editor, reaping>>

ListExpired(w) ==
  /\ \A m \in Memory : reaping[w][m] = NoMemory
  /\ \E m \in Memory : memories[m].status = "active" /\ memories[m].due
  /\ reaping' = [reaping EXCEPT ![w] = [m \in Memory |->
       IF memories[m].status = "active" /\ memories[m].due THEN memories[m] ELSE NoMemory]]
  /\ UNCHANGED <<memories, consent, retention, editor>>

ExpiredEntry(row) == [row EXCEPT !.status = "expired", !.version = @ + 1, !.text = "erased"]

ReapEntry(w) ==
  \E m \in Memory :
    /\ reaping[w][m] # NoMemory
    /\ SetEntry(m, reaping[w][m].version, ExpiredEntry(reaping[w][m]))
    /\ reaping' = [reaping EXCEPT ![w][m] = NoMemory]
    /\ UNCHANGED <<consent, retention, editor>>

MemoryNext ==
  \/ \E q \in Editor :
       \/ Propose(q) \/ AddEntry(q) \/ ListEntries(q) \/ GetEntry(q) \/ Edit(q)
       \/ GetPolicy(q) \/ ReplaceConsent(q) \/ ReplaceRetention(q)
  \/ \E m \in Memory : Elapse(m)
  \/ \E w \in Reaper : ListExpired(w) \/ ReapEntry(w)

MemorySpec == MemoryInit /\ [][MemoryNext]_memoryVars

-----------------------------------------------------------------------------
(* What a Run is told of a user (projection) is what the user agreed to:    *)
(* a proposed memory becomes active only with the text that the user who    *)
(* confirms it was shown, and a memory that is rejected, deleted or expired *)
(* is erased and never comes back, however edits, confirmations and reapers *)
(* overlap.                                                                 *)
MemoriesAsConfirmed ==
  [][\A m \in Memory :
       /\ memories[m].status \in Removed =>
            memories'[m].status \in Removed /\ memories'[m].text = "erased"
       /\ memories[m].status = "pending" /\ memories'[m].status = "active" =>
            \E q \in Editor : /\ editor[q].op = "confirm" /\ editor'[q] = Still
                              /\ editor[q].memory = m
                              /\ editor[q].seen.text = memories'[m].text]_memoryVars
===============================================================================
