-------------------------------- MODULE Threads --------------------------------
(***************************************************************************)
(* One AG-UI thread of a user (agui/service.py): the row that binds it to a  *)
(* Session, the Sessions it was bound to before, the Runs its messages make  *)
(* and its title.  A message takes the lock of its own API process, finds or *)
(* makes the binding, or moves it to a Session of another Agent version when *)
(* no Run is active, lets the lock go, creates the Run and writes a title;   *)
(* a task started with it asks a model for a better title and writes it much *)
(* later, if at all.                                                         *)
(*                                                                           *)
(* Every write of the row is a read followed by a write of the whole payload *)
(* with no check in between, and titles and archiving take no lock, so two   *)
(* writers may overlap; overlap records that they did.                       *)
(***************************************************************************)
EXTENDS Naturals, Sequences, FiniteSets

CONSTANTS Poster,      \* messages of the thread
          Host,        \* API processes
          HostOf,      \* [Poster -> Host]
          VersionOf    \* [Poster -> Agent version its client asks for]

VARIABLES binding,     \* the row; session 0: there is none
          versions,    \* Agent version of each Session made, in order
          threadRuns,  \* Runs of the thread: [session, poster, active]
          heldLocks,        \* processes whose lock is taken
          post,        \* progress of the messages
          titling,     \* the task that generates a title
          archiver,    \* the request that archives the thread
          clock, overlap

threadVars == <<binding, versions, threadRuns, heldLocks, post, titling, archiver, clock, overlap>>

NoBinding == [session |-> 0, previous |-> {}, archived |-> FALSE, title |-> 0, model |-> FALSE]
SessionIds(row) == row.previous \cup {row.session}
IdleTask == [pc |-> "idle", copy |-> NoBinding, stamp |-> 0]

ThreadInit ==
  /\ binding = NoBinding /\ versions = << >> /\ threadRuns = {}
  /\ heldLocks = {}
  /\ post = [q \in Poster |-> [pc |-> "idle", copy |-> NoBinding, session |-> 0, stamp |-> 0,
                               archived |-> FALSE]]
  /\ titling = IdleTask /\ archiver = IdleTask
  /\ clock = 0 /\ overlap = FALSE

PostAt(q, pc) == post[q].pc = pc
PostGoes(q, pc) == post' = [post EXCEPT ![q].pc = pc]
ThreadRest(q) == UNCHANGED <<titling, archiver, clock>>

(* Commit of a row read before: the payload is replaced whole.               *)
WriteBinding(copy, row) == binding' = row /\ overlap' = (overlap \/ copy # binding)

-----------------------------------------------------------------------------
(* _resolve_binding, under the process's lock                                *)

ResolveBinding(q) ==
  /\ PostAt(q, "idle") /\ HostOf[q] \notin heldLocks
  /\ heldLocks' = heldLocks \cup {HostOf[q]}
  /\ post' = [post EXCEPT ![q].copy = binding, ![q].session = binding.session,
                ![q].archived = binding.archived,
                ![q].pc = IF binding.session = 0 THEN "add"
                          ELSE IF versions[binding.session] # VersionOf[q] THEN "active"
                          ELSE IF binding.archived THEN "unarchive" ELSE "unlock"]
  /\ UNCHANGED <<binding, versions, threadRuns, overlap>> /\ ThreadRest(q)

(* A new Session and its binding; another process's binding makes it fail    *)
(* and leaves the Session without a thread.                                  *)
AddBinding(q) ==
  /\ PostAt(q, "add")
  /\ versions' = Append(versions, VersionOf[q])
  /\ IF binding.session = 0
     THEN /\ binding' = [NoBinding EXCEPT !.session = Len(versions')]
          /\ post' = [post EXCEPT ![q].pc = "unlock", ![q].session = Len(versions')]
     ELSE PostGoes(q, "fail") /\ UNCHANGED binding
  /\ UNCHANGED <<threadRuns, heldLocks, overlap>> /\ ThreadRest(q)

(* Another version is refused while a Run of any of the thread's Sessions is active. *)
CheckActive(q) ==
  /\ PostAt(q, "active")
  /\ IF \E r \in threadRuns : r.active /\ r.session \in SessionIds(post[q].copy)
     THEN PostGoes(q, "fail") /\ UNCHANGED versions
     ELSE /\ versions' = Append(versions, VersionOf[q])
          /\ post' = [post EXCEPT ![q].pc = "rebind", ![q].session = Len(versions')]
  /\ UNCHANGED <<binding, threadRuns, heldLocks, overlap>> /\ ThreadRest(q)

ReadRow(q, at, to) ==
  /\ PostAt(q, at)
  /\ post' = [post EXCEPT ![q].pc = to, ![q].copy = binding]
  /\ UNCHANGED <<binding, versions, threadRuns, heldLocks, overlap>> /\ ThreadRest(q)

(* Mutant of RebindSession: the Session left behind is forgotten.            *)
RebindSessionForgets(row, session) == [row EXCEPT !.session = session]

RebindSession(row, session) ==
  [row EXCEPT !.session = session, !.previous = @ \cup {row.session}]

(* rebind_session; whether to unarchive was read before.                      *)
Rebind(q) ==
  /\ PostAt(q, "rebound")
  /\ WriteBinding(post[q].copy, RebindSession(post[q].copy, post[q].session))
  /\ PostGoes(q, IF post[q].archived THEN "unarchive" ELSE "unlock")
  /\ UNCHANGED <<versions, threadRuns, heldLocks>> /\ ThreadRest(q)

Unarchive(q) ==
  /\ PostAt(q, "unarchived")
  /\ WriteBinding(post[q].copy, [post[q].copy EXCEPT !.archived = FALSE])
  /\ PostGoes(q, "unlock")
  /\ UNCHANGED <<versions, threadRuns, heldLocks>> /\ ThreadRest(q)

ReleaseLock(q) ==
  /\ post[q].pc \in {"unlock", "fail"}
  /\ heldLocks' = heldLocks \ {HostOf[q]}
  /\ post' = [post EXCEPT ![q].pc = IF @ = "unlock" THEN "run" ELSE "done",
                          ![q].copy = NoBinding, ![q].archived = FALSE]
  /\ UNCHANGED <<binding, versions, threadRuns, overlap>> /\ ThreadRest(q)

-----------------------------------------------------------------------------
(* create_with_result: a Run of the Session that is active with the same     *)
(* input stands for the message.                                             *)
PostRun(q, same) ==
  /\ PostAt(q, "run")
  /\ LET active == \E r \in threadRuns : r.session = post[q].session /\ r.active
     IN threadRuns' = IF same /\ active THEN threadRuns
                      ELSE threadRuns \cup
                             {[session |-> post[q].session, poster |-> q, active |-> TRUE]}
  /\ clock' = clock + 1
  /\ post' = [post EXCEPT ![q].pc = "title", ![q].stamp = clock']
  /\ UNCHANGED <<binding, versions, heldLocks, titling, archiver, overlap>>

FinishRun(r) ==
  /\ r.active
  /\ threadRuns' = (threadRuns \ {r}) \cup {[r EXCEPT !.active = FALSE]}
  /\ UNCHANGED <<binding, versions, heldLocks, post, titling, archiver, clock, overlap>>

(* update_title leaves a title that was generated for a later message.       *)
UpdateTitle(row, stamp, model) ==
  IF row.title > stamp THEN row ELSE [row EXCEPT !.title = stamp, !.model = model]

(* The deterministic title; _schedule_model_title starts the task.           *)
FallbackTitle(q) ==
  /\ PostAt(q, "titled")
  /\ LET row == UpdateTitle(post[q].copy, post[q].stamp, FALSE)
     IN IF row = post[q].copy THEN UNCHANGED <<binding, overlap>>
        ELSE WriteBinding(post[q].copy, row)
  /\ post' = [post EXCEPT ![q].pc = "done", ![q].copy = NoBinding]
  /\ titling' = IF titling.pc = "idle" THEN [IdleTask EXCEPT !.pc = "ask", !.stamp = post[q].stamp]
                ELSE titling
  /\ UNCHANGED <<versions, threadRuns, heldLocks, archiver, clock>>

(* _generate_model_title: any failure leaves the title there is.             *)
GenerateTitle ==
  /\ titling.pc = "ask"
  /\ \/ titling' = [titling EXCEPT !.pc = "write", !.copy = binding]
     \/ titling' = IdleTask
  /\ UNCHANGED <<binding, versions, threadRuns, heldLocks, post, archiver, clock, overlap>>

ModelTitle ==
  /\ titling.pc = "write"
  /\ LET row == UpdateTitle(titling.copy, titling.stamp, TRUE)
     IN IF row = titling.copy THEN UNCHANGED <<binding, overlap>>
        ELSE WriteBinding(titling.copy, row)
  /\ titling' = IdleTask
  /\ UNCHANGED <<versions, threadRuns, heldLocks, post, archiver, clock>>

SetArchived ==
  /\ \/ /\ archiver.pc = "idle" /\ binding.session # 0
        /\ archiver' = [archiver EXCEPT !.pc = "write", !.copy = binding]
        /\ UNCHANGED <<binding, overlap>>
     \/ /\ archiver.pc = "write"
        /\ WriteBinding(archiver.copy, [archiver.copy EXCEPT !.archived = TRUE])
        /\ archiver' = [IdleTask EXCEPT !.pc = "done"]
  /\ UNCHANGED <<versions, threadRuns, heldLocks, post, titling, clock>>

-----------------------------------------------------------------------------
(* What overlapping writers leave is not followed further: a bound of the model. *)
ThreadStep ==
  \/ \E q \in Poster :
       \/ ResolveBinding(q) \/ AddBinding(q) \/ CheckActive(q)
       \/ ReadRow(q, "rebind", "rebound") \/ Rebind(q)
       \/ ReadRow(q, "unarchive", "unarchived") \/ Unarchive(q)
       \/ ReleaseLock(q)
       \/ \E same \in BOOLEAN : PostRun(q, same)
       \/ ReadRow(q, "title", "titled") \/ FallbackTitle(q)
  \/ \E r \in threadRuns : FinishRun(r)
  \/ GenerateTitle \/ ModelTitle \/ SetArchived

ThreadNext == ~overlap /\ ThreadStep

-----------------------------------------------------------------------------
(* Unless two writers of its row overlapped, a thread lists the Session of    *)
(* every Run its messages made, whatever version switches happened between:   *)
(* _resolve_bound_run finds the Run to cancel through that list.  And its     *)
(* title is never one generated for an earlier message than one it had.       *)
ThreadKeepsRuns ==
  ~overlap => /\ \A r \in threadRuns : r.session \in SessionIds(binding)
              /\ \A q \in Poster : PostAt(q, "done") => post[q].stamp <= binding.title
===============================================================================
