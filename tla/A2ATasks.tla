------------------------------- MODULE A2ATasks -------------------------------
(***************************************************************************)
(* The faces a trigger's Run shows to the outside (triggers/a2a.py and       *)
(* triggers/api.py): the A2A event stream, which begins with the task as it  *)
(* is, its text so far included, and holds one fragment of text back until it *)
(* knows whether it is the last; the webhook's event stream; the answer of    *)
(* message:send; and the pages of the task list.  A client whose connection   *)
(* breaks resumes with the last event id it was sent.                         *)
(*                                                                           *)
(* The worker that moves the Run's row and appends to its log is the one of  *)
(* RunExecution; here it is an environment that moves the row first and      *)
(* appends the event afterwards, but for approval.requested.                 *)
(***************************************************************************)
EXTENDS Naturals, Sequences, FiniteSets, SequencesExt

CONSTANTS MaxLog,      \* bound: events of the Run
          MaxCuts,     \* bound: connections a client opens again
          Task,        \* tasks of the list: naturals, in the order of their ids
          PageSize,    \* pageSize
          Millisecond, \* ticks of updated_at in a millisecond
          MaxTick      \* bound: ticks

ASSUME TaskBounds == Millisecond \in Nat \ {0} /\ MaxTick \in Nat

VARIABLES face,        \* "a2a", "webhook", "answer" or "list"
          taskStatus,  \* the Run's status
          owed,        \* event the mover of the row has still to append
          taskLog,     \* types of the Run's events
          feed,        \* the generator behind a connection
          peer,        \* what the client has
          answer,      \* message:send
          updatedAt, tick, pages    \* the task list

taskVars == <<face, taskStatus, owed, taskLog, feed, peer, answer, updatedAt, tick, pages>>

EventType == {"delta", "blank", "completed", "artifact", "status", "approval", "end"}
NoFeed == [pc |-> "closed", seq |-> 0, upto |-> 0, pending |-> 0, started |-> FALSE,
           terminal |-> FALSE]

(* The deltas with text among the first n events, by their sequences: the     *)
(* text of a task joins them in the order of the log.                         *)
TextUpTo(n) == {i \in 1 .. n : taskLog[i] = "delta"}
TextInOrder(n) ==
  {text \in [1 .. Cardinality(TextUpTo(n)) -> TextUpTo(n)] :
     ToSet(text) = TextUpTo(n) /\ \A i, j \in DOMAIN text : i < j => text[i] < text[j]}

TaskInit ==
  /\ face \in {"a2a", "webhook", "answer", "list"}
  /\ taskStatus = "queued" /\ owed = "none" /\ taskLog = << >>
  /\ feed = NoFeed
  /\ peer = [shown |-> << >>, last |-> 0, cuts |-> 0,
             text |-> << >>, from |-> 0, snap |-> 0]
  /\ answer = [pc |-> "idle", state |-> "none", text |-> {}]
  /\ updatedAt \in IF face = "list" THEN [Task -> 0 .. MaxTick] ELSE {[t \in Task |-> 0]}
  /\ tick = MaxTick
  /\ pages = [pc |-> "idle", cursor |-> <<0, 0>>, seen |-> {}, near |-> {}, moved |-> {}]

-----------------------------------------------------------------------------
(* The worker and the API that cancels, seen from here                       *)

Append1(event) ==
  /\ Len(taskLog) < MaxLog
  /\ taskLog' = Append(taskLog, event)
  /\ UNCHANGED <<face, feed, peer, answer, updatedAt, tick, pages>>

WorkerAppends(event) ==
  /\ face # "list" /\ taskStatus = "running" /\ owed = "none"
  /\ event \in {"delta", "blank", "completed", "artifact"}
  /\ Append1(event) /\ UNCHANGED <<taskStatus, owed>>

MoveTask(to, event) ==
  /\ face # "list" /\ owed = "none"
  /\ taskStatus' = to /\ owed' = event
  /\ UNCHANGED <<face, taskLog, feed, peer, answer, updatedAt, tick, pages>>

(* approval.requested is appended first, and message.completed may follow the pause. *)
RequestApproval ==
  /\ face # "list" /\ taskStatus = "running" /\ owed = "none"
  /\ Append1("approval") /\ owed' = "pause" /\ UNCHANGED taskStatus

Pause ==
  /\ owed = "pause" /\ taskStatus' = "waiting"
  /\ owed' \in {"none", "completed"}
  /\ UNCHANGED <<face, taskLog, feed, peer, answer, updatedAt, tick, pages>>

AppendOwed ==
  /\ owed \notin {"none", "pause"}
  /\ Append1(owed) /\ owed' = "none" /\ UNCHANGED taskStatus

(* cancel_task refuses a terminal task; RunService.cancel does the rest.     *)
CancelTask ==
  /\ taskStatus \in {"queued", "running", "waiting"}
  /\ MoveTask("cancelling", "status")

TaskMoves ==
  \/ taskStatus \in {"queued", "waiting"} /\ MoveTask("running", "status")
  \/ taskStatus \in {"running", "cancelling"} /\ MoveTask("ended", "end")

-----------------------------------------------------------------------------
(* Streams                                                                   *)

FeedUnchanged == UNCHANGED <<face, taskStatus, owed, taskLog, answer, updatedAt, tick, pages>>

(* subscribe_task, stream_message and subscribe_agent_trigger_run.  The A2A   *)
(* stream begins with the whole task: the artifact of its text is what the    *)
(* client then shows, and the updates that follow go by the id it gave.       *)
OpenFeed ==
  /\ face \in {"a2a", "webhook"} /\ feed.pc = "closed" /\ peer.cuts <= MaxCuts
  /\ face = "a2a" => taskStatus # "ended"
  /\ feed' = [pc |-> "poll", seq |-> peer.last, upto |-> 0, pending |-> 0,
              started |-> \E i \in 1 .. peer.last : taskLog[i] \in {"delta", "blank"},
              terminal |-> face = "a2a" /\ taskStatus = "waiting"]
  /\ \E text \in TextInOrder(Len(taskLog)) :
       peer' = IF face = "a2a"
               THEN [peer EXCEPT !.cuts = @ + 1, !.text = text, !.from = peer.last, !.snap = Len(taskLog)]
               ELSE [peer EXCEPT !.cuts = @ + 1]
  /\ FeedUnchanged

PollEvents ==
  /\ feed.pc = "poll" /\ ~feed.terminal
  /\ feed' = [feed EXCEPT !.pc = "send", !.upto = Len(taskLog)]
  /\ UNCHANGED peer /\ FeedUnchanged

(* Mutant of Push: every fragment replaces the text.                         *)
PushReplaces(client, fragment, append) ==
  [client EXCEPT !.shown = <<fragment>>, !.text = <<fragment>>, !.last = fragment]

(* _text_update: the held fragment replaces or extends the client's text, of  *)
(* the updates alone (shown) and of what it showed before them (text).        *)
Put(text, fragment, append) == IF append THEN Append(text, fragment) ELSE <<fragment>>
Push(client, fragment, append) ==
  [client EXCEPT !.shown = Put(@, fragment, append), !.text = Put(@, fragment, append),
                 !.last = fragment]

(* One event of the batch of _stream_events; the Run is read again for each. *)
SendA2A ==
  LET n == feed.seq + 1
      event == taskLog[n]
      flushed == IF feed.pending # 0 THEN Push(peer, feed.pending, feed.started) ELSE peer
      started == feed.started \/ feed.pending # 0
  IN /\ face = "a2a" /\ feed.pc = "send" /\ feed.seq < feed.upto
     /\ \/ /\ event = "blank"
           /\ feed' = [feed EXCEPT !.seq = n] /\ UNCHANGED peer
        \/ /\ event = "delta"
           /\ feed' = [feed EXCEPT !.seq = n, !.pending = n, !.started = started]
           /\ peer' = flushed
        \/ /\ event \notin {"blank", "delta"}
           /\ feed' = [feed EXCEPT !.seq = n, !.pending = 0, !.started = started,
                                   !.terminal = @ \/ event = "end" \/ taskStatus = "waiting"]
           /\ peer' = IF event = "completed" THEN flushed ELSE [flushed EXCEPT !.last = n]
     /\ FeedUnchanged

(* One event of the batch of _run_event_stream                               *)
SendWebhook ==
  LET n == feed.seq + 1
  IN /\ face = "webhook" /\ feed.pc = "send" /\ feed.seq < feed.upto
     /\ feed' = [feed EXCEPT !.seq = n, !.terminal = @ \/ taskLog[n] = "end"]
     /\ peer' = IF taskLog[n] = "delta" THEN Push(peer, n, TRUE) ELSE [peer EXCEPT !.last = n]
     /\ FeedUnchanged

(* The end of a batch: the webhook's stream also ends with the Run, whether  *)
(* or not the log was read to its end.                                       *)
EndBatch ==
  /\ feed.pc = "send" /\ feed.seq = feed.upto
  /\ feed' = IF ~feed.terminal /\ (face = "webhook" => taskStatus # "ended")
             THEN [feed EXCEPT !.pc = "poll"] ELSE NoFeed
  /\ UNCHANGED peer /\ FeedUnchanged

(* A stream that is over from the start, and a connection that breaks        *)
CloseFeed ==
  /\ feed.pc # "closed" /\ (feed.terminal => feed.pc = "poll")
  /\ feed' = NoFeed /\ UNCHANGED peer /\ FeedUnchanged

-----------------------------------------------------------------------------
(* message:send waits for the Run and then reads its text                    *)

AnswerUnchanged ==
  UNCHANGED <<face, taskStatus, owed, taskLog, feed, peer, updatedAt, tick, pages>>

SendMessage ==
  /\ face = "answer" /\ answer.pc = "idle"
  /\ answer' = [answer EXCEPT !.pc = "wait"] /\ AnswerUnchanged

(* _wait_for_run: a client that has gone, or asked not to wait, is answered at once. *)
WaitForRun(gone) ==
  /\ answer.pc = "wait" /\ (taskStatus \in {"ended", "waiting"} \/ gone)
  /\ answer' = [answer EXCEPT !.pc = "read", !.state = taskStatus] /\ AnswerUnchanged

(* _task_value *)
TaskValue ==
  /\ answer.pc = "read"
  /\ answer' = [answer EXCEPT !.pc = "done", !.text = TextUpTo(Len(taskLog))] /\ AnswerUnchanged

-----------------------------------------------------------------------------
(* The task list: runs by (updated_at, run_id) descending, cut at a cursor   *)
(* whose timestamp _timestamp writes in milliseconds                          *)

Truncated(time) == time - (time % Millisecond)
Before(a, b) == a[1] < b[1] \/ (a[1] = b[1] /\ a[2] < b[2])
KeyOf(t) == <<updatedAt[t], t>>
Filtered == {t \in Task : pages.pc = "more" => Before(KeyOf(t), pages.cursor)}

(* _cursor of the last task of a page                                        *)
Cursor(t) == <<Truncated(updatedAt[t]), t>>

More(rest) == Cardinality(rest) > PageSize

(* A page is the latest of the tasks; only one that is not the last has a    *)
(* cursor.                                                                    *)
ListPage ==
  /\ face = "list" /\ pages.pc \in {"idle", "more"}
  /\ \E page \in SUBSET Filtered :
       /\ \A t \in page, u \in Filtered \ page : Before(KeyOf(u), KeyOf(t))
       /\ \/ /\ ~More(Filtered) /\ page = Filtered
             /\ pages' = [pages EXCEPT !.pc = "done", !.seen = @ \cup page]
          \/ /\ More(Filtered) /\ Cardinality(page) = PageSize
             /\ \E end \in page :
                  /\ \A t \in page \ {end} : Before(KeyOf(end), KeyOf(t))
                  /\ pages' = [pages EXCEPT !.pc = "more", !.cursor = Cursor(end),
                                 !.seen = @ \cup page,
                                 !.near = @ \cup {t \in Task : Cursor(t)[1] = Cursor(end)[1]}]
  /\ UNCHANGED <<face, taskStatus, owed, taskLog, feed, peer, answer, updatedAt, tick>>

(* A Run that moves while it is listed                                       *)
TouchTask(t) ==
  /\ face = "list" /\ pages.pc = "more" /\ tick < MaxTick + 1
  /\ tick' = tick + 1 /\ updatedAt' = [updatedAt EXCEPT ![t] = tick']
  /\ pages' = [pages EXCEPT !.moved = @ \cup {t}]
  /\ UNCHANGED <<face, taskStatus, owed, taskLog, feed, peer, answer>>

-----------------------------------------------------------------------------
TaskNext ==
  \/ \E e \in EventType : WorkerAppends(e)
  \/ RequestApproval \/ Pause \/ AppendOwed \/ CancelTask \/ TaskMoves
  \/ OpenFeed \/ PollEvents \/ SendA2A \/ SendWebhook \/ EndBatch \/ CloseFeed
  \/ SendMessage \/ (\E gone \in BOOLEAN : WaitForRun(gone)) \/ TaskValue
  \/ ListPage \/ \E t \in Task : TouchTask(t)

-----------------------------------------------------------------------------
(* However often the connection breaks, and although a fragment is held back, *)
(* the updates sent to a client that resumes with the last id it was sent are *)
(* exactly the text up to that event, each fragment once and in order.  With  *)
(* the task that begins each stream this is not so: nothing up to the last id *)
(* is missing from what the client shows, but a fragment after the id it      *)
(* resumed with that was already in that task is appended to it a second      *)
(* time; no other is repeated or out of order.  An answer of message:send     *)
(* that says the task ended has the whole text.                               *)
TaskTextOnce ==
  /\ ToSet(peer.shown) = TextUpTo(peer.last)
  /\ \A i, j \in DOMAIN peer.shown : i < j => peer.shown[i] < peer.shown[j]
  /\ face = "a2a" =>
       /\ TextUpTo(peer.last) \subseteq ToSet(peer.text)
       /\ ToSet(peer.text) \subseteq TextUpTo(peer.last) \cup TextUpTo(peer.snap)
       /\ \A i, j \in DOMAIN peer.text :
            i < j /\ peer.text[j] <= peer.text[i] =>
              peer.from < peer.text[j] /\ peer.text[j] <= peer.snap
  /\ answer.pc = "done" /\ answer.state = "ended" => answer.text = TextUpTo(Len(taskLog))

(* A listing read to its last page has shown every task but those that moved  *)
(* while it was read and those of one millisecond with the end of a page: the *)
(* cursor's timestamp is cut to milliseconds and the rows' are not.           *)
PagesSkipNothing ==
  pages.pc = "done" => Task \ (pages.moved \cup pages.near) \subseteq pages.seen
===============================================================================
