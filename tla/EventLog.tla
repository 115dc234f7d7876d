------------------------------ MODULE EventLog ------------------------------
(***************************************************************************)
(* The durable events of one Run (application/events.py) and the streams    *)
(* that follow them: the AG-UI run and replay endpoints (agui/routes.py),   *)
(* the webhook's event stream (triggers/api.py) and the A2A subscription    *)
(* (triggers/a2a.py).                                                       *)
(*                                                                         *)
(* Writers are the services of all processes that append to the log; they   *)
(* write the row first when an event announces a status.  A client keeps    *)
(* the frames it received, loses its connection and comes back with the id  *)
(* of the last one.                                                         *)
(***************************************************************************)
EXTENDS Integers, Sequences, FiniteSets, FiniteSetsExt, SequencesExt

CONSTANTS Writer,    \* calls of EventService.append in progress
          Stream,    \* clients
          MaxEvents, \* bound: events of the Run
          MaxFaults  \* bound: failed appends and lost connections, together

Surface == {"agui", "webhook", "a2a"}
EndTypes == {"end", "cancelled"}
Type == {"queued", "paused", "running", "delta", "artifact"} \cup EndTypes

ASSUME EventBounds == MaxEvents \in Nat \ {0, 1} /\ MaxFaults \in Nat

VARIABLES row,     \* the status of the Run: "running", "waiting" or "terminal"
          log,     \* EventRow by sequence number
          writers, \* the appends in progress
          streams, \* the connections and their clients
          faults

eventVars == <<row, log, writers, streams, faults>>

-----------------------------------------------------------------------------
(* EventService.append.                                                     *)

IdleWriter == [pc |-> "idle", type |-> "queued", sequence |-> 0]
LastSequence == Max(DOMAIN log \cup {0})
After(n) == {m \in DOMAIN log : m > n}

Extend(n, type) == [m \in DOMAIN log \cup {n} |-> IF m = n THEN type ELSE log[m]]

(* Bound: one place is kept for the event that ends the Run.                *)
Room == Cardinality(DOMAIN log) + Cardinality({w \in Writer : writers[w].pc # "idle"})
          < IF row = "terminal" THEN MaxEvents ELSE MaxEvents - 1

StartAppend(w, type) ==
  /\ writers[w].pc = "idle"
  /\ writers' = [writers EXCEPT ![w] = [pc |-> "read", type |-> type, sequence |-> 0]]
  /\ UNCHANGED <<log, streams, faults>>

(* Text, tools and artifacts.  A worker that does not know yet that the Run *)
(* has ended goes on writing them.                                          *)
Note(w, type) ==
  /\ type \in {"delta", "artifact"}
  /\ Room
  /\ StartAppend(w, type)
  /\ UNCHANGED row

(* _move and ApprovalService: pause and resume.                             *)
ChangeStatus(w) ==
  /\ Room
  /\ row # "terminal"
  /\ row' = IF row = "running" THEN "waiting" ELSE "running"
  /\ StartAppend(w, IF row = "running" THEN "paused" ELSE "running")

(* _move to a terminal status: the compare-and-set, then the event.         *)
EndRun(w, type) ==
  /\ type \in EndTypes
  /\ row # "terminal"
  /\ row' = "terminal"
  /\ StartAppend(w, type)

ReadLast(w) ==
  /\ writers[w].pc = "read"
  /\ writers' = [writers EXCEPT ![w].pc = "insert", ![w].sequence = LastSequence + 1]
  /\ UNCHANGED <<row, log, streams, faults>>

(* The unique constraint on the sequence decides; the loser reads again.    *)
(* The winner's event is then copied to Redis, where no process of the      *)
(* platform reads it; a failure of that is the caller's and undoes nothing. *)
InsertEvent(w) ==
  LET n == writers[w].sequence IN
  /\ writers[w].pc = "insert"
  /\ IF n \notin DOMAIN log
       THEN /\ log' = Extend(n, writers[w].type)
            /\ writers' = [writers EXCEPT ![w] = IdleWriter]
       ELSE /\ writers' = [writers EXCEPT ![w].pc = "read"]
            /\ UNCHANGED log
  /\ UNCHANGED <<row, streams, faults>>

(* An exception of the database, or the end of the process: the caller does *)
(* not try again.                                                           *)
AppendFails(w) ==
  /\ writers[w].pc # "idle"
  /\ faults < MaxFaults
  /\ faults' = faults + 1
  /\ writers' = [writers EXCEPT ![w] = IdleWriter]
  /\ UNCHANGED <<row, log, streams>>

-----------------------------------------------------------------------------
(* What a client receives for an event.                                     *)

InOrder(events) == SetToSortSeq(events, LAMBDA x, y : x < y)
Frame(n, part) == [event |-> n, part |-> part, shows |-> n]
Whole(n) == <<Frame(n, "body")>>

(* _terminal_artifact_projection, over the events handed to it.             *)
Cards(n, known) ==
  LET artifacts == InOrder({m \in known : log[m] = "artifact"}) IN
  [i \in 1..Len(artifacts) |-> [event |-> n, part |-> "card", shows |-> artifacts[i]]]

(* map_harness_event: the parts of an event, without the cards.             *)
Parts(n) ==
  IF log[n] = "queued" THEN <<"start", "open", "activity">>
  ELSE IF log[n] \in {"running", "delta"} THEN <<"content", "activity">>
  ELSE IF log[n] = "cancelled" THEN <<"content", "activity", "close">>
  ELSE IF log[n] = "end" THEN <<"activity", "close", "finish">>
  ELSE <<"body">>

(* project_stream_event: the cards of the artifacts come between the        *)
(* closing of the text and the final frame.                                 *)
Projected(n, known) ==
  LET frames == [i \in DOMAIN Parts(n) |-> Frame(n, Parts(n)[i])] IN
  IF log[n] # "end" THEN frames
  ELSE SubSeq(frames, 1, 2) \o Cards(n, known) \o <<Frame(n, "finish")>>

(* _stream_events holds text back until it knows what follows, and says     *)
(* nothing of run.waiting_approval.                                         *)
A2aFrames(n, held) ==
  (IF held = 0 THEN <<>> ELSE Whole(held))
    \o (IF log[n] \in {"delta", "paused"} THEN <<>> ELSE Whole(n))

(* The frames sent when the event n is reached on the connection c.         *)
FramesOf(c, n) ==
  IF c.surface = "agui"
    THEN LET all == Projected(n, c.known \cup IF c.replay THEN {} ELSE {n})
         IN  SubSeq(all, IF n = c.first THEN c.skip + 1 ELSE 1, Len(all))
  ELSE IF c.surface = "webhook" THEN Whole(n)
  ELSE A2aFrames(n, c.held)

-----------------------------------------------------------------------------
(* A connection.  cursor: `sequence`; batch: events listed and not yet      *)
(* sent; known: the events the AG-UI projection looks at; first and skip:   *)
(* the event of the cursor and how many of its frames were delivered;       *)
(* held: pending_text; stop: the loop ends after this batch.  got is the    *)
(* client's, and outlives the connection.                                   *)
Closed(surface, got) ==
  [pc |-> "off", surface |-> surface, cursor |-> 0, batch |-> <<>>, known |-> {},
   first |-> 0, skip |-> 0, held |-> 0, replay |-> FALSE, stop |-> FALSE, got |-> got]

EventInit ==
  /\ row = "running"
  /\ log = <<"queued">>
  /\ writers = [w \in Writer |-> IdleWriter]
  /\ \E f \in [Stream -> Surface] :
       streams = [s \in Stream |-> [Closed(f[s], <<>>) EXCEPT !.pc = "poll"]]
  /\ faults = 0

(* The client has the last frame of the event that ends the Run.            *)
SawEnd(s) ==
  \E i \in 1..Len(streams[s].got) :
    LET f == streams[s].got[i]
    IN  /\ log[f.event] \in EndTypes
        /\ f.part = IF streams[s].surface # "agui" THEN "body" ELSE Last(Parts(f.event))

SetStream(s, c) ==
  /\ streams' = [streams EXCEPT ![s] = c]
  /\ UNCHANGED <<row, log, writers, faults>>

(* list_after, in a stream that follows the Run.                            *)
Poll(s) ==
  LET c == streams[s] IN
  /\ c.pc = "poll"
  /\ SetStream(s, [c EXCEPT !.pc = "send", !.batch = InOrder(After(c.cursor))])

Send(s) ==
  LET c == streams[s]
      n == Head(c.batch)
  IN  /\ c.pc = "send" /\ c.batch # <<>>
      /\ SetStream(s,
           [c EXCEPT !.batch = Tail(@), !.cursor = n, !.got = @ \o FramesOf(c, n),
                     !.known = IF c.replay THEN @ ELSE @ \cup {n},
                     !.held = IF c.surface = "a2a" /\ log[n] = "delta" THEN n ELSE 0,
                     !.stop = \/ @
                              \/ log[n] \in EndTypes
                              \/ c.surface = "a2a" /\ log[n] # "delta" /\ row = "waiting"])

(* The end of a batch.  The webhook's stream also asks for the row.         *)
BatchSent(s) ==
  LET c == streams[s] IN
  /\ c.pc = "send" /\ c.batch = <<>>
  /\ SetStream(s, IF c.stop \/ c.replay THEN Closed(c.surface, c.got)
                  ELSE [c EXCEPT !.pc = IF c.surface = "webhook" THEN "check" ELSE "poll"])

CheckRow(s) ==
  LET c == streams[s] IN
  /\ c.pc = "check"
  /\ SetStream(s, IF row = "terminal" THEN Closed(c.surface, c.got)
                                      ELSE [c EXCEPT !.pc = "poll"])

(* The connection breaks; of the event being sent some frames arrived.      *)
Cut(s) ==
  LET c == streams[s]
      sending == IF c.pc = "send" /\ c.batch # <<>> THEN FramesOf(c, Head(c.batch)) ELSE <<>>
  IN  /\ c.pc # "off"
      /\ faults < MaxFaults
      /\ faults' = faults + 1
      /\ \E i \in 0..Len(sending) :
           streams' = [streams EXCEPT ![s] = Closed(c.surface, c.got \o SubSeq(sending, 1, i))]
      /\ UNCHANGED <<row, log, writers>>

-----------------------------------------------------------------------------
(* The client comes back with the id of the last frame.                     *)

LastEvent(got) == IF got = <<>> THEN 0 ELSE Last(got).event

(* How many frames of the last event it has; AG-UI numbers the frames of an *)
(* event that has more than one, and only those.                            *)
Delivered(got) ==
  IF got = <<>> \/ Last(got).part = "body" THEN 0
  ELSE Cardinality({i \in 1..Len(got) : got[i].event = Last(got).event})

(* Mutant of ReplayCursor: the event of the cursor counts as delivered.     *)
ReplayCursorWhole(got) == LastEvent(got)

(* _projected_event_cursor: an event of which frames may be missing is      *)
(* listed again.                                                            *)
ReplayCursor(got) == IF Delivered(got) > 0 THEN LastEvent(got) - 1 ELSE LastEvent(got)

(* The AG-UI replay lists the events to send and then, in a second read,    *)
(* all events.                                                              *)
Replay(s) ==
  LET c == streams[s] IN
  /\ c.pc = "off" /\ c.surface = "agui" /\ ~SawEnd(s)
  /\ SetStream(s, [c EXCEPT !.pc = "context", !.replay = TRUE,
                            !.first = LastEvent(c.got), !.skip = Delivered(c.got),
                            !.batch = InOrder(After(ReplayCursor(c.got)))])

(* Mutant of ReadContext: the projection sees the replayed events only.     *)
ReadContextTail(s) ==
  LET c == streams[s] IN
  /\ c.pc = "context"
  /\ SetStream(s, [c EXCEPT !.pc = "send", !.known = ToSet(c.batch)])

ReadContext(s) ==
  LET c == streams[s] IN
  /\ c.pc = "context"
  /\ SetStream(s, [c EXCEPT !.pc = "send", !.known = DOMAIN log])

(* The webhook stream and the A2A subscription, which refuses a Run that    *)
(* has ended and closes at once when the Run waits for an approval.         *)
Resume(s) ==
  LET c == streams[s] IN
  /\ c.pc = "off" /\ c.surface # "agui" /\ ~SawEnd(s)
  /\ c.surface = "a2a" => row = "running"
  /\ SetStream(s, [c EXCEPT !.pc = "poll", !.cursor = LastEvent(c.got)])

-----------------------------------------------------------------------------
AppendStep(w) == ReadLast(w) \/ InsertEvent(w)
StreamStep(s) == Poll(s) \/ Send(s) \/ BatchSent(s) \/ CheckRow(s) \/ ReadContext(s)
Reconnect(s) == Replay(s) \/ Resume(s)

EventNext ==
  \/ \E w \in Writer :
       \/ AppendStep(w) \/ AppendFails(w) \/ ChangeStatus(w)
       \/ \E type \in Type : Note(w, type) \/ EndRun(w, type)
  \/ \E s \in Stream : StreamStep(s) \/ Cut(s) \/ Reconnect(s)

(* The tasks of the server are scheduled, and a client comes back.          *)
EventFairness ==
  /\ \A w \in Writer : WF_eventVars(AppendStep(w))
  /\ \A s \in Stream : WF_eventVars(StreamStep(s)) /\ WF_eventVars(Reconnect(s))

EventSafety == EventInit /\ [][EventNext]_eventVars
EventSpec == EventSafety /\ EventFairness

-----------------------------------------------------------------------------
EventFrame ==
  [event : 1..MaxEvents, shows : 1..MaxEvents,
   part : {"start", "open", "body", "content", "activity", "close", "card", "finish"}]

(* The log, the appends and the connections hold values of their types.     *)
EventTypeOK ==
  /\ row \in {"running", "waiting", "terminal"}
  /\ DOMAIN log \subseteq 1..MaxEvents
  /\ \A n \in DOMAIN log : log[n] \in Type
  /\ writers \in [Writer -> [pc : {"idle", "read", "insert"}, type : Type,
                             sequence : 0..MaxEvents]]
  /\ \A s \in Stream :
       LET c == streams[s] IN
       /\ c.pc \in {"off", "context", "poll", "send", "check"}
       /\ c.surface \in Surface
       /\ {c.cursor, c.first, c.held} \subseteq 0..MaxEvents
       /\ c.skip \in 0..MaxEvents + 3
       /\ ToSet(c.batch) \cup c.known \subseteq DOMAIN log
       /\ {c.replay, c.stop} \subseteq BOOLEAN
       /\ ToSet(c.got) \subseteq EventFrame
  /\ faults \in 0..MaxFaults

(* Whatever appends race and fail, the log only grows, by the number that   *)
(* follows the last: an event is never rewritten, and none appears behind   *)
(* the cursor of a stream.                                                  *)
AppendOnly ==
  [][log' # log => /\ DOMAIN log' = DOMAIN log \cup {LastSequence + 1}
                   /\ \A n \in DOMAIN log : log'[n] = log[n]]_eventVars

(* What a client is to receive of the event n, cards apart.                 *)
PartsOf(surface, n) ==
  IF surface = "agui" THEN ToSet(Parts(n))
  ELSE IF surface = "a2a" /\ log[n] = "paused" THEN {} ELSE {"body"}

(* Over all its connections a client receives every frame once, in the      *)
(* order of the log, and before the final frame a card for each artifact    *)
(* that the Run had by then.                                                *)
ClientsMissNothing ==
  \A s \in Stream :
    LET got == streams[s].got IN
    \A i \in 1..Len(got) :
      LET before == {got[j] : j \in 1..(i - 1)} IN
      /\ got[i] \notin before
      /\ \A f \in before : f.event <= got[i].event
      /\ \A n \in 1..(got[i].event - 1) : \A part \in PartsOf(streams[s].surface, n) :
           Frame(n, part) \in before
      /\ got[i].part = "finish" /\ log[got[i].event] = "end" =>
           \A m \in 1..(got[i].event - 1) :
             log[m] = "artifact" =>
               [event |-> got[i].event, part |-> "card", shows |-> m] \in before

(* Once the event that ends the Run is in the log, a client that comes back *)
(* after each lost connection receives it.  The A2A subscription, which a   *)
(* terminal Run refuses, promises it only to a connection that lasts.       *)
EndReachesClients ==
  \A s \in Stream :
    (\E n \in DOMAIN log : log[n] \in EndTypes)
      ~> (SawEnd(s) \/ (streams[s].surface = "a2a" /\ streams[s].pc = "off"))
=============================================================================
