---------------------------- MODULE RuntimeProofs ----------------------------
(***************************************************************************)
(* The inductive invariants of a turn of the agent and of the thread it is  *)
(* shown in: of the agent runtime's stream (RuntimeStream), for texts of     *)
(* any length and any number of subagents; of a CLI in a remote sandbox      *)
(* (RemoteCli), for output of any length, cut into chunks anywhere, and any  *)
(* files; and of a thread (History), for any tree of edits and               *)
(* regenerations.  What the log already says, the events on their way to it  *)
(* and the runtime's own state make one account of the turn: played to its   *)
(* end, the log says what the model has said.  What is left in the worker's  *)
(* buffer is the end of what it has read of the CLI's output, and every      *)
(* object that ended before it is a message.  The Runs of a client's branch  *)
(* are in their order, and the search for its prompts is never past them.    *)
(* ServicesProofs states the theorems.                                       *)
(***************************************************************************)
EXTENDS RuntimeStream, RemoteCli, History, FiniteSetTheorems, FunctionTheorems, WellFoundedInduction, TLAPS

-----------------------------------------------------------------------------
(* What a log says: whether a message is open, how much of the text it has,  *)
(* which subagents it has ended and which it has started.                    *)
Telling == [mark : {"open", "closed"}, told : Nat, over : SUBSET Subagent, met : SUBSET Subagent]
Tells(mark, told, over, met) == [mark |-> mark, told |-> told, over |-> over, met |-> met]

Event == [type : {"start", "completed", "delta", "subagent.started", "subagent.ended"},
          text : Seq(Nat), tasks : SUBSET Subagent]

(* An event that the log may be given: its text goes on where the log ends,  *)
(* inside a message, and nothing ends twice.                                 *)
MayFollow(event, x, y) ==
  \/ event.type = "start" /\ x.mark = "closed" /\ y = Tells("open", x.told, x.over, x.met)
  \/ event.type = "completed" /\ x.mark = "open" /\ y = Tells("closed", x.told, x.over, x.met)
  \/ /\ event.type = "delta" /\ x.mark = "open"
     /\ \A i \in 1 .. Len(event.text) : event.text[i] = x.told + i
     /\ y = Tells(x.mark, x.told + Len(event.text), x.over, x.met)
  \/ /\ event.type = "subagent.started"
     /\ y = Tells(x.mark, x.told, x.over, x.met \cup event.tasks)
  \/ /\ event.type = "subagent.ended" /\ event.tasks \cap x.over = {}
     /\ y = Tells(x.mark, x.told, x.over \cup event.tasks, x.met)

Walks(path, batch, x, y) ==
  /\ path \in [1 .. Len(batch) + 1 -> Telling]
  /\ path[1] = x /\ path[Len(batch) + 1] = y
  /\ \A i \in 1 .. Len(batch) : MayFollow(batch[i], path[i], path[i + 1])

Plays(batch, x, y) == \E path : Walks(path, batch, x, y)

LEMMA PlayNothing == ASSUME NEW x \in Telling PROVE Plays(<< >>, x, x)
<1> DEFINE path == [i \in 1 .. 1 |-> x]
<1>1. Len(<< >>) = 0 /\ 1 .. 0 = {}
  OBVIOUS
<1>2. path \in [1 .. 0 + 1 -> Telling] /\ path[1] = x
  OBVIOUS
<1> HIDE DEF path
<1>3. Walks(path, << >>, x, x)
  BY <1>1, <1>2 DEF Walks
<1> QED BY <1>3 DEF Plays

LEMMA PlayNothingIs == ASSUME NEW x, NEW y, Plays(<< >>, x, y) PROVE x = y
BY DEF Plays, Walks

LEMMA PlayOne ==
  ASSUME NEW event \in Event, NEW x \in Telling, NEW y \in Telling, MayFollow(event, x, y)
  PROVE  Plays(<<event>>, x, y)
<1> DEFINE path == [i \in 1 .. 2 |-> IF i = 1 THEN x ELSE y]
<1>1. Len(<<event>>) = 1 /\ <<event>>[1] = event
  OBVIOUS
<1>2. path \in [1 .. 2 -> Telling] /\ path[1] = x /\ path[2] = y
  OBVIOUS
<1> HIDE DEF path
<1>3. 1 + 1 = 2 /\ 1 .. 1 = {1}
  OBVIOUS
<1>4. Walks(path, <<event>>, x, y)
  BY <1>1, <1>2, <1>3 DEF Walks
<1> QED BY <1>4 DEF Plays

LEMMA PlayBoth ==
  ASSUME NEW s \in Seq(Event), NEW r \in Seq(Event), NEW x, NEW y, NEW z,
         Plays(s, x, y), Plays(r, y, z)
  PROVE  Plays(s \o r, x, z)
<1>1. PICK p : Walks(p, s, x, y)
  BY DEF Plays
<1>2. PICK q : Walks(q, r, y, z)
  BY DEF Plays
<1> DEFINE n == Len(s)
           m == Len(r)
           path == [i \in 1 .. n + m + 1 |-> IF i <= n THEN p[i] ELSE q[i - n]]
           both == s \o r
<1>3. /\ n \in Nat /\ m \in Nat /\ Len(both) = n + m
      /\ \A i \in 1 .. n : both[i] = s[i]
      /\ \A i \in n + 1 .. n + m : both[i] = r[i - n]
  OBVIOUS
<1> HIDE DEF both, n, m
<1>4. /\ p \in [1 .. n + 1 -> Telling] /\ p[1] = x /\ p[n + 1] = y
      /\ \A i \in 1 .. n : MayFollow(s[i], p[i], p[i + 1])
      /\ q \in [1 .. m + 1 -> Telling] /\ q[1] = y /\ q[m + 1] = z
      /\ \A i \in 1 .. m : MayFollow(r[i], q[i], q[i + 1])
  BY <1>1, <1>2 DEF Walks, n, m
<1>5. /\ \A i \in 1 .. n + 1 : path[i] = p[i]
      /\ \A i \in 1 .. m + 1 : path[n + i] = q[i]
  BY <1>3, <1>4
<1>6. path \in [1 .. n + m + 1 -> Telling]
  BY <1>3, <1>4
<1> HIDE DEF path
<1>7. path[1] = x
  BY <1>3, <1>4, <1>5
<1>8. path[n + m + 1] = z
  <2>1. m + 1 \in 1 .. m + 1 /\ n + (m + 1) = n + m + 1
    BY <1>3
  <2> QED BY <1>4, <1>5, <2>1
<1>9. ASSUME NEW i \in 1 .. n + m PROVE MayFollow(both[i], path[i], path[i + 1])
  <2>1. CASE i <= n
    <3>1. i \in 1 .. n /\ i \in 1 .. n + 1 /\ i + 1 \in 1 .. n + 1
      BY <1>3, <2>1
    <3> QED BY <1>3, <1>4, <1>5, <3>1
  <2>2. CASE ~(i <= n)
    <3>1. PICK j \in 1 .. m : i = n + j
      <4>1. i - n \in 1 .. m /\ i = n + (i - n)
        BY <1>3, <2>2
      <4> QED BY <4>1
    <3>2. /\ both[i] = r[j]
      BY <1>3, <3>1
    <3>3. path[i] = q[j] /\ path[i + 1] = q[j + 1]
      <4>1. j \in 1 .. m + 1 /\ j + 1 \in 1 .. m + 1 /\ i + 1 = n + (j + 1)
        BY <1>3, <3>1
      <4> QED BY <1>5, <3>1, <4>1
    <3> QED BY <1>4, <3>1, <3>2, <3>3
  <2> QED BY <2>1, <2>2
<1>10. Walks(path, both, x, z)
  BY <1>3, <1>6, <1>7, <1>8, <1>9 DEF Walks
<1> QED BY <1>10 DEF Plays, both

LEMMA PlayHead ==
  ASSUME NEW s \in Seq(Event), s # << >>, NEW x, NEW y, Plays(s, x, y)
  PROVE  /\ Head(s) \in Event /\ Tail(s) \in Seq(Event)
         /\ \E z \in Telling : MayFollow(Head(s), x, z) /\ Plays(Tail(s), z, y)
<1>1. PICK p : Walks(p, s, x, y)
  BY DEF Plays
<1> DEFINE n == Len(s)
           path == [i \in 1 .. n |-> p[i + 1]]
           rest == Tail(s)
<1>2. /\ n \in Nat /\ n >= 1 /\ Len(rest) = n - 1 /\ Head(s) = s[1] /\ s[1] \in Event
      /\ \A i \in 1 .. n - 1 : rest[i] = s[i + 1]
      /\ rest \in Seq(Event)
  OBVIOUS
<1>3. /\ p \in [1 .. n + 1 -> Telling] /\ p[1] = x /\ p[n + 1] = y
      /\ \A i \in 1 .. n : MayFollow(s[i], p[i], p[i + 1])
  BY <1>1 DEF Walks
<1> HIDE DEF rest, n
<1>4. path \in [1 .. (n - 1) + 1 -> Telling]
  BY <1>2, <1>3
<1>5. \A i \in 1 .. n : path[i] = p[i + 1]
  OBVIOUS
<1> HIDE DEF path
<1>6. path[1] = p[2] /\ path[(n - 1) + 1] = y
  <2>1. 1 \in 1 .. n /\ n \in 1 .. n /\ (n - 1) + 1 = n /\ 1 + 1 = 2
    BY <1>2
  <2> QED BY <1>3, <1>5, <2>1
<1>7. ASSUME NEW i \in 1 .. n - 1 PROVE MayFollow(rest[i], path[i], path[i + 1])
  <2>1. i \in 1 .. n /\ i + 1 \in 1 .. n
    BY <1>2
  <2> QED BY <1>2, <1>3, <1>5, <2>1
<1>8. Walks(path, rest, p[2], y)
  BY <1>2, <1>4, <1>6, <1>7 DEF Walks
<1>9. 2 \in 1 .. n + 1 /\ 1 \in 1 .. n /\ 1 + 1 = 2
  BY <1>2
<1>10. p[2] \in Telling /\ MayFollow(Head(s), x, p[2])
  BY <1>2, <1>3, <1>9
<1> QED BY <1>2, <1>8, <1>10 DEF Plays, rest

-----------------------------------------------------------------------------
(* What the runtime yields, one piece at a time.                              *)

LEMMA TellsIs ==
  ASSUME NEW mark \in {"open", "closed"}, NEW told \in Nat, NEW over \in SUBSET Subagent,
         NEW met \in SUBSET Subagent
  PROVE  LET x == Tells(mark, told, over, met) IN
         x \in Telling /\ x.mark = mark /\ x.told = told /\ x.over = over /\ x.met = met
BY DEF Tells, Telling

LEMMA EventsAre ==
  /\ OpenMessage \in Event /\ OpenMessage.type = "start"
  /\ Completed \in Event /\ Completed.type = "completed"
  /\ \A text \in Seq(Nat) :
       Delta(text) \in Event /\ Delta(text).type = "delta" /\ Delta(text).text = text
  /\ \A t \in Subagent :
       Began(t) \in Event /\ Began(t).type = "subagent.started" /\ Began(t).tasks = {t}
  /\ \A ts \in SUBSET Subagent :
       /\ SubagentEnded(ts) \in Event /\ SubagentEnded(ts).type = "subagent.ended"
       /\ SubagentEnded(ts).tasks = ts
<1>5. << >> \in Seq(Nat) /\ {} \in SUBSET Subagent
  OBVIOUS
<1>6. \A t \in Subagent : {t} \in SUBSET Subagent
  OBVIOUS
<1>7. OpenMessage \in Event /\ Completed \in Event
  BY <1>5 DEF Event, OpenMessage, Completed
<1>8. \A text \in Seq(Nat) : Delta(text) \in Event
  BY <1>5 DEF Event, Delta
<1>9. \A t \in Subagent : Began(t) \in Event
  BY <1>5, <1>6 DEF Event, Began
<1>10. \A ts \in SUBSET Subagent : SubagentEnded(ts) \in Event
  BY <1>5 DEF Event, SubagentEnded
<1>11. /\ OpenMessage.type = "start" /\ Completed.type = "completed"
       /\ \A text : Delta(text).type = "delta" /\ Delta(text).text = text
       /\ \A t : Began(t).type = "subagent.started" /\ Began(t).tasks = {t}
       /\ \A ts : SubagentEnded(ts).type = "subagent.ended" /\ SubagentEnded(ts).tasks = ts
  BY DEF OpenMessage, Completed, Delta, Began, SubagentEnded
<1> QED BY <1>7, <1>8, <1>9, <1>10, <1>11

LEMMA PlayMessages ==
  ASSUME NEW told \in Nat, NEW over \in SUBSET Subagent, NEW met \in SUBSET Subagent
  PROVE  /\ Plays(<<OpenMessage>>, Tells("closed", told, over, met), Tells("open", told, over, met))
         /\ Plays(<<Completed>>, Tells("open", told, over, met), Tells("closed", told, over, met))
         /\ <<OpenMessage>> \in Seq(Event) /\ <<Completed>> \in Seq(Event)
         /\ Tells("closed", told, over, met) \in Telling /\ Tells("open", told, over, met) \in Telling
         /\ MayFollow(OpenMessage, Tells("closed", told, over, met), Tells("open", told, over, met))
         /\ MayFollow(Completed, Tells("open", told, over, met), Tells("closed", told, over, met))
<1>1. Tells("closed", told, over, met) \in Telling /\ Tells("open", told, over, met) \in Telling
  BY TellsIs
<1>2. MayFollow(OpenMessage, Tells("closed", told, over, met), Tells("open", told, over, met))
  BY EventsAre, TellsIs DEF MayFollow
<1>3. MayFollow(Completed, Tells("open", told, over, met), Tells("closed", told, over, met))
  BY EventsAre, TellsIs DEF MayFollow
<1>4. OpenMessage \in Event /\ Completed \in Event
  BY EventsAre
<1> QED BY <1>1, <1>2, <1>3, <1>4, PlayOne

(* Text that goes on where the log ends                                       *)
GoesOn(text, told) == text \in Seq(Nat) /\ \A i \in 1 .. Len(text) : text[i] = told + i

LEMMA PlayDelta ==
  ASSUME NEW told \in Nat, NEW over \in SUBSET Subagent, NEW met \in SUBSET Subagent,
         NEW text, GoesOn(text, told)
  PROVE  /\ Plays(<<Delta(text)>>, Tells("open", told, over, met),
                  Tells("open", told + Len(text), over, met))
         /\ <<Delta(text)>> \in Seq(Event)
         /\ MayFollow(Delta(text), Tells("open", told, over, met), Tells("open", told + Len(text), over, met))
<1>1. text \in Seq(Nat) /\ Len(text) \in Nat /\ told + Len(text) \in Nat
  BY DEF GoesOn
<1>2. /\ Tells("open", told, over, met) \in Telling
      /\ Tells("open", told + Len(text), over, met) \in Telling
  BY <1>1, TellsIs
<1>3. MayFollow(Delta(text), Tells("open", told, over, met), Tells("open", told + Len(text), over, met))
  BY <1>1, EventsAre, TellsIs DEF MayFollow, GoesOn
<1>4. Delta(text) \in Event
  BY <1>1, EventsAre
<1> QED BY <1>2, <1>3, <1>4, PlayOne

(* What is held back is flushed if there is any.                              *)
LEMMA PlaySome ==
  ASSUME NEW mark \in {"open", "closed"}, NEW told \in Nat, NEW over \in SUBSET Subagent,
         NEW met \in SUBSET Subagent, NEW text, GoesOn(text, told), text # << >> => mark = "open"
  PROVE  /\ Plays(Some(Delta(text)), Tells(mark, told, over, met),
                  Tells(mark, told + Len(text), over, met))
         /\ Some(Delta(text)) \in Seq(Event)
<1>1. CASE text = << >>
  <2>1. Delta(text).text = << >> /\ Delta(text).tasks = {} /\ Delta(text).type = "delta"
    BY <1>1 DEF Delta
  <2>2. Some(Delta(text)) = << >> /\ told + Len(text) = told
    BY <1>1, <2>1 DEF Some, Hollow
  <2> QED BY <2>2, PlayNothing, TellsIs
<1>2. CASE text # << >>
  <2>1. Some(Delta(text)) = <<Delta(text)>>
    BY <1>2, EventsAre DEF Some, Hollow, GoesOn
  <2> QED BY <1>2, <2>1, PlayDelta
<1> QED BY <1>1, <1>2

LEMMA PlayEnds ==
  ASSUME NEW mark \in {"open", "closed"}, NEW told \in Nat, NEW over \in SUBSET Subagent,
         NEW met \in SUBSET Subagent, NEW ts \in SUBSET Subagent, ts \cap over = {}
  PROVE  /\ Plays(Some(SubagentEnded(ts)), Tells(mark, told, over, met),
                  Tells(mark, told, over \cup ts, met))
         /\ Plays(<<SubagentEnded(ts)>>, Tells(mark, told, over, met),
                  Tells(mark, told, over \cup ts, met))
         /\ Some(SubagentEnded(ts)) \in Seq(Event) /\ <<SubagentEnded(ts)>> \in Seq(Event)
<1> DEFINE x == Tells(mark, told, over, met)
           y == Tells(mark, told, over \cup ts, met)
           event == SubagentEnded(ts)
<1>1. over \cup ts \in SUBSET Subagent
  OBVIOUS
<1>2. x \in Telling /\ x.mark = mark /\ x.told = told /\ x.over = over /\ x.met = met
  BY TellsIs
<1>3. y \in Telling
  BY <1>1, TellsIs
<1>4. event \in Event /\ event.type = "subagent.ended" /\ event.tasks = ts
  BY EventsAre
<1>5. y = Tells(x.mark, x.told, x.over \cup event.tasks, x.met)
  BY <1>2, <1>4
<1>6. MayFollow(event, x, y)
  <2> HIDE DEF x, y, event
  <2> QED BY <1>2, <1>4, <1>5 DEF MayFollow
<1>7. Plays(<<event>>, x, y)
  <2> HIDE DEF x, y, event
  <2> QED BY <1>2, <1>3, <1>4, <1>6, PlayOne
<1>8. <<event>> \in Seq(Event)
  BY <1>4
<1>9. CASE Hollow(event)
  <2>1. ts = {} /\ Some(event) = << >>
    BY <1>4, <1>9 DEF Some, Hollow
  <2>2. y = x /\ << >> \in Seq(Event)
    BY <2>1
  <2> QED BY <1>2, <1>7, <1>8, <2>1, <2>2, PlayNothing
<1>10. CASE ~Hollow(event)
  <2>1. Some(event) = <<event>>
    BY <1>10 DEF Some
  <2> QED BY <1>7, <1>8, <2>1
<1> QED BY <1>9, <1>10

LEMMA PlayBegan ==
  ASSUME NEW mark \in {"open", "closed"}, NEW told \in Nat, NEW over \in SUBSET Subagent,
         NEW met \in SUBSET Subagent, NEW t \in Subagent
  PROVE  /\ Plays(<<Began(t)>>, Tells(mark, told, over, met),
                  Tells(mark, told, over, met \cup {t}))
         /\ <<Began(t)>> \in Seq(Event)
<1> DEFINE x == Tells(mark, told, over, met)
           y == Tells(mark, told, over, met \cup {t})
           event == Began(t)
<1>1. met \cup {t} \in SUBSET Subagent
  OBVIOUS
<1>2. x \in Telling /\ x.mark = mark /\ x.told = told /\ x.over = over /\ x.met = met
  BY TellsIs
<1>3. y \in Telling
  BY <1>1, TellsIs
<1>4. event \in Event /\ event.type = "subagent.started" /\ event.tasks = {t}
  BY EventsAre
<1>5. y = Tells(x.mark, x.told, x.over, x.met \cup event.tasks)
  BY <1>2, <1>4
<1>6. MayFollow(event, x, y)
  <2> HIDE DEF x, y, event
  <2> QED BY <1>4, <1>5 DEF MayFollow
<1>7. Plays(<<event>>, x, y)
  <2> HIDE DEF x, y, event
  <2> QED BY <1>2, <1>3, <1>4, <1>6, PlayOne
<1> QED BY <1>4, <1>7

-----------------------------------------------------------------------------
(* The invariant                                                              *)

StreamTypes ==
  /\ streams \in BOOLEAN /\ lead = [open |-> lead.open, block |-> lead.block]
  /\ lead.open \in BOOLEAN /\ lead.block \in Seq(Nat) /\ said \in Nat
  /\ tasks \in [Subagent -> {"none", "asked", "running", "updated", "notified", "over"}]
  /\ opened \in BOOLEAN /\ partial \in BOOLEAN /\ flushed \in BOOLEAN /\ buffer \in Seq(Nat)
  /\ begun \subseteq Subagent /\ active \subseteq begun
  /\ todo \in Seq(Event) /\ phase \in {"streaming", "returned", "raised", "closed"}

LogHolds ==
  /\ log = [text |-> log.text, bracket |-> log.bracket, started |-> log.started, ended |-> log.ended]
  /\ log.bracket \in {"open", "closed"} /\ GoesOn(log.text, 0)
  /\ log.started \subseteq Subagent /\ log.ended \in [Subagent -> {0, 1}]

(* What the log says now, and what it will say once the events of this       *)
(* message are in it: all but what is held back, and the end of each         *)
(* subagent that is not at work any more.                                    *)
LogSays == Tells(log.bracket, Len(log.text), {t \in Subagent : log.ended[t] = 1}, log.started)
WillSay(met) ==
  Tells(IF opened THEN "open" ELSE "closed", said - Len(buffer), begun \ active, met)

(* What is held back is the end of what was said.                            *)
BufferHolds ==
  /\ Len(buffer) <= said /\ GoesOn(buffer, said - Len(buffer))
  /\ buffer # << >> => opened /\ partial /\ flushed
  /\ lead.block # << >> => partial /\ lead.open
  /\ ~streams => ~opened /\ ~lead.open /\ ~partial

TasksHold ==
  \A t \in Subagent :
    /\ tasks[t] \in {"none", "asked"} => t \notin begun
    /\ tasks[t] \in {"running", "updated"} => t \in begun /\ (t \in active \/ background)

StreamInv ==
  /\ StreamTypes /\ LogHolds
  /\ phase = "streaming" => TasksHold
  /\ phase \in {"streaming", "returned"} =>
       BufferHolds /\ \E met \in SUBSET begun : Plays(todo, LogSays, WillSay(met))
  /\ phase = "returned" => ~opened /\ active = {}
  /\ phase = "closed" => \A t \in log.started : log.ended[t] = 1

LEMMA SaysIs ==
  ASSUME LogHolds
  PROVE  /\ LogSays \in Telling
         /\ LogSays.mark = log.bracket /\ LogSays.told = Len(log.text)
         /\ LogSays.over = {t \in Subagent : log.ended[t] = 1} /\ LogSays.met = log.started
<1>1. log.bracket \in {"open", "closed"} /\ Len(log.text) \in Nat
  BY DEF LogHolds, GoesOn
<1>2. {t \in Subagent : log.ended[t] = 1} \in SUBSET Subagent /\ log.started \in SUBSET Subagent
  BY DEF LogHolds
<1> QED BY <1>1, <1>2, TellsIs DEF LogSays

LEMMA StreamInitInv == StreamInit => StreamInv
<1> SUFFICES ASSUME StreamInit PROVE StreamInv
  OBVIOUS
<1>1. /\ lead = [open |-> FALSE, block |-> << >>] /\ said = 0 /\ streams \in BOOLEAN
      /\ tasks = [t \in Subagent |-> "none"] /\ opened = FALSE /\ partial = FALSE
      /\ buffer = << >> /\ flushed = FALSE /\ active = {} /\ begun = {} /\ todo = << >>
      /\ log = [text |-> << >>, bracket |-> "closed", started |-> {}, ended |-> [t \in Subagent |-> 0]]
      /\ phase = "streaming"
  BY DEF StreamInit
<1>2. lead.open = FALSE /\ lead.block = << >>
  BY <1>1
<1>3. log.text = << >> /\ log.bracket = "closed" /\ log.started = {} /\ log.ended = [t \in Subagent |-> 0]
  BY <1>1
<1>4. << >> \in Seq(Nat) /\ << >> \in Seq(Event) /\ Len(<< >>) = 0 /\ 1 .. 0 = {}
  OBVIOUS
<1>5. \A told : GoesOn(<< >>, told)
  BY <1>4 DEF GoesOn
<1>6. StreamTypes
  BY <1>1, <1>2, <1>4 DEF StreamTypes
<1>7. LogHolds
  BY <1>1, <1>3, <1>5 DEF LogHolds
<1>8. TasksHold
  BY <1>1 DEF TasksHold
<1>9. BufferHolds
  BY <1>1, <1>2, <1>4, <1>5 DEF BufferHolds
<1>10. LogSays = WillSay({})
  <2>1. {t \in Subagent : log.ended[t] = 1} = {} /\ begun \ active = {}
    BY <1>1, <1>3
  <2>2. Len(buffer) = 0 /\ Len(log.text) = 0 /\ 0 - 0 = 0
    BY <1>1, <1>3
  <2>3. said - Len(buffer) = 0
    BY <1>1, <2>2
  <2> QED BY <1>1, <1>3, <2>1, <2>2, <2>3 DEF LogSays, WillSay
<1>11. Plays(todo, LogSays, WillSay({}))
  BY <1>1, <1>7, <1>10, SaysIs, PlayNothing
<1>12. {} \in SUBSET begun
  OBVIOUS
<1> QED BY <1>1, <1>6, <1>7, <1>8, <1>9, <1>11, <1>12 DEF StreamInv

(* The orchestrator appends the next event: the log says what is to come.    *)
LEMMA LogIs ==
  ASSUME NEW text, GoesOn(text, 0), NEW mark \in {"open", "closed"},
         NEW begins \in SUBSET Subagent, NEW ends \in [Subagent -> {0, 1}],
         log' = [text |-> text, bracket |-> mark, started |-> begins, ended |-> ends]
  PROVE  /\ LogHolds'
         /\ LogSays' = Tells(mark, Len(text), {t \in Subagent : ends[t] = 1}, begins)
<1>1. log'.text = text /\ log'.bracket = mark /\ log'.started = begins /\ log'.ended = ends
  OBVIOUS
<1>2. log' = [text |-> log'.text, bracket |-> log'.bracket, started |-> log'.started, ended |-> log'.ended]
  OBVIOUS
<1>3. LogHolds'
  BY <1>1, <1>2 DEF LogHolds, GoesOn
<1> QED BY <1>1, <1>3 DEF LogSays

LEMMA LoggedGoes ==
  ASSUME LogHolds, NEW event \in Event, NEW y, MayFollow(event, LogSays, y), log' = Logged(event)
  PROVE  LogHolds' /\ LogSays' = y
<1> DEFINE over == {t \in Subagent : log.ended[t] = 1}
<1>1. /\ log = [text |-> log.text, bracket |-> log.bracket, started |-> log.started, ended |-> log.ended]
      /\ log.bracket \in {"open", "closed"} /\ GoesOn(log.text, 0) /\ log.text \in Seq(Nat)
      /\ log.started \in SUBSET Subagent /\ log.ended \in [Subagent -> {0, 1}]
      /\ event.tasks \in SUBSET Subagent /\ event.text \in Seq(Nat)
  BY DEF LogHolds, GoesOn, Event
<1>2. LogSays.mark = log.bracket /\ LogSays.told = Len(log.text) /\ LogSays.over = over
      /\ LogSays.met = log.started
  BY SaysIs
<1> HIDE DEF over
<1>3. CASE event.type = "start"
  <2>1. log.bracket = "closed" /\ y = Tells("open", Len(log.text), over, log.started)
    BY <1>2, <1>3 DEF MayFollow
  <2>2. log' = [text |-> log.text, bracket |-> "open", started |-> log.started, ended |-> log.ended]
    BY <1>1, <1>3, <2>1 DEF Logged
  <2> QED BY <1>1, <2>1, <2>2, LogIs DEF over
<1>4. CASE event.type = "completed"
  <2>1. log.bracket = "open" /\ y = Tells("closed", Len(log.text), over, log.started)
    BY <1>2, <1>4 DEF MayFollow
  <2>2. log' = [text |-> log.text, bracket |-> "closed", started |-> log.started, ended |-> log.ended]
    BY <1>1, <1>4, <2>1 DEF Logged
  <2> QED BY <1>1, <2>1, <2>2, LogIs DEF over
<1>5. CASE event.type = "delta"
  <2> DEFINE text == log.text \o event.text
  <2>1. /\ log.bracket = "open"
        /\ \A i \in 1 .. Len(event.text) : event.text[i] = Len(log.text) + i
        /\ y = Tells("open", Len(log.text) + Len(event.text), over, log.started)
    BY <1>2, <1>5 DEF MayFollow
  <2>2. log' = [text |-> text, bracket |-> "open", started |-> log.started, ended |-> log.ended]
    BY <1>1, <1>5, <2>1 DEF Logged
  <2>3. /\ text \in Seq(Nat) /\ Len(text) = Len(log.text) + Len(event.text)
        /\ Len(log.text) \in Nat /\ Len(event.text) \in Nat
        /\ \A i \in 1 .. Len(log.text) : text[i] = log.text[i]
        /\ \A i \in Len(log.text) + 1 .. Len(text) : text[i] = event.text[i - Len(log.text)]
    BY <1>1
  <2> HIDE DEF text
  <2>4. ASSUME NEW i \in 1 .. Len(text) PROVE text[i] = 0 + i
    <3>1. CASE i <= Len(log.text)
      <4>1. i \in 1 .. Len(log.text)
        BY <2>3, <3>1
      <4> QED BY <1>1, <2>3, <4>1 DEF GoesOn
    <3>2. CASE ~(i <= Len(log.text))
      <4>1. i \in Len(log.text) + 1 .. Len(text) /\ i - Len(log.text) \in 1 .. Len(event.text)
        <5>1. \A a, b \in Nat : \A j \in 1 .. a + b :
                ~(j <= a) => j \in a + 1 .. a + b /\ j - a \in 1 .. b
          OBVIOUS
        <5> QED BY <2>3, <3>2, <5>1
      <4>2. text[i] = Len(log.text) + (i - Len(log.text))
        BY <2>1, <2>3, <4>1
      <4> QED BY <2>3, <4>2
    <3> QED BY <3>1, <3>2
  <2>5. GoesOn(text, 0)
    BY <2>3, <2>4 DEF GoesOn
  <2> QED BY <1>1, <2>1, <2>2, <2>3, <2>5, LogIs DEF over
<1>6. CASE event.type = "subagent.started"
  <2>1. y = Tells(log.bracket, Len(log.text), over, log.started \cup event.tasks)
    BY <1>2, <1>6 DEF MayFollow
  <2>2. log' = [text |-> log.text, bracket |-> log.bracket, started |-> log.started \cup event.tasks,
                ended |-> log.ended]
    BY <1>1, <1>6 DEF Logged
  <2>3. log.started \cup event.tasks \in SUBSET Subagent
    BY <1>1
  <2> QED BY <1>1, <2>1, <2>2, <2>3, LogIs DEF over
<1>7. CASE event.type = "subagent.ended"
  <2> DEFINE ends == [t \in Subagent |-> log.ended[t] + IF t \in event.tasks THEN 1 ELSE 0]
  <2>1. /\ event.tasks \cap over = {}
        /\ y = Tells(log.bracket, Len(log.text), over \cup event.tasks, log.started)
    BY <1>2, <1>7 DEF MayFollow
  <2>2. log' = [text |-> log.text, bracket |-> log.bracket, started |-> log.started, ended |-> ends]
    BY <1>1, <1>7 DEF Logged
  <2>3. ASSUME NEW t \in Subagent
        PROVE  ends[t] \in {0, 1} /\ (ends[t] = 1 <=> (t \in over \/ t \in event.tasks))
    <3>1. log.ended[t] \in {0, 1} /\ (t \in over <=> log.ended[t] = 1)
      BY <1>1 DEF over
    <3>2. t \in event.tasks => log.ended[t] = 0
      BY <2>1, <3>1
    <3> QED BY <3>1, <3>2
  <2>4. ends \in [Subagent -> {0, 1}]
    BY <2>3
  <2>5. {t \in Subagent : ends[t] = 1} = over \cup event.tasks
    BY <1>1, <2>3 DEF over
  <2> HIDE DEF ends
  <2> QED BY <1>1, <2>1, <2>2, <2>4, <2>5, LogIs
<1> QED BY <1>3, <1>4, <1>5, <1>6, <1>7 DEF Event

-----------------------------------------------------------------------------
(* The messages of the SDK                                                    *)

(* A subagent that is heard in its turn                                       *)
LEMMA HeardInTurn ==
  ASSUME NEW stray, Hears(stray), ~astray'
  PROVE  Receives /\ ~stray
BY DEF Hears, Receives

(* The events of the last message are in the log.                            *)
Attends(met) ==
  /\ phase = "streaming"
  /\ StreamTypes /\ LogHolds /\ TasksHold /\ BufferHolds
  /\ met \in SUBSET begun /\ LogSays = WillSay(met)

Mark == IF opened THEN "open" ELSE "closed"

LEMMA ReadyTo ==
  ASSUME StreamInv, Receives
  PROVE  \E met \in SUBSET begun : Attends(met)
<1>1. phase = "streaming" /\ todo = << >>
  BY DEF Receives, Hears
<1>2. PICK met \in SUBSET begun : Plays(todo, LogSays, WillSay(met))
  BY <1>1 DEF StreamInv
<1>3. LogSays = WillSay(met)
  BY <1>1, <1>2, PlayNothingIs
<1>4. Attends(met)
  BY <1>1, <1>3 DEF StreamInv, Attends
<1> QED BY <1>4

(* The message raised, or its events continue what was told.                 *)
LEMMA Received ==
  ASSUME NEW met, Attends(met), Receives, StreamTypes', phase' \in {"streaming", "raised", "returned"},
         phase' # "raised" =>
           /\ phase' = "streaming" => TasksHold'
           /\ phase' = "returned" => ~opened' /\ active' = {}
           /\ BufferHolds'
           /\ \E then \in SUBSET begun' : Plays(todo', WillSay(met), WillSay(then)')
  PROVE  StreamInv'
<1>1. log' = log
  BY DEF Receives, Hears
<1>2. LogHolds' /\ LogSays' = LogSays
  BY <1>1 DEF Attends, LogHolds, LogSays
<1>3. LogSays = WillSay(met)
  BY DEF Attends
<1>4. phase' # "raised" => \E then \in SUBSET begun' : Plays(todo', LogSays', WillSay(then)')
  BY <1>2, <1>3
<1> QED BY <1>2, <1>4 DEF StreamInv

LEMMA ReadyIs ==
  ASSUME NEW met, Attends(met)
  PROVE  /\ said \in Nat /\ said - Len(buffer) \in Nat /\ said - Len(buffer) + Len(buffer) = said
         /\ buffer \in Seq(Nat) /\ GoesOn(buffer, said - Len(buffer))
         /\ buffer # << >> => opened /\ partial /\ flushed
         /\ Mark \in {"open", "closed"} /\ begun \ active \in SUBSET Subagent
         /\ met \in SUBSET Subagent /\ opened \in BOOLEAN
         /\ WillSay(met) = Tells(Mark, said - Len(buffer), begun \ active, met)
         /\ WillSay(met) \in Telling
<1>1. /\ said \in Nat /\ buffer \in Seq(Nat) /\ Len(buffer) \in Nat /\ Len(buffer) <= said
      /\ GoesOn(buffer, said - Len(buffer)) /\ opened \in BOOLEAN
      /\ buffer # << >> => opened /\ partial /\ flushed
      /\ begun \subseteq Subagent /\ met \subseteq begun
  BY DEF Attends, StreamTypes, BufferHolds
<1>2. said - Len(buffer) \in Nat /\ said - Len(buffer) + Len(buffer) = said
  BY <1>1
<1>3. Mark \in {"open", "closed"} /\ begun \ active \in SUBSET Subagent /\ met \in SUBSET Subagent
  BY <1>1 DEF Mark
<1>4. WillSay(met) = Tells(Mark, said - Len(buffer), begun \ active, met)
  BY DEF WillSay, Mark
<1>5. WillSay(met) \in Telling
  BY <1>2, <1>3, <1>4, TellsIs
<1> QED BY <1>1, <1>2, <1>3, <1>4, <1>5

(* What is held back is shown.                                               *)
LEMMA PlayFlush ==
  ASSUME NEW met, Attends(met), NEW over \in SUBSET Subagent
  PROVE  /\ Flush \in Seq(Event)
         /\ Plays(Flush, Tells(Mark, said - Len(buffer), over, met), Tells(Mark, said, over, met))
<1> DEFINE told == said - Len(buffer)
<1>1. /\ told \in Nat /\ told + Len(buffer) = said /\ GoesOn(buffer, told) /\ met \in SUBSET Subagent
      /\ Mark \in {"open", "closed"} /\ (buffer # << >> => Mark = "open")
  BY ReadyIs DEF Mark
<1> HIDE DEF told
<1>2. /\ Plays(Some(Delta(buffer)), Tells(Mark, told, over, met), Tells(Mark, told + Len(buffer), over, met))
      /\ Some(Delta(buffer)) \in Seq(Event)
  BY <1>1, PlaySome
<1>3. Plays(Flush, Tells(Mark, told, over, met), Tells(Mark, said, over, met))
  BY <1>1, <1>2 DEF Flush
<1> QED BY <1>2, <1>3 DEF told, Flush

(* The message that is open is closed.                                       *)
ClosesMessage == IF opened THEN Flush \o <<Completed>> ELSE << >>

LEMMA PlayClose ==
  ASSUME NEW met, Attends(met), NEW over \in SUBSET Subagent
  PROVE  /\ ClosesMessage \in Seq(Event)
         /\ Plays(ClosesMessage, Tells(Mark, said - Len(buffer), over, met), Tells("closed", said, over, met))
<1>1. said \in Nat /\ met \in SUBSET Subagent /\ opened \in BOOLEAN /\ said - Len(buffer) \in Nat
  BY ReadyIs
<1>2. CASE opened
  <2>1. Mark = "open" /\ ClosesMessage = Flush \o <<Completed>>
    BY <1>2 DEF Mark, ClosesMessage
  <2>2. /\ Flush \in Seq(Event)
        /\ Plays(Flush, Tells("open", said - Len(buffer), over, met), Tells("open", said, over, met))
    BY <2>1, PlayFlush
  <2>3. /\ Plays(<<Completed>>, Tells("open", said, over, met), Tells("closed", said, over, met))
        /\ <<Completed>> \in Seq(Event)
    BY <1>1, PlayMessages
  <2>4. Plays(Flush \o <<Completed>>, Tells("open", said - Len(buffer), over, met),
              Tells("closed", said, over, met))
    BY <2>2, <2>3, PlayBoth
  <2> QED BY <2>1, <2>2, <2>3, <2>4
<1>3. CASE ~opened
  <2>1. Mark = "closed" /\ ClosesMessage = << >>
    BY <1>3 DEF Mark, ClosesMessage
  <2>2. said - Len(buffer) = said
    <3>1. buffer = << >> /\ said \in Nat
      BY <1>3, ReadyIs
    <3> QED BY <3>1
  <2>3. Tells("closed", said, over, met) \in Telling
    BY <1>1, TellsIs
  <2> QED BY <2>1, <2>2, <2>3, PlayNothing
<1> QED BY <1>1, <1>2, <1>3

(* A whole message whose text was streamed or that has none                  *)
LEMMA WholeMessage ==
  ASSUME NEW met, Attends(met), NEW text, AssistantText(text, << >>), text # << >> => partial
  PROVE  /\ buffer' = << >> /\ opened' = opened /\ flushed' = flushed /\ partial' = FALSE
         /\ todo' \in Seq(Event)
         /\ Plays(todo', WillSay(met), Tells(Mark, said, begun \ active, met))
<1>1. opened' = opened /\ flushed' = flushed /\ partial' = FALSE
  BY DEF AssistantText
<1>2. /\ said \in Nat /\ met \in SUBSET Subagent /\ begun \ active \in SUBSET Subagent
      /\ Mark \in {"open", "closed"} /\ partial \in BOOLEAN
      /\ WillSay(met) = Tells(Mark, said - Len(buffer), begun \ active, met)
      /\ buffer # << >> => partial
  BY ReadyIs DEF Attends, StreamTypes
<1>3. CASE partial
  <2>1. todo' = Flush \o << >> /\ buffer' = << >>
    BY <1>3 DEF AssistantText
  <2>2. /\ Flush \in Seq(Event)
        /\ Plays(Flush, Tells(Mark, said - Len(buffer), begun \ active, met),
                 Tells(Mark, said, begun \ active, met))
    BY <1>2, PlayFlush
  <2>3. Flush \o << >> = Flush
    BY <2>2
  <2> QED BY <1>1, <1>2, <2>1, <2>2, <2>3
<1>4. CASE ~partial
  <2>1. text = << >> /\ todo' = Message(text) \o << >> /\ buffer' = buffer /\ buffer = << >>
    BY <1>2, <1>4 DEF AssistantText
  <2>2. Message(text) = << >>
    BY <2>1 DEF Message
  <2>3. todo' = << >> /\ << >> \in Seq(Event)
    BY <2>1, <2>2
  <2>4. said - Len(buffer) = said
    BY <1>2, <2>1
  <2>5. Tells(Mark, said, begun \ active, met) \in Telling
    BY <1>2, TellsIs
  <2> QED BY <1>1, <1>2, <2>1, <2>3, <2>4, <2>5, PlayNothing
<1> QED BY <1>2, <1>3, <1>4

(* The tasks are the ones they were.                                         *)
SameTasks == UNCHANGED <<tasks, active, begun, background>>
LEMMA TasksStay == ASSUME TasksHold, SameTasks PROVE TasksHold'
BY DEF TasksHold, SameTasks

(* Facts about the state a message finds                                     *)
LEMMA MessageFound ==
  ASSUME NEW met, Attends(met), Receives
  PROVE  /\ streams' = streams /\ background' = background /\ phase = "streaming" /\ streams \in BOOLEAN
         /\ lead.open \in BOOLEAN /\ lead.block \in Seq(Nat) /\ lead = [open |-> lead.open, block |-> lead.block]
         /\ tasks \in [Subagent -> {"none", "asked", "running", "updated", "notified", "over"}]
         /\ partial \in BOOLEAN /\ flushed \in BOOLEAN
         /\ begun \subseteq Subagent /\ active \subseteq begun /\ met \in SUBSET begun
         /\ lead.block # << >> => partial /\ lead.open
         /\ ~streams => ~opened /\ ~lead.open /\ ~partial
         /\ TasksHold
BY DEF Attends, Receives, Hears, StreamTypes, BufferHolds

(* Nothing is held back any more.                                            *)
LEMMA NothingHeld ==
  ASSUME NEW met, Attends(met), Receives, buffer' = << >>, said' \in Nat,
         lead'.block # << >> => partial' /\ lead'.open,
         ~streams => ~opened' /\ ~lead'.open /\ ~partial'
  PROVE  /\ BufferHolds' /\ buffer' \in Seq(Nat) /\ said' - Len(buffer') = said'
<1>1. streams' = streams
  BY DEF Receives, Hears
<1>2. Len(buffer') = 0 /\ 1 .. 0 = {} /\ buffer' \in Seq(Nat)
  OBVIOUS
<1>3. said' - Len(buffer') = said' /\ Len(buffer') <= said'
  <2>1. \A n, k \in Nat : k = 0 => n - k = n /\ k <= n
    OBVIOUS
  <2>2. Len(buffer') \in Nat
    BY <1>2
  <2> QED BY <1>2, <2>1, <2>2
<1>4. GoesOn(buffer', said' - Len(buffer'))
  BY <1>2 DEF GoesOn
<1> QED BY <1>1, <1>2, <1>3, <1>4 DEF BufferHolds

LEMMA MessageStartInv ==
  ASSUME NEW met, Attends(met), MessageStart
  PROVE  StreamInv'
<1>1. /\ Receives /\ streams /\ ~lead.open
      /\ lead' = [open |-> TRUE, block |-> << >>]
      /\ todo' = (IF opened THEN << >> ELSE <<OpenMessage>>)
      /\ opened' = TRUE /\ flushed' = (flushed /\ opened)
      /\ said' = said /\ buffer' = buffer /\ partial' = partial
      /\ tasks' = tasks /\ active' = active /\ begun' = begun /\ phase' = phase
  BY DEF MessageStart, governorVars
<1>2. lead'.open = TRUE /\ lead'.block = << >> /\ << >> \in Seq(Nat)
  BY <1>1
<1>3. Plays(todo', WillSay(met), WillSay(met)') /\ todo' \in Seq(Event)
  <2>1. /\ WillSay(met) = Tells(Mark, said - Len(buffer), begun \ active, met)
        /\ said - Len(buffer) \in Nat /\ begun \ active \in SUBSET Subagent /\ met \in SUBSET Subagent
        /\ opened \in BOOLEAN /\ WillSay(met) \in Telling
    BY ReadyIs
  <2>2. WillSay(met)' = Tells("open", said - Len(buffer), begun \ active, met)
    BY <1>1 DEF WillSay
  <2>3. CASE opened
    <3>1. todo' = << >> /\ WillSay(met)' = WillSay(met) /\ << >> \in Seq(Event)
      BY <1>1, <2>1, <2>2, <2>3 DEF Mark
    <3> QED BY <2>1, <3>1, PlayNothing
  <2>4. CASE ~opened
    <3>1. todo' = <<OpenMessage>> /\ Mark = "closed"
      BY <1>1, <2>4 DEF Mark
    <3> QED BY <2>1, <2>2, <3>1, PlayMessages
  <2> QED BY <2>1, <2>3, <2>4
<1>4. BufferHolds'
  <2>1. /\ Len(buffer) <= said /\ GoesOn(buffer, said - Len(buffer))
        /\ buffer # << >> => opened /\ partial /\ flushed
    BY DEF Attends, BufferHolds
  <2> QED BY <1>1, <1>2, <2>1, MessageFound DEF BufferHolds
<1>5. StreamTypes'
  <2>1. (flushed /\ opened) \in BOOLEAN /\ said \in Nat /\ buffer \in Seq(Nat)
    BY DEF Attends, StreamTypes
  <2> QED BY <1>1, <1>2, <1>3, <2>1, MessageFound DEF StreamTypes
<1>6. TasksHold'
  BY <1>1, MessageFound, TasksStay DEF SameTasks
<1> QED BY <1>1, <1>3, <1>4, <1>5, <1>6, MessageFound, Received

LEMMA TextDeltaInv ==
  ASSUME NEW met, Attends(met), TextDelta
  PROVE  StreamInv'
<1> DEFINE n == said + 1
           early == ~(opened /\ flushed)
           text == Append(buffer, n)
           open == IF opened THEN << >> ELSE <<OpenMessage>>
           told == said - Len(buffer)
           over == begun \ active
<1>1. /\ Receives /\ lead.open /\ said' = n
      /\ lead' = [lead EXCEPT !.block = Append(@, n)]
      /\ opened' = TRUE /\ partial' = TRUE /\ flushed' = TRUE
      /\ \/ early /\ todo' = open \o <<Delta(<<n>>)>> /\ buffer' = buffer
         \/ ~early /\ todo' = <<Delta(text)>> /\ buffer' = << >>
         \/ ~early /\ todo' = << >> /\ buffer' = text
      /\ tasks' = tasks /\ active' = active /\ begun' = begun /\ phase' = phase
  BY DEF TextDelta, governorVars
<1>2. /\ said \in Nat /\ n \in Nat /\ buffer \in Seq(Nat) /\ told \in Nat /\ over \in SUBSET Subagent
      /\ met \in SUBSET Subagent /\ GoesOn(buffer, told) /\ told + Len(buffer) = said
      /\ buffer # << >> => opened /\ partial /\ flushed
      /\ WillSay(met) = Tells(Mark, told, over, met) /\ opened \in BOOLEAN /\ WillSay(met) \in Telling
  <2>1. said \in Nat => n \in Nat
    OBVIOUS
  <2> QED BY <2>1, ReadyIs
<1>3. lead'.open = TRUE /\ lead'.block \in Seq(Nat) /\ lead' = [open |-> lead'.open, block |-> lead'.block]
  <2>1. lead' = [open |-> TRUE, block |-> Append(lead.block, n)]
    BY <1>1, MessageFound
  <2>2. Append(lead.block, n) \in Seq(Nat)
    <3>1. lead.block \in Seq(Nat)
      BY <1>1, MessageFound
    <3> HIDE DEF n
    <3> QED BY <1>2, <3>1
  <2> QED BY <2>1, <2>2
<1>4. text \in Seq(Nat) /\ Len(text) = Len(buffer) + 1 /\ Len(buffer) \in Nat
  BY <1>2
<1>5. GoesOn(text, told)
  <2>1. ASSUME NEW i \in 1 .. Len(text) PROVE text[i] = told + i
    <3>1. CASE i = Len(buffer) + 1
      BY <1>2, <3>1
    <3>2. CASE i # Len(buffer) + 1
      <4>1. i \in 1 .. Len(buffer)
        BY <1>4, <3>2
      <4>2. text[i] = buffer[i]
        BY <1>2, <4>1
      <4> QED BY <1>2, <4>1, <4>2 DEF GoesOn
    <3> QED BY <3>1, <3>2
  <2> HIDE DEF text
  <2> QED BY <1>4, <2>1 DEF GoesOn
<1>6. GoesOn(<<n>>, said) /\ Len(<<n>>) = 1 /\ GoesOn(<< >>, n) /\ Len(<< >>) = 0
  <2>1. <<n>> \in Seq(Nat) /\ Len(<<n>>) = 1 /\ <<n>>[1] = said + 1 /\ 1 .. 1 = {1}
    BY <1>2
  <2>2. << >> \in Seq(Nat) /\ Len(<< >>) = 0 /\ 1 .. 0 = {}
    OBVIOUS
  <2> QED BY <2>1, <2>2 DEF GoesOn
<1> HIDE DEF text
<1>7. ASSUME early /\ todo' = open \o <<Delta(<<n>>)>> /\ buffer' = buffer
      PROVE  /\ Plays(todo', WillSay(met), WillSay(met)') /\ todo' \in Seq(Event)
              /\ Len(buffer') <= said' /\ GoesOn(buffer', said' - Len(buffer')) /\ buffer' \in Seq(Nat)
  <2>1. buffer = << >> /\ told = said
    BY <1>2, <1>7
  <2>2. WillSay(met)' = Tells("open", said + 1, over, met)
    <3>1. said' - Len(buffer') = said + 1
      <4>1. Len(buffer) = 0
        BY <2>1
      <4> QED BY <1>1, <1>2, <1>7, <4>1
    <3> QED BY <1>1, <3>1 DEF WillSay
  <2>3. /\ Plays(open, Tells(Mark, said, over, met), Tells("open", said, over, met))
        /\ open \in Seq(Event)
    <3>1. CASE opened
      <4>1. open = << >> /\ << >> \in Seq(Event) /\ Mark = "open"
        BY <3>1 DEF Mark
      <4>2. Tells("open", said, over, met) \in Telling
        BY <1>2, TellsIs
      <4> QED BY <4>1, <4>2, PlayNothing
    <3>2. CASE ~opened
      <4>1. open = <<OpenMessage>> /\ Mark = "closed"
        BY <3>2 DEF Mark
      <4> HIDE DEF open, over, told
      <4> QED BY <1>2, <4>1, PlayMessages
    <3> QED BY <1>2, <3>1, <3>2
  <2>4. /\ Plays(<<Delta(<<n>>)>>, Tells("open", said, over, met), Tells("open", said + 1, over, met))
        /\ <<Delta(<<n>>)>> \in Seq(Event)
    <3> HIDE DEF n, over
    <3> QED BY <1>2, <1>6, PlayDelta
  <2>5. Plays(todo', WillSay(met), WillSay(met)') /\ todo' \in Seq(Event)
    <3> DEFINE delta == <<Delta(<<n>>)>>
    <3> HIDE DEF n, over, open, told, delta
    <3>1. /\ Plays(open, Tells(Mark, told, over, met), Tells("open", said, over, met))
          /\ Plays(delta, Tells("open", said, over, met), Tells("open", said + 1, over, met))
          /\ open \in Seq(Event) /\ delta \in Seq(Event)
      BY <2>1, <2>3, <2>4 DEF delta
    <3>2. Plays(open \o delta, Tells(Mark, told, over, met), Tells("open", said + 1, over, met))
      BY <3>1, PlayBoth
    <3>3. todo' = open \o delta /\ open \o delta \in Seq(Event)
      BY <1>7, <3>1 DEF delta
    <3> QED BY <1>2, <2>2, <3>2, <3>3
  <2>6. Len(buffer') <= said' /\ GoesOn(buffer', said' - Len(buffer')) /\ buffer' \in Seq(Nat)
    <3>1. buffer' = << >> /\ Len(buffer') = 0 /\ said' = n /\ n - 0 = n /\ << >> \in Seq(Nat)
      BY <1>1, <1>2, <1>7, <2>1
    <3> HIDE DEF n
    <3> QED BY <1>2, <1>6, <3>1
  <2> QED BY <2>5, <2>6
<1>8. ASSUME ~early /\ todo' = <<Delta(text)>> /\ buffer' = << >>
      PROVE  /\ Plays(todo', WillSay(met), WillSay(met)') /\ todo' \in Seq(Event)
              /\ Len(buffer') <= said' /\ GoesOn(buffer', said' - Len(buffer')) /\ buffer' \in Seq(Nat)
  <2>1. Mark = "open" /\ said' - Len(buffer') = told + Len(text)
    <3>1. Len(buffer') = 0 /\ told + Len(text) = said + 1
      BY <1>2, <1>4, <1>8
    <3> QED BY <1>1, <1>2, <1>8, <3>1 DEF Mark
  <2>2. WillSay(met)' = Tells("open", told + Len(text), over, met)
    BY <1>1, <2>1 DEF WillSay
  <2>3. Plays(todo', WillSay(met), WillSay(met)') /\ todo' \in Seq(Event)
    <3> HIDE DEF n, over, open, told
    <3> QED BY <1>2, <1>4, <1>5, <1>8, <2>1, <2>2, PlayDelta
  <2>4. Len(buffer') <= said' /\ GoesOn(buffer', said' - Len(buffer')) /\ buffer' \in Seq(Nat)
    <3>1. buffer' = << >> /\ Len(buffer') = 0 /\ said' = n /\ n - 0 = n /\ << >> \in Seq(Nat)
      BY <1>1, <1>2, <1>8
    <3> HIDE DEF n
    <3> QED BY <1>2, <1>6, <3>1
  <2> QED BY <2>3, <2>4
<1>9. ASSUME ~early /\ todo' = << >> /\ buffer' = text
      PROVE  /\ Plays(todo', WillSay(met), WillSay(met)') /\ todo' \in Seq(Event)
              /\ Len(buffer') <= said' /\ GoesOn(buffer', said' - Len(buffer')) /\ buffer' \in Seq(Nat)
  <2>1. Mark = "open" /\ said' - Len(buffer') = told /\ Len(buffer') <= said'
    <3>1. Len(buffer') = Len(buffer) + 1 /\ told + Len(buffer) = said /\ said' = said + 1
      BY <1>1, <1>2, <1>4, <1>9
    <3> HIDE DEF told
    <3> QED BY <1>2, <1>4, <1>9, <3>1 DEF Mark
  <2>2. WillSay(met)' = WillSay(met)
    BY <1>1, <1>2, <2>1 DEF WillSay
  <2>3. Plays(todo', WillSay(met), WillSay(met)') /\ todo' \in Seq(Event)
    BY <1>2, <1>9, <2>2, PlayNothing
  <2>4. Len(buffer') <= said' /\ GoesOn(buffer', said' - Len(buffer')) /\ buffer' \in Seq(Nat)
    BY <1>4, <1>5, <1>9, <2>1
  <2> QED BY <2>3, <2>4
<1>10. /\ Plays(todo', WillSay(met), WillSay(met)') /\ todo' \in Seq(Event)
       /\ Len(buffer') <= said' /\ GoesOn(buffer', said' - Len(buffer')) /\ buffer' \in Seq(Nat)
  <2> HIDE DEF open, early, n, told, over
  <2> QED BY <1>1, <1>7, <1>8, <1>9
<1>11. BufferHolds'
  <2>1. streams' = streams /\ (~streams => ~lead.open)
    BY <1>1, MessageFound
  <2>2. lead.open /\ opened' = TRUE /\ partial' = TRUE /\ flushed' = TRUE
    BY <1>1
  <2> HIDE DEF n, early, open, told, over
  <2> QED BY <1>3, <1>10, <2>1, <2>2 DEF BufferHolds
<1>12. StreamTypes'
  <2> HIDE DEF n
  <2> QED BY <1>1, <1>2, <1>3, <1>10, MessageFound DEF StreamTypes
<1>13. TasksHold'
  BY <1>1, MessageFound, TasksStay DEF SameTasks
<1>14. phase' = "streaming" /\ met \in SUBSET begun'
  BY <1>1, MessageFound
<1>15. Receives
  BY <1>1
<1> HIDE DEF n, early, open, told, over
<1> QED BY <1>10, <1>11, <1>12, <1>13, <1>14, <1>15, Received

LEMMA MessageStopInv ==
  ASSUME NEW met, Attends(met), MessageStop
  PROVE  StreamInv'
<1>1. /\ Receives /\ lead.open /\ lead.block = << >>
      /\ lead' = [lead EXCEPT !.open = FALSE]
      /\ todo' = ClosesMessage /\ opened' = FALSE /\ buffer' = (IF opened THEN << >> ELSE buffer)
      /\ said' = said /\ partial' = partial /\ flushed' = flushed
      /\ tasks' = tasks /\ active' = active /\ begun' = begun /\ phase' = phase
  BY DEF MessageStop, governorVars, ClosesMessage
<1>2. lead' = [open |-> FALSE, block |-> << >>] /\ lead'.open = FALSE /\ lead'.block = << >>
      /\ << >> \in Seq(Nat) /\ Len(<< >>) = 0
  BY <1>1, MessageFound
<1>3. /\ said \in Nat /\ buffer' = << >> /\ opened \in BOOLEAN /\ begun \ active \in SUBSET Subagent
      /\ WillSay(met) = Tells(Mark, said - Len(buffer), begun \ active, met)
  BY <1>1, ReadyIs
<1>4. BufferHolds' /\ buffer' \in Seq(Nat) /\ said' - Len(buffer') = said
  <2>1. ~streams => ~lead.open /\ ~partial
    BY <1>1, MessageFound
  <2> QED BY <1>1, <1>2, <1>3, <2>1, NothingHeld
<1>5. WillSay(met)' = Tells("closed", said, begun \ active, met)
  BY <1>1, <1>4 DEF WillSay
<1>6. Plays(todo', WillSay(met), WillSay(met)') /\ todo' \in Seq(Event)
  BY <1>1, <1>3, <1>5, PlayClose
<1>8. StreamTypes'
  BY <1>1, <1>2, <1>3, <1>4, <1>6, MessageFound DEF StreamTypes
<1>9. TasksHold'
  BY <1>1, MessageFound, TasksStay DEF SameTasks
<1>10. phase' = "streaming" /\ met \in SUBSET begun'
  BY <1>1, MessageFound
<1> QED BY <1>1, <1>4, <1>6, <1>8, <1>9, <1>10, Received

(* A whole message with its text                                              *)
LEMMA PlayThree ==
  ASSUME NEW a \in Event, NEW b \in Event, NEW c \in Event,
         NEW x \in Telling, NEW y \in Telling, NEW z \in Telling, NEW w \in Telling,
         MayFollow(a, x, y), MayFollow(b, y, z), MayFollow(c, z, w)
  PROVE  Plays(<<a, b, c>> \o << >>, x, w) /\ <<a, b, c>> \o << >> \in Seq(Event)
<1> DEFINE path == [i \in 1 .. 4 |-> IF i = 1 THEN x ELSE IF i = 2 THEN y ELSE IF i = 3 THEN z ELSE w]
           batch == <<a, b, c>>
<1>1. batch \o << >> = batch /\ batch \in Seq(Event)
  OBVIOUS
<1>2. Len(batch) = 3 /\ batch[1] = a /\ batch[2] = b /\ batch[3] = c
  OBVIOUS
<1>3. path \in [1 .. 4 -> Telling]
  OBVIOUS
<1>4. path[1] = x /\ path[2] = y /\ path[3] = z /\ path[4] = w
  OBVIOUS
<1> HIDE DEF path, batch
<1>5. 3 + 1 = 4 /\ 2 + 1 = 3 /\ 1 + 1 = 2 /\ 1 .. 3 = {1, 2, 3}
  OBVIOUS
<1>6. \A i \in 1 .. 3 : MayFollow(batch[i], path[i], path[i + 1])
  BY <1>2, <1>4, <1>5
<1>7. Walks(path, batch, x, w)
  BY <1>2, <1>3, <1>4, <1>5, <1>6 DEF Walks
<1>8. Plays(batch, x, w)
  BY <1>7 DEF Plays
<1> QED BY <1>1, <1>8 DEF batch

LEMMA LeadTextInv ==
  ASSUME NEW met, Attends(met), LeadText
  PROVE  StreamInv'
<1>1. /\ Receives /\ lead' = [lead EXCEPT !.block = << >>]
      /\ tasks' = tasks /\ active' = active /\ begun' = begun /\ phase' = phase
  BY DEF LeadText, governorVars
<1>2. lead' = [open |-> lead.open, block |-> << >>] /\ lead'.open = lead.open /\ lead'.block = << >>
      /\ << >> \in Seq(Nat)
  <2>1. lead = [open |-> lead.open, block |-> lead.block]
    BY <1>1, MessageFound
  <2>2. lead' = [open |-> lead.open, block |-> << >>]
    BY <1>1, <2>1
  <2> QED BY <2>2
<1>3. /\ said \in Nat /\ said + 1 \in Nat /\ opened \in BOOLEAN /\ begun \ active \in SUBSET Subagent
      /\ WillSay(met) = Tells(Mark, said - Len(buffer), begun \ active, met)
      /\ WillSay(met) \in Telling /\ met \in SUBSET Subagent
      /\ buffer # << >> => partial
  <2>1. said \in Nat => said + 1 \in Nat
    OBVIOUS
  <2> QED BY <2>1, ReadyIs
<1>4. ~streams => ~opened /\ ~lead.open /\ ~partial
  BY <1>1, MessageFound
<1>5. /\ buffer' = << >> /\ said' \in Nat /\ partial' = FALSE /\ opened' = opened /\ flushed' = flushed
      /\ Plays(todo', WillSay(met), Tells(Mark, said', begun \ active, met)) /\ todo' \in Seq(Event)
  <2>1. CASE lead.block # << >> /\ said' = said /\ AssistantText(lead.block, << >>)
    <3>1. partial
      BY <1>1, <2>1, MessageFound
    <3> QED BY <1>3, <2>1, <3>1, WholeMessage
  <2>2. CASE ~streams /\ said' = said + 1 /\ AssistantText(<<said + 1>>, << >>)
    <3> DEFINE text == <<said + 1>>
               over == begun \ active
    <3>1. ~partial /\ ~opened /\ buffer = << >>
      BY <1>3, <1>4, <2>2
    <3>2. /\ todo' = Message(text) \o << >> /\ buffer' = buffer /\ partial' = FALSE /\ opened' = opened
          /\ flushed' = flushed
      BY <2>2, <3>1 DEF AssistantText
    <3>3. text \in Seq(Nat) /\ Len(text) = 1 /\ text[1] = said + 1 /\ text # << >>
      BY <1>3
    <3>4. GoesOn(text, said)
      <4>1. 1 .. 1 = {1}
        OBVIOUS
      <4> HIDE DEF text
      <4> QED BY <3>3, <4>1 DEF GoesOn
    <3> HIDE DEF text, over
    <3>5. Message(text) = <<OpenMessage, Delta(text), Completed>>
      BY <3>3 DEF Message
    <3>6. OpenMessage \in Event /\ Delta(text) \in Event /\ Completed \in Event
      BY <3>3, EventsAre
    <3>7. over \in SUBSET Subagent
      BY <1>3 DEF over
    <3> DEFINE x == Tells("closed", said, over, met)
               y == Tells("open", said, over, met)
               z == Tells("open", said + 1, over, met)
               w == Tells("closed", said + 1, over, met)
    <3>8. /\ x \in Telling /\ y \in Telling /\ z \in Telling /\ w \in Telling
          /\ MayFollow(OpenMessage, x, y) /\ MayFollow(Completed, z, w)
      BY <1>3, <3>7, PlayMessages
    <3>9. MayFollow(Delta(text), y, z)
      BY <1>3, <3>3, <3>4, <3>7, PlayDelta
    <3>10. /\ Plays(<<OpenMessage, Delta(text), Completed>> \o << >>, x, w)
           /\ <<OpenMessage, Delta(text), Completed>> \o << >> \in Seq(Event)
      <4> HIDE DEF x, y, z, w
      <4> QED BY <3>6, <3>8, <3>9, PlayThree
    <3>11. Mark = "closed" /\ said - Len(buffer) = said
      <4>1. Len(buffer) = 0
        BY <3>1
      <4> QED BY <1>3, <3>1, <4>1 DEF Mark
    <3>12. todo' = <<OpenMessage, Delta(text), Completed>> \o << >>
      BY <3>2, <3>5
    <3>13. WillSay(met) = Tells("closed", said, over, met)
      BY <1>3, <3>11 DEF over
    <3>14. Plays(todo', WillSay(met), Tells(Mark, said', over, met))
      BY <2>2, <3>10, <3>11, <3>12, <3>13
    <3> QED BY <1>3, <2>2, <3>1, <3>2, <3>10, <3>12, <3>14 DEF over
  <2> QED BY <2>1, <2>2 DEF LeadText
<1>6. BufferHolds' /\ buffer' \in Seq(Nat) /\ said' - Len(buffer') = said'
  BY <1>1, <1>2, <1>4, <1>5, NothingHeld
<1>7. WillSay(met)' = Tells(Mark, said', begun \ active, met)
  BY <1>1, <1>5, <1>6 DEF WillSay, Mark
<1>8. StreamTypes'
  BY <1>1, <1>2, <1>3, <1>5, <1>6, MessageFound DEF StreamTypes
<1>9. TasksHold'
  BY <1>1, MessageFound, TasksStay DEF SameTasks
<1>10. phase' = "streaming" /\ met \in SUBSET begun'
  BY <1>1, MessageFound
<1> QED BY <1>1, <1>5, <1>6, <1>7, <1>8, <1>9, <1>10, Received

(* A whole message without text of the lead                                   *)
LEMMA NoTextInv ==
  ASSUME NEW met, Attends(met), Receives, AssistantText(<< >>, << >>), lead.block = << >>,
         lead' = lead, said' = said, phase' = phase, active' = active, begun' = begun, TasksHold',
         tasks' \in [Subagent -> {"none", "asked", "running", "updated", "notified", "over"}]
  PROVE  StreamInv'
<1>1. /\ buffer' = << >> /\ opened' = opened /\ flushed' = flushed /\ partial' = FALSE
      /\ todo' \in Seq(Event)
      /\ Plays(todo', WillSay(met), Tells(Mark, said, begun \ active, met))
  BY WholeMessage
<1>2. ~streams => ~opened /\ ~lead.open
  BY MessageFound
<1>3. said \in Nat /\ opened \in BOOLEAN
  BY ReadyIs
<1>4. BufferHolds' /\ buffer' \in Seq(Nat) /\ said' - Len(buffer') = said'
  BY <1>1, <1>2, <1>3, NothingHeld
<1>5. WillSay(met)' = Tells(Mark, said, begun \ active, met)
  BY <1>1, <1>4 DEF WillSay, Mark
<1>6. StreamTypes'
  BY <1>1, <1>3, <1>4, MessageFound DEF StreamTypes
<1>7. phase' = "streaming" /\ met \in SUBSET begun'
  BY MessageFound
<1> QED BY <1>1, <1>4, <1>5, <1>6, <1>7, Received

LEMMA SubagentTextInv ==
  ASSUME NEW met, Attends(met), NEW t \in Subagent, SubagentText(t), ~astray'
  PROVE  StreamInv'
<1>1. /\ Hears(lead.block # << >>) /\ AssistantText(<< >>, << >>) /\ lead' = lead /\ said' = said
      /\ phase' = phase /\ active' = active /\ begun' = begun /\ tasks' = tasks
  BY DEF SubagentText, governorVars
<1>2. Receives /\ lead.block = << >>
  BY <1>1, HeardInTurn
<1>3. TasksHold'
  BY <1>1, <1>2, MessageFound, TasksStay DEF SameTasks
<1>4. tasks \in [Subagent -> {"none", "asked", "running", "updated", "notified", "over"}]
  BY <1>2, MessageFound
<1> QED BY <1>1, <1>2, <1>3, <1>4, NoTextInv

LEMMA DelegateInv ==
  ASSUME NEW met, Attends(met), NEW t \in Subagent, Delegate(t)
  PROVE  StreamInv'
<1>1. /\ Receives /\ tasks[t] = "none" /\ lead.block = << >>
      /\ AssistantText(<< >>, << >>) /\ lead' = lead /\ said' = said
      /\ phase' = phase /\ active' = active /\ begun' = begun
      /\ tasks' = [tasks EXCEPT ![t] = "asked"]
  BY DEF Delegate
<1>2. /\ tasks \in [Subagent -> {"none", "asked", "running", "updated", "notified", "over"}] /\ TasksHold
      /\ background' = background
  BY <1>1, MessageFound
<1>3. tasks' \in [Subagent -> {"none", "asked", "running", "updated", "notified", "over"}]
  BY <1>1, <1>2
<1>4. TasksHold'
  BY <1>1, <1>2 DEF TasksHold
<1> QED BY <1>1, <1>3, <1>4, NoTextInv

WatchTypes == tasks \in [Subagent -> {"none", "asked", "running", "updated", "notified", "over"}]

(* A message about the tasks                                                  *)
LEMMA TaskTells ==
  ASSUME NEW met, Attends(met), Receives, UNCHANGED <<lead, said>>, UNCHANGED textVars, WatchTypes',
         begun' \subseteq Subagent, active' \subseteq begun', todo' \in Seq(Event),
         NEW more, more \in SUBSET begun', phase' \in {"streaming", "raised"},
         phase' = "streaming" =>
           TasksHold' /\ Plays(todo', Tells(Mark, said - Len(buffer), begun \ active, met),
                               Tells(Mark, said - Len(buffer), begun' \ active', more))
  PROVE  StreamInv'
<1>1. /\ lead' = lead /\ said' = said /\ opened' = opened /\ partial' = partial /\ flushed' = flushed
      /\ buffer' = buffer /\ streams' = streams
  BY DEF textVars, Receives, Hears
<1>2. BufferHolds'
  BY <1>1 DEF Attends, BufferHolds
<1>3. StreamTypes'
  BY <1>1 DEF Attends, StreamTypes, WatchTypes
<1>4. WillSay(met) = Tells(Mark, said - Len(buffer), begun \ active, met)
  BY DEF WillSay, Mark
<1>5. WillSay(more)' = Tells(Mark, said - Len(buffer), begun' \ active', more)
  BY <1>1 DEF WillSay, Mark
<1>6. phase' # "raised" => phase' = "streaming"
  OBVIOUS
<1> QED BY <1>2, <1>3, <1>4, <1>5, <1>6, Received

LEMMA TaskStartedInv ==
  ASSUME NEW met, Attends(met), NEW t \in Subagent, TaskStarted(t)
  PROVE  StreamInv'
<1>1. /\ Receives /\ tasks[t] = "asked" /\ tasks' = [tasks EXCEPT ![t] = "running"]
      /\ IF Over THEN Raise /\ active' = active /\ begun' = begun
         ELSE /\ begun' = begun \cup {t}
              /\ IF Cardinality(active) + 1 > MaxConcurrent THEN Raise /\ active' = active
                 ELSE active' = active \cup {t} /\ todo' = <<Began(t)>> /\ phase' = phase
      /\ UNCHANGED <<lead, said>> /\ UNCHANGED textVars
  BY DEF TaskStarted
<1>2. /\ WatchTypes /\ TasksHold /\ phase = "streaming" /\ begun \subseteq Subagent /\ active \subseteq begun
      /\ met \in SUBSET begun /\ background' = background
  BY <1>1, MessageFound DEF WatchTypes
<1>3. WatchTypes'
  BY <1>1, <1>2 DEF WatchTypes
<1>4. t \notin begun
  BY <1>1, <1>2 DEF TasksHold
<1>5. begun' \subseteq Subagent /\ active' \subseteq begun' /\ begun \subseteq begun'
  BY <1>1, <1>2
<1>6. CASE phase' = "raised"
  <2>1. todo' = << >> /\ << >> \in Seq(Event) /\ met \in SUBSET begun'
    BY <1>1, <1>2, <1>5, <1>6 DEF Raise
  <2> QED BY <1>1, <1>3, <1>5, <1>6, <2>1, TaskTells
<1>7. CASE phase' # "raised"
  <2>1. /\ begun' = begun \cup {t} /\ active' = active \cup {t} /\ todo' = <<Began(t)>> /\ phase' = "streaming"
    BY <1>1, <1>2, <1>7 DEF Raise
  <2>2. TasksHold'
    BY <1>1, <1>2, <2>1 DEF TasksHold, WatchTypes
  <2>3. begun' \ active' = begun \ active /\ met \cup {t} \in SUBSET begun'
    BY <1>2, <1>4, <2>1
  <2>4. /\ Mark \in {"open", "closed"} /\ said - Len(buffer) \in Nat /\ begun \ active \in SUBSET Subagent
        /\ met \in SUBSET Subagent
    BY ReadyIs
  <2>5. /\ Plays(todo', Tells(Mark, said - Len(buffer), begun \ active, met),
                 Tells(Mark, said - Len(buffer), begun' \ active', met \cup {t}))
        /\ todo' \in Seq(Event)
    BY <2>1, <2>3, <2>4, PlayBegan
  <2> QED BY <1>1, <1>3, <1>5, <2>1, <2>2, <2>3, <2>5, TaskTells
<1> QED BY <1>6, <1>7

LEMMA TaskProgressInv ==
  ASSUME NEW met, Attends(met), NEW t \in Subagent, TaskProgress(t), ~astray'
  PROVE  StreamInv'
<1>0. Receives /\ ~WasEnded(t)
  BY HeardInTurn DEF TaskProgress
<1>1. /\ Receives /\ tasks[t] \in {"asked", "running"} /\ tasks' = [tasks EXCEPT ![t] = "running"]
      /\ \/ t \in active /\ active' = active /\ begun' = begun /\ todo' = todo /\ phase' = phase
         \/ Raise /\ active' = active /\ begun' = begun
         \/ /\ t \notin active /\ active' = active \cup {t} /\ begun' = begun \cup {t}
            /\ todo' = todo /\ phase' = phase
      /\ UNCHANGED <<lead, said>> /\ UNCHANGED textVars
  BY <1>0 DEF TaskProgress
<1>2. /\ WatchTypes /\ TasksHold /\ phase = "streaming" /\ begun \subseteq Subagent /\ active \subseteq begun
      /\ met \in SUBSET begun /\ background' = background
  BY <1>1, MessageFound DEF WatchTypes
<1>3. WatchTypes'
  BY <1>1, <1>2 DEF WatchTypes
<1>4. begun' \subseteq Subagent /\ active' \subseteq begun' /\ met \in SUBSET begun'
  BY <1>1, <1>2
<1>5. todo' = << >> /\ << >> \in Seq(Event)
  BY <1>1 DEF Receives, Hears, Raise
<1>6. phase' \in {"streaming", "raised"}
  BY <1>1, <1>2 DEF Raise
<1>7. ASSUME phase' = "streaming"
      PROVE  TasksHold' /\ Plays(todo', Tells(Mark, said - Len(buffer), begun \ active, met),
                                 Tells(Mark, said - Len(buffer), begun' \ active', met))
  <2>1. /\ t \in active' /\ active \subseteq active' /\ begun' \subseteq begun \cup {t}
    BY <1>1, <1>7 DEF Raise
  <2>2. TasksHold'
    BY <1>1, <1>2, <2>1 DEF TasksHold, WatchTypes
  <2>3. t \in active \/ t \notin begun
    BY <1>0 DEF WasEnded
  <2>4. begun' \ active' = begun \ active
    BY <1>1, <1>2, <1>7, <2>3 DEF Raise
  <2>5. /\ Mark \in {"open", "closed"} /\ said - Len(buffer) \in Nat /\ begun \ active \in SUBSET Subagent
        /\ met \in SUBSET Subagent
    BY ReadyIs
  <2>6. Tells(Mark, said - Len(buffer), begun \ active, met) \in Telling
    BY <2>5, TellsIs
  <2> QED BY <1>5, <2>2, <2>4, <2>6, PlayNothing
<1> QED BY <1>1, <1>3, <1>4, <1>5, <1>6, <1>7, TaskTells

LEMMA TaskUpdatedInv ==
  ASSUME NEW met, Attends(met), NEW t \in Subagent, TaskUpdated(t)
  PROVE  StreamInv'
<1>1. /\ Receives /\ tasks[t] \in {"running", "notified"}
      /\ tasks' = [tasks EXCEPT ![t] = IF @ = "running" THEN "updated" ELSE "over"]
      /\ active' = active /\ begun' = begun /\ todo' = todo /\ phase' = phase
      /\ UNCHANGED <<lead, said>> /\ UNCHANGED textVars
  BY DEF TaskUpdated
<1>2. /\ WatchTypes /\ TasksHold /\ phase = "streaming" /\ begun \subseteq Subagent /\ active \subseteq begun
      /\ met \in SUBSET begun /\ background' = background
  BY <1>1, MessageFound DEF WatchTypes
<1>3. WatchTypes'
  BY <1>1, <1>2 DEF WatchTypes
<1>4. begun' \subseteq Subagent /\ active' \subseteq begun' /\ met \in SUBSET begun'
  BY <1>1, <1>2
<1>5. todo' = << >> /\ << >> \in Seq(Event)
  BY <1>1 DEF Receives, Hears
<1>6. TasksHold'
  BY <1>1, <1>2 DEF TasksHold, WatchTypes
<1>7. /\ Mark \in {"open", "closed"} /\ said - Len(buffer) \in Nat /\ begun \ active \in SUBSET Subagent
      /\ met \in SUBSET Subagent
  BY ReadyIs
<1>8. Tells(Mark, said - Len(buffer), begun \ active, met) \in Telling
  BY <1>7, TellsIs
<1>9. Plays(todo', Tells(Mark, said - Len(buffer), begun \ active, met),
            Tells(Mark, said - Len(buffer), begun' \ active', met))
  BY <1>1, <1>5, <1>8, PlayNothing
<1>10. phase' = "streaming"
  BY <1>1, <1>2
<1> QED BY <1>1, <1>3, <1>4, <1>5, <1>6, <1>9, <1>10, TaskTells

LEMMA NotifiedInv ==
  ASSUME NEW met, Attends(met), NEW t \in Subagent, Notified(t), ~astray'
  PROVE  StreamInv'
<1>0. Receives /\ ~WasEnded(t)
  BY HeardInTurn DEF Notified
<1>1. /\ Receives /\ tasks[t] \in {"running", "updated"}
      /\ \/ Raise /\ active' = active /\ begun' = begun
         \/ /\ todo' = <<SubagentEnded({t})>> /\ active' = active \ {t} /\ begun' = begun \cup {t}
            /\ phase' = phase
      /\ tasks' = [tasks EXCEPT ![t] = IF @ = "running" THEN "notified" ELSE "over"]
      /\ UNCHANGED <<lead, said>> /\ UNCHANGED textVars
  BY <1>0 DEF Notified, TaskNotification
<1>2. /\ WatchTypes /\ TasksHold /\ phase = "streaming" /\ begun \subseteq Subagent /\ active \subseteq begun
      /\ met \in SUBSET begun /\ background' = background
  BY <1>1, MessageFound DEF WatchTypes
<1>3. WatchTypes'
  BY <1>1, <1>2 DEF WatchTypes
<1>4. begun' \subseteq Subagent /\ active' \subseteq begun' /\ met \in SUBSET begun' /\ t \in active
  BY <1>0, <1>1, <1>2 DEF TasksHold, WasEnded
<1>5. /\ Mark \in {"open", "closed"} /\ said - Len(buffer) \in Nat /\ begun \ active \in SUBSET Subagent
      /\ met \in SUBSET Subagent
  BY ReadyIs
<1>6. CASE phase' = "raised"
  <2>1. todo' = << >> /\ << >> \in Seq(Event)
    BY <1>1, <1>2, <1>6 DEF Raise
  <2> QED BY <1>1, <1>3, <1>4, <1>6, <2>1, TaskTells
<1>7. CASE phase' # "raised"
  <2>1. /\ todo' = <<SubagentEnded({t})>> /\ active' = active \ {t} /\ begun' = begun \cup {t}
        /\ phase' = "streaming"
    BY <1>1, <1>2, <1>7 DEF Raise
  <2>2. TasksHold'
    BY <1>1, <1>2, <1>4, <2>1 DEF TasksHold, WatchTypes
  <2>3. begun' \ active' = (begun \ active) \cup {t} /\ {t} \cap (begun \ active) = {} /\ {t} \in SUBSET Subagent
    BY <1>2, <1>4, <2>1
  <2>4. /\ Plays(todo', Tells(Mark, said - Len(buffer), begun \ active, met),
                 Tells(Mark, said - Len(buffer), begun' \ active', met))
        /\ todo' \in Seq(Event)
    BY <1>5, <2>1, <2>3, PlayEnds
  <2> QED BY <1>1, <1>3, <1>4, <2>1, <2>2, <2>4, TaskTells
<1> QED BY <1>6, <1>7

(* Every subagent at work is ended: what waits for its notification and the  *)
(* rest are told apart.                                                      *)
LEMMA PlayAllEnd ==
  ASSUME NEW met, Attends(met), Receives, NEW mark \in {"open", "closed"}, NEW told \in Nat
  PROVE  LET rest == Some(SubagentEnded(active \ ending))
             waiting == Some(SubagentEnded(ending \cap active)) IN
         /\ Plays(rest \o waiting, Tells(mark, told, begun \ active, met), Tells(mark, told, begun, met))
         /\ Plays(waiting \o rest, Tells(mark, told, begun \ active, met), Tells(mark, told, begun, met))
         /\ rest \in Seq(Event) /\ waiting \in Seq(Event)
<1> DEFINE rest == Some(SubagentEnded(active \ ending))
           waiting == Some(SubagentEnded(ending \cap active))
           a == active \ ending
           b == ending \cap active
           over == begun \ active
<1>1. /\ begun \subseteq Subagent /\ active \subseteq begun /\ met \in SUBSET Subagent
  BY MessageFound, ReadyIs
<1>2. /\ a \in SUBSET Subagent /\ b \in SUBSET Subagent /\ over \in SUBSET Subagent
      /\ over \cup a \in SUBSET Subagent /\ over \cup b \in SUBSET Subagent
      /\ a \cap over = {} /\ b \cap over = {} /\ b \cap (over \cup a) = {} /\ a \cap (over \cup b) = {}
      /\ (over \cup a) \cup b = begun /\ (over \cup b) \cup a = begun
  BY <1>1
<1>3. rest = Some(SubagentEnded(a)) /\ waiting = Some(SubagentEnded(b))
  OBVIOUS
<1> HIDE DEF rest, waiting, a, b, over
<1>4. /\ Plays(rest, Tells(mark, told, over, met), Tells(mark, told, over \cup a, met))
      /\ rest \in Seq(Event)
  BY <1>1, <1>2, <1>3, PlayEnds
<1>5. Plays(waiting, Tells(mark, told, over \cup a, met), Tells(mark, told, begun, met)) /\ waiting \in Seq(Event)
  <2>1. /\ Plays(Some(SubagentEnded(b)), Tells(mark, told, over \cup a, met),
                 Tells(mark, told, (over \cup a) \cup b, met))
        /\ Some(SubagentEnded(b)) \in Seq(Event)
    BY <1>1, <1>2, PlayEnds
  <2> QED BY <1>2, <1>3, <2>1
<1>6. Plays(waiting, Tells(mark, told, over, met), Tells(mark, told, over \cup b, met))
  BY <1>1, <1>2, <1>3, PlayEnds
<1>7. Plays(rest, Tells(mark, told, over \cup b, met), Tells(mark, told, begun, met))
  <2>1. Plays(Some(SubagentEnded(a)), Tells(mark, told, over \cup b, met),
              Tells(mark, told, (over \cup b) \cup a, met))
    BY <1>1, <1>2, PlayEnds
  <2> QED BY <1>2, <1>3, <2>1
<1>8. Plays(rest \o waiting, Tells(mark, told, over, met), Tells(mark, told, begun, met))
  BY <1>4, <1>5, PlayBoth
<1>9. Plays(waiting \o rest, Tells(mark, told, over, met), Tells(mark, told, begun, met))
  BY <1>4, <1>5, <1>6, <1>7, PlayBoth
<1> QED BY <1>4, <1>5, <1>8, <1>9 DEF rest, waiting, over

(* The end of a turn, of a message and of the subagents                       *)
LEMMA TurnEnds ==
  ASSUME NEW met, Attends(met), Receives, opened' = FALSE, active' = {}, begun' = begun,
         buffer' = (IF opened THEN << >> ELSE buffer), said' = said, partial' = partial,
         flushed' = flushed, WatchTypes', lead'.block \in Seq(Nat), lead'.open \in BOOLEAN,
         lead'.block # << >> => partial /\ lead'.open,
         lead' = [open |-> lead'.open, block |-> lead'.block],
         ~streams => ~lead'.open, phase' \in {"streaming", "returned"},
         phase' = "streaming" => TasksHold',
         todo' \in Seq(Event),
         Plays(todo', WillSay(met), Tells("closed", said, begun, met))
  PROVE  StreamInv'
<1>1. said \in Nat /\ buffer' = << >> /\ << >> \in Seq(Nat)
  BY ReadyIs
<1>2. ~streams => ~partial
  BY MessageFound
<1>3. BufferHolds' /\ buffer' \in Seq(Nat) /\ said' - Len(buffer') = said'
  BY <1>1, <1>2, NothingHeld
<1>4. begun' \ active' = begun
  OBVIOUS
<1>5. WillSay(met)' = Tells("closed", said, begun, met)
  BY <1>3, <1>4 DEF WillSay
<1>6. StreamTypes'
  BY <1>1, <1>3, MessageFound DEF StreamTypes, WatchTypes
<1>7. met \in SUBSET begun'
  BY MessageFound
<1> QED BY <1>3, <1>5, <1>6, <1>7, Received

(* An exception while a message is processed                                  *)
LEMMA RaisedInv ==
  ASSUME NEW met, Attends(met), Receives, Raise, WatchTypes', said' = said, UNCHANGED textVars,
         lead' = [open |-> lead'.open, block |-> lead'.block], lead'.open \in BOOLEAN,
         lead'.block \in Seq(Nat), active' = active, begun' = begun
  PROVE  StreamInv'
<1>1. phase' = "raised" /\ todo' = << >> /\ << >> \in Seq(Event)
  BY DEF Raise
<1>2. said \in Nat /\ buffer \in Seq(Nat) /\ opened \in BOOLEAN
  BY ReadyIs
<1>3. StreamTypes'
  BY <1>1, <1>2, MessageFound DEF StreamTypes, WatchTypes, textVars
<1> QED BY <1>1, <1>3, Received

LEMMA ResultInv ==
  ASSUME NEW met, Attends(met), Result
  PROVE  StreamInv'
<1> DEFINE rest == Some(SubagentEnded(active \ ending))
           waiting == Some(SubagentEnded(ending \cap active))
<1>1. /\ Receives /\ lead' = [open |-> FALSE, block |-> << >>]
      /\ tasks' = [t \in Subagent |-> IF tasks[t] # "none" /\ ~background THEN "over" ELSE tasks[t]]
      /\ said' = said /\ partial' = partial /\ flushed' = flushed /\ begun' = begun
      /\ \/ Raise /\ opened' = opened /\ buffer' = buffer /\ active' = active
         \/ /\ todo' = (ClosesMessage \o rest) \o waiting
            /\ opened' = FALSE /\ buffer' = (IF opened THEN << >> ELSE buffer)
            /\ active' = {} /\ phase' \in {phase, "returned"}
  BY DEF Result, ClosesMessage, FailUnfinished
<1>2. lead'.open = FALSE /\ lead'.block = << >> /\ << >> \in Seq(Nat)
  BY <1>1
<1>3. /\ WatchTypes /\ TasksHold /\ phase = "streaming" /\ begun \subseteq Subagent
      /\ background' = background
  BY <1>1, MessageFound DEF WatchTypes
<1>4. WatchTypes' /\ TasksHold'
  <2>1. ASSUME NEW t \in Subagent
        PROVE  /\ tasks'[t] = (IF tasks[t] # "none" /\ ~background THEN "over" ELSE tasks[t])
               /\ tasks[t] \in {"none", "asked"} => t \notin begun
               /\ tasks[t] \in {"running", "updated"} => t \in begun
    BY <1>1, <1>3 DEF WatchTypes, TasksHold
  <2>2. WatchTypes'
    BY <1>1, <1>3 DEF WatchTypes
  <2>3. TasksHold'
    <3> SUFFICES ASSUME NEW t \in Subagent
                 PROVE  /\ tasks'[t] \in {"none", "asked"} => t \notin begun'
                        /\ tasks'[t] \in {"running", "updated"} =>
                             t \in begun' /\ (t \in active' \/ background')
      BY DEF TasksHold
    <3>1. CASE background
      BY <1>1, <1>3, <2>1, <3>1
    <3>2. CASE ~background
      <4>1. tasks'[t] = "over" \/ (tasks'[t] = "none" /\ t \notin begun)
        BY <2>1, <3>2
      <4> QED BY <1>1, <4>1
    <3> QED BY <3>1, <3>2
  <2> QED BY <2>2, <2>3
<1>5. CASE Raise /\ opened' = opened /\ buffer' = buffer /\ active' = active
  BY <1>1, <1>2, <1>4, <1>5, RaisedInv DEF textVars
<1>6. CASE /\ todo' = (ClosesMessage \o rest) \o waiting
           /\ opened' = FALSE /\ buffer' = (IF opened THEN << >> ELSE buffer)
           /\ active' = {} /\ phase' \in {phase, "returned"}
  <2>1. /\ WillSay(met) = Tells(Mark, said - Len(buffer), begun \ active, met)
        /\ said \in Nat /\ begun \ active \in SUBSET Subagent
    BY ReadyIs
  <2>2. /\ ClosesMessage \in Seq(Event)
        /\ Plays(ClosesMessage, WillSay(met), Tells("closed", said, begun \ active, met))
    BY <2>1, PlayClose
  <2>3. /\ Plays(rest \o waiting, Tells("closed", said, begun \ active, met), Tells("closed", said, begun, met))
        /\ rest \in Seq(Event) /\ waiting \in Seq(Event)
    BY <1>1, <2>1, PlayAllEnd
  <2> HIDE DEF rest, waiting
  <2>4. /\ (ClosesMessage \o rest) \o waiting = ClosesMessage \o (rest \o waiting) /\ rest \o waiting \in Seq(Event)
        /\ ClosesMessage \o (rest \o waiting) \in Seq(Event)
    BY <2>2, <2>3
  <2>5. Plays(ClosesMessage \o (rest \o waiting), WillSay(met), Tells("closed", said, begun, met))
    BY <2>2, <2>3, <2>4, PlayBoth
  <2>6. todo' \in Seq(Event) /\ Plays(todo', WillSay(met), Tells("closed", said, begun, met))
    BY <1>6, <2>4, <2>5
  <2>7. phase' \in {"streaming", "returned"}
    BY <1>3, <1>6
  <2> QED BY <1>1, <1>2, <1>4, <1>6, <2>6, <2>7, TurnEnds
<1> QED BY <1>1, <1>5, <1>6

LEMMA StreamEndsInv ==
  ASSUME NEW met, Attends(met), StreamEnds
  PROVE  StreamInv'
<1> DEFINE rest == Some(SubagentEnded(active \ ending))
           waiting == Some(SubagentEnded(ending \cap active))
<1>1. /\ Receives /\ lead' = lead /\ tasks' = tasks
      /\ said' = said /\ partial' = partial /\ flushed' = flushed /\ begun' = begun
      /\ \/ Raise /\ opened' = opened /\ buffer' = buffer /\ active' = active
         \/ /\ todo' = (waiting \o rest) \o ClosesMessage
            /\ opened' = FALSE /\ buffer' = (IF opened THEN << >> ELSE buffer)
            /\ active' = {} /\ phase' = "returned"
  BY DEF StreamEnds, ClosesMessage, FailUnfinished
<1>2. lead = [open |-> lead.open, block |-> lead.block] /\ lead.open \in BOOLEAN /\ lead.block \in Seq(Nat)
  BY <1>1, MessageFound
<1>3. WatchTypes'
  BY <1>1, MessageFound DEF WatchTypes
<1>4. CASE Raise /\ opened' = opened /\ buffer' = buffer /\ active' = active
  BY <1>1, <1>2, <1>3, <1>4, RaisedInv DEF textVars
<1>5. CASE /\ todo' = (waiting \o rest) \o ClosesMessage
           /\ opened' = FALSE /\ buffer' = (IF opened THEN << >> ELSE buffer)
           /\ active' = {} /\ phase' = "returned"
  <2>1. /\ WillSay(met) = Tells(Mark, said - Len(buffer), begun \ active, met) /\ Mark \in {"open", "closed"}
        /\ said \in Nat /\ said - Len(buffer) \in Nat /\ begun \in SUBSET Subagent
    BY <1>1, ReadyIs, MessageFound
  <2>2. /\ Plays(waiting \o rest, WillSay(met), Tells(Mark, said - Len(buffer), begun, met))
        /\ rest \in Seq(Event) /\ waiting \in Seq(Event)
    BY <1>1, <2>1, PlayAllEnd
  <2>3. /\ ClosesMessage \in Seq(Event)
        /\ Plays(ClosesMessage, Tells(Mark, said - Len(buffer), begun, met), Tells("closed", said, begun, met))
    BY <2>1, PlayClose
  <2> HIDE DEF rest, waiting
  <2>4. waiting \o rest \in Seq(Event) /\ (waiting \o rest) \o ClosesMessage \in Seq(Event)
    BY <2>2, <2>3
  <2>5. Plays((waiting \o rest) \o ClosesMessage, WillSay(met), Tells("closed", said, begun, met))
    BY <2>2, <2>3, <2>4, PlayBoth
  <2>6. todo' \in Seq(Event) /\ Plays(todo', WillSay(met), Tells("closed", said, begun, met))
    BY <1>5, <2>4, <2>5
  <2>7. /\ lead' = [open |-> lead'.open, block |-> lead'.block] /\ lead'.open \in BOOLEAN
        /\ lead'.block \in Seq(Nat)
    BY <1>1, <1>2
  <2>8. /\ ~streams => ~lead'.open
        /\ lead'.block # << >> => partial /\ lead'.open
    BY <1>1, MessageFound
  <2>9. phase' # "streaming"
    BY <1>5
  <2> QED BY <1>1, <1>3, <1>5, <2>6, <2>7, <2>8, <2>9, TurnEnds
<1> QED BY <1>1, <1>4, <1>5

(* The orchestrator appends the next event of the message.                    *)
LEMMA YieldInv ==
  ASSUME StreamInv, Yield
  PROVE  StreamInv'
<1>1. /\ phase \in {"streaming", "returned"} /\ todo # << >>
      /\ log' = Logged(Head(todo)) /\ todo' = Tail(todo)
      /\ streams' = streams /\ lead' = lead /\ said' = said /\ tasks' = tasks
      /\ opened' = opened /\ partial' = partial /\ buffer' = buffer /\ flushed' = flushed
      /\ active' = active /\ begun' = begun /\ phase' = phase /\ background' = background
  BY DEF Yield, sdkVars, textVars, governorVars
<1>2. StreamTypes /\ LogHolds /\ BufferHolds /\ todo \in Seq(Event)
  BY <1>1 DEF StreamInv, StreamTypes
<1>3. PICK met \in SUBSET begun : Plays(todo, LogSays, WillSay(met))
  BY <1>1 DEF StreamInv
<1>4. /\ Head(todo) \in Event /\ Tail(todo) \in Seq(Event)
      /\ \E z \in Telling : MayFollow(Head(todo), LogSays, z) /\ Plays(Tail(todo), z, WillSay(met))
  BY <1>1, <1>2, <1>3, PlayHead
<1>5. PICK z \in Telling : MayFollow(Head(todo), LogSays, z) /\ Plays(Tail(todo), z, WillSay(met))
  BY <1>4
<1>6. LogHolds' /\ LogSays' = z
  BY <1>1, <1>2, <1>4, <1>5, LoggedGoes
<1>7. WillSay(met)' = WillSay(met)
  BY <1>1 DEF WillSay
<1>8. Plays(todo', LogSays', WillSay(met)')
  BY <1>1, <1>5, <1>6, <1>7
<1>9. StreamTypes'
  BY <1>1, <1>2, <1>4 DEF StreamTypes
<1>10. BufferHolds'
  BY <1>1, <1>2 DEF BufferHolds
<1>11. phase' = "streaming" => TasksHold'
  BY <1>1, TasksStay DEF StreamInv, SameTasks
<1>12. phase' = "returned" => ~opened' /\ active' = {}
  BY <1>1 DEF StreamInv
<1>13. phase' # "closed" /\ met \in SUBSET begun'
  BY <1>1
<1> QED BY <1>6, <1>8, <1>9, <1>10, <1>11, <1>12, <1>13 DEF StreamInv

LEMMA StreamRaisesInv ==
  ASSUME StreamInv, StreamRaises
  PROVE  StreamInv'
<1>1. /\ streams' = streams /\ lead' = lead /\ said' = said /\ tasks' = tasks
      /\ opened' = opened /\ partial' = partial /\ buffer' = buffer /\ flushed' = flushed
      /\ active' = active /\ begun' = begun /\ phase' = "raised" /\ log' = log /\ todo' = << >>
      /\ << >> \in Seq(Event)
  BY DEF StreamRaises, Raise, sdkVars, textVars, governorVars
<1>2. StreamTypes' /\ LogHolds'
  BY <1>1 DEF StreamInv, StreamTypes, LogHolds
<1> QED BY <1>1, <1>2 DEF StreamInv

LEMMA FailActiveSubagentsInv ==
  ASSUME StreamInv, FailActiveSubagents
  PROVE  StreamInv'
<1> DEFINE ts == {t \in log.started : log.ended[t] = 0}
           over == {t \in Subagent : log.ended[t] = 1}
           y == Tells(log.bracket, Len(log.text), over \cup ts, log.started)
<1>1. /\ streams' = streams /\ lead' = lead /\ said' = said /\ tasks' = tasks
      /\ opened' = opened /\ partial' = partial /\ buffer' = buffer /\ flushed' = flushed
      /\ active' = active /\ begun' = begun /\ phase' = "closed" /\ todo' = todo
      /\ log' = Logged(SubagentEnded(ts))
  BY DEF FailActiveSubagents, sdkVars, textVars, governorVars
<1>2. StreamTypes'
  BY <1>1 DEF StreamInv, StreamTypes
<1>3. LogHolds /\ log.started \subseteq Subagent /\ log.ended \in [Subagent -> {0, 1}]
  BY DEF StreamInv, LogHolds
<1>4. ts \in SUBSET Subagent /\ ts \cap over = {} /\ log.started \subseteq over \cup ts
  BY <1>3
<1>5. /\ LogSays.mark = log.bracket /\ LogSays.told = Len(log.text) /\ LogSays.over = over
      /\ LogSays.met = log.started
  BY <1>3, SaysIs
<1> HIDE DEF ts, over
<1>6. /\ SubagentEnded(ts) \in Event /\ SubagentEnded(ts).type = "subagent.ended"
      /\ SubagentEnded(ts).tasks = ts
  BY <1>4, EventsAre
<1>7. MayFollow(SubagentEnded(ts), LogSays, y)
  BY <1>4, <1>5, <1>6 DEF MayFollow
<1> HIDE DEF y
<1>8. LogHolds' /\ LogSays' = y
  BY <1>1, <1>3, <1>6, <1>7, LoggedGoes
<1>9. {t \in Subagent : log'.ended[t] = 1} = over \cup ts /\ log'.started = log.started
  BY <1>8 DEF LogSays, Tells, y
<1>10. \A t \in log'.started : log'.ended[t] = 1
  BY <1>4, <1>9
<1> QED BY <1>1, <1>2, <1>8, <1>10 DEF StreamInv

(* In their turn, a Run's answer is told once, and every subagent that starts *)
(* ends once: a whole message leaves out what was streamed, nothing is held   *)
(* back at the end, and the ends of tasks come from one place each.           *)
LEMMA StreamInvStep ==
  ASSUME StreamInv, [StreamNext]_streamVars, ~astray'
  PROVE  StreamInv'
<1>1. CASE UNCHANGED streamVars
  <2>1. /\ streams' = streams /\ lead' = lead /\ said' = said /\ tasks' = tasks
        /\ opened' = opened /\ partial' = partial /\ buffer' = buffer /\ flushed' = flushed
        /\ active' = active /\ begun' = begun /\ phase' = phase /\ log' = log /\ todo' = todo
        /\ background' = background
    BY <1>1 DEF streamVars, sdkVars, textVars, governorVars
  <2>2. StreamTypes' /\ LogHolds' /\ (TasksHold => TasksHold') /\ (BufferHolds => BufferHolds')
    BY <2>1 DEF StreamInv, StreamTypes, LogHolds, TasksHold, BufferHolds
  <2>3. LogSays' = LogSays /\ \A met : WillSay(met)' = WillSay(met)
    BY <2>1 DEF LogSays, WillSay
  <2> QED BY <2>1, <2>2, <2>3 DEF StreamInv
<1>2. CASE Yield
  BY <1>2, YieldInv
<1>3. CASE StreamRaises
  BY <1>3, StreamRaisesInv
<1>4. CASE FailActiveSubagents
  BY <1>4, FailActiveSubagentsInv
<1>5. CASE (\E stray : Hears(stray)) /\ StreamNext
  <2>1. PICK met \in SUBSET begun : Attends(met)
    <3>1. Receives
      BY <1>5, HeardInTurn
    <3> QED BY <3>1, ReadyTo
  <2>2. CASE MessageStart
    BY <2>1, <2>2, MessageStartInv
  <2>3. CASE TextDelta
    BY <2>1, <2>3, TextDeltaInv
  <2>4. CASE MessageStop
    BY <2>1, <2>4, MessageStopInv
  <2>5. CASE LeadText
    BY <2>1, <2>5, LeadTextInv
  <2>6. CASE Result
    BY <2>1, <2>6, ResultInv
  <2>7. CASE StreamEnds
    BY <2>1, <2>7, StreamEndsInv
  <2>8. ASSUME NEW t \in Subagent, SubagentText(t) PROVE StreamInv'
    BY <2>1, <2>8, SubagentTextInv
  <2>9. ASSUME NEW t \in Subagent, Delegate(t) PROVE StreamInv'
    BY <2>1, <2>9, DelegateInv
  <2>10. ASSUME NEW t \in Subagent, TaskStarted(t) PROVE StreamInv'
    BY <2>1, <2>10, TaskStartedInv
  <2>11. ASSUME NEW t \in Subagent, TaskProgress(t) PROVE StreamInv'
    BY <2>1, <2>11, TaskProgressInv
  <2>12. ASSUME NEW t \in Subagent, TaskUpdated(t) PROVE StreamInv'
    BY <2>1, <2>12, TaskUpdatedInv
  <2>13. ASSUME NEW t \in Subagent, Notified(t) PROVE StreamInv'
    BY <2>1, <2>13, NotifiedInv
  <2> QED BY <1>2, <1>3, <1>4, <1>5, <2>2, <2>3, <2>4, <2>5, <2>6, <2>7, <2>8, <2>9, <2>10, <2>11,
             <2>12, <2>13 DEF StreamNext
<1>6. StreamNext => \/ Yield \/ StreamRaises \/ FailActiveSubagents \/ \E stray : Hears(stray)
  BY DEF StreamNext, Receives, MessageStart, TextDelta, MessageStop, LeadText, SubagentText, Delegate, TaskStarted,
         TaskProgress, TaskUpdated, Notified, Result, StreamEnds
<1> QED BY <1>1, <1>2, <1>3, <1>4, <1>5, <1>6

LEMMA StreamToldExactly ==
  ASSUME StreamInv
  PROVE  /\ log.bracket \in {"open", "closed"} /\ log.text = [i \in 1 .. Len(log.text) |-> i]
         /\ StreamFinished => Len(log.text) = said /\ log.bracket = "closed"
         /\ \A t \in Subagent : log.ended[t] <= 1
<1>1. /\ log.bracket \in {"open", "closed"} /\ log.text \in Seq(Nat)
      /\ log.ended \in [Subagent -> {0, 1}]
      /\ \A i \in 1 .. Len(log.text) : log.text[i] = 0 + i
  BY DEF StreamInv, LogHolds, GoesOn
<1>2. log.text = [i \in 1 .. Len(log.text) |-> i]
  <2>1. \A i \in 1 .. Len(log.text) : log.text[i] = i
    BY <1>1
  <2> QED BY <1>1, <2>1
<1>3. ASSUME StreamFinished
      PROVE  Len(log.text) = said /\ log.bracket = "closed"
  <2>1. phase = "returned" /\ todo = << >> /\ BufferHolds /\ ~opened /\ active = {} /\ said \in Nat
    BY <1>3 DEF StreamFinished, StreamInv, StreamTypes
  <2>2. PICK met \in SUBSET begun : Plays(todo, LogSays, WillSay(met))
    BY <2>1 DEF StreamInv
  <2>3. LogSays = WillSay(met)
    BY <2>1, <2>2, PlayNothingIs
  <2>4. buffer = << >>
    BY <2>1 DEF BufferHolds
  <2>5. said - Len(buffer) = said
    <3>1. Len(buffer) = 0
      BY <2>4
    <3> QED BY <2>1, <3>1
  <2>6. WillSay(met) = Tells("closed", said, begun, met)
    BY <2>1, <2>5 DEF WillSay
  <2> QED BY <2>3, <2>6 DEF LogSays, Tells
<1>4. \A t \in Subagent : log.ended[t] <= 1
  BY <1>1
<1> QED BY <1>1, <1>2, <1>3, <1>4

-----------------------------------------------------------------------------
(* Heard out of their turn, the subagents of an Agent that has them in the   *)
(* background make the log repeat itself.  Nothing is lost even so: what was *)
(* said is in the log, on its way there or held back, and a subagent whose   *)
(* start was told is at work or its end was told.                            *)
Among(s) == {s[i] : i \in 1 .. Len(s)}
Brings(events, n) == \E e \in events : e.type = "delta" /\ n \in Among(e.text)
StartsIn(events, t) == \E e \in events : e.type = "subagent.started" /\ t \in e.tasks
EndsIn(events, t) == \E e \in events : e.type = "subagent.ended" /\ t \in e.tasks

LogShape ==
  /\ log = [text |-> log.text, bracket |-> log.bracket, started |-> log.started, ended |-> log.ended]
  /\ log.text \in Seq(Nat) /\ log.started \subseteq Subagent /\ log.ended \in [Subagent -> Nat]

AllKept ==
  /\ \A n \in 1 .. said :
       n \in Among(log.text) \/ n \in Among(buffer) \/ Brings(Among(todo), n)
  /\ \A t \in Subagent : t \in log.started \/ StartsIn(Among(todo), t) =>
                           t \in active \/ log.ended[t] > 0 \/ EndsIn(Among(todo), t)
  /\ buffer # << >> => opened
  /\ ~streams => ~lead.open /\ ~partial

NothingLost ==
  /\ StreamTypes /\ LogShape
  /\ phase \in {"streaming", "returned"} => AllKept
  /\ phase = "returned" => ~opened /\ active = {}
  /\ phase = "closed" => \A t \in log.started : log.ended[t] > 0

LEMMA AmongNone == Among(<< >>) = {}
BY DEF Among

LEMMA AmongOne == ASSUME NEW e PROVE Among(<<e>>) = {e}
<1>1. Len(<<e>>) = 1 /\ <<e>>[1] = e /\ 1 .. 1 = {1}
  OBVIOUS
<1> QED BY <1>1 DEF Among

LEMMA AmongBoth ==
  ASSUME NEW S, NEW a \in Seq(S), NEW b \in Seq(S)
  PROVE  a \o b \in Seq(S) /\ Among(a \o b) = Among(a) \cup Among(b)
<1> DEFINE c == a \o b
           m == Len(a)
           n == Len(b)
<1>1. /\ c \in Seq(S) /\ m \in Nat /\ n \in Nat /\ Len(c) = m + n
      /\ \A i \in 1 .. m : c[i] = a[i]
      /\ \A i \in m + 1 .. m + n : c[i] = b[i - m]
  OBVIOUS
<1>2. \A i \in 1 .. m + n : i \in 1 .. m \/ (i \in m + 1 .. m + n /\ i - m \in 1 .. n)
  BY <1>1
<1>3. \A i \in 1 .. m : i \in 1 .. m + n
  BY <1>1
<1>4. \A i \in 1 .. n : m + i \in m + 1 .. m + n /\ m + i \in 1 .. m + n /\ (m + i) - m = i
  BY <1>1
<1>5. Among(a) = {a[i] : i \in 1 .. m} /\ Among(b) = {b[i] : i \in 1 .. n}
      /\ Among(c) = {c[i] : i \in 1 .. m + n}
  BY <1>1 DEF Among
<1> HIDE DEF c, m, n
<1>6. Among(c) \subseteq Among(a) \cup Among(b)
  BY <1>1, <1>2, <1>5
<1>7. Among(a) \subseteq Among(c)
  BY <1>1, <1>3, <1>5
<1>8. Among(b) \subseteq Among(c)
  BY <1>1, <1>4, <1>5
<1>9. c \in Seq(S) /\ Among(c) = Among(a) \cup Among(b)
  BY <1>1, <1>6, <1>7, <1>8
<1> QED BY <1>9 DEF c

LEMMA AmongHead ==
  ASSUME NEW S, NEW s \in Seq(S), s # << >>
  PROVE  Head(s) \in S /\ Tail(s) \in Seq(S) /\ Among(s) = {Head(s)} \cup Among(Tail(s))
<1>1. Head(s) \in S /\ Tail(s) \in Seq(S) /\ s = <<Head(s)>> \o Tail(s)
  OBVIOUS
<1>2. <<Head(s)>> \in Seq(S) /\ Among(<<Head(s)>>) = {Head(s)}
  BY <1>1, AmongOne
<1>3. PICK a \in Seq(S) : a = <<Head(s)>>
  BY <1>2
<1>4. PICK b \in Seq(S) : b = Tail(s)
  BY <1>1
<1>5. Among(a \o b) = Among(a) \cup Among(b)
  BY AmongBoth
<1> QED BY <1>1, <1>2, <1>3, <1>4, <1>5

LEMMA NothingLostInit == StreamInit => NothingLost
<1> SUFFICES ASSUME StreamInit PROVE NothingLost
  OBVIOUS
<1>1. StreamTypes
  BY StreamInitInv DEF StreamInv
<1>2. /\ log = [text |-> << >>, bracket |-> "closed", started |-> {}, ended |-> [t \in Subagent |-> 0]]
      /\ said = 0 /\ buffer = << >> /\ todo = << >> /\ phase = "streaming" /\ partial = FALSE
      /\ lead = [open |-> FALSE, block |-> << >>] /\ 1 .. 0 = {}
  BY DEF StreamInit
<1>3. log.text = << >> /\ log.started = {} /\ log.ended = [t \in Subagent |-> 0] /\ log.bracket = "closed"
      /\ lead.open = FALSE
  BY <1>2
<1>4. LogShape
  BY <1>2, <1>3 DEF LogShape
<1>5. AllKept
  BY <1>2, <1>3, AmongNone DEF AllKept, StartsIn
<1> QED BY <1>1, <1>2, <1>4, <1>5 DEF NothingLost

(* What a message finds                                                       *)
Listens == NothingLost /\ \E stray : Hears(stray)

LEMMA ListensTo ==
  ASSUME Listens
  PROVE  /\ phase = "streaming" /\ todo = << >> /\ log' = log /\ streams' = streams
         /\ StreamTypes /\ LogShape /\ AllKept
BY DEF Listens, Hears, NothingLost

(* A message takes what was held back along, or keeps it.                     *)
Carried ==
  /\ \A n \in 1 .. said' : \/ n \in 1 .. said /\ n \notin Among(buffer)
                           \/ n \in Among(buffer') \/ Brings(Among(todo'), n)
  /\ \A t \in Subagent : t \in active \/ StartsIn(Among(todo'), t) => t \in active' \/ EndsIn(Among(todo'), t)
  /\ buffer' # << >> => opened'
  /\ ~streams => ~lead'.open /\ ~partial'
  /\ phase' = "returned" => ~opened' /\ active' = {}

LEMMA CarriedOn ==
  ASSUME Listens, StreamTypes', phase' \in {"streaming", "returned", "raised"},
         phase' # "raised" => Carried
  PROVE  NothingLost'
<1>1. /\ phase = "streaming" /\ todo = << >> /\ log' = log /\ streams' = streams
      /\ StreamTypes /\ LogShape /\ AllKept
  BY ListensTo
<1>2. LogShape'
  BY <1>1 DEF LogShape
<1>3. ASSUME phase' # "raised" PROVE AllKept' /\ (phase' = "returned" => ~opened' /\ active' = {})
  <2>1. Carried
    BY <1>3
  <2>2. ASSUME NEW n \in 1 .. said'
        PROVE  n \in Among(log'.text) \/ n \in Among(buffer') \/ Brings(Among(todo'), n)
    <3>1. CASE n \in 1 .. said /\ n \notin Among(buffer)
      BY <1>1, <3>1, AmongNone DEF AllKept, Brings
    <3>2. CASE n \in Among(buffer') \/ Brings(Among(todo'), n)
      BY <3>2
    <3> QED BY <2>1, <3>1, <3>2 DEF Carried
  <2>3. ASSUME NEW t \in Subagent, t \in log'.started \/ StartsIn(Among(todo'), t)
        PROVE  t \in active' \/ log'.ended[t] > 0 \/ EndsIn(Among(todo'), t)
    <3>1. CASE StartsIn(Among(todo'), t)
      BY <2>1, <3>1 DEF Carried
    <3>2. CASE t \in log'.started
      <4>1. t \in active \/ log.ended[t] > 0
        BY <1>1, <3>2, AmongNone DEF AllKept, EndsIn
      <4> QED BY <1>1, <2>1, <4>1 DEF Carried
    <3> QED BY <2>3, <3>1, <3>2
  <2> QED BY <1>1, <2>1, <2>2, <2>3 DEF AllKept, Carried
<1> QED BY <1>2, <1>3 DEF NothingLost

(* What is held back is flushed; a message that is open is closed.            *)
LEMMA FlushBrings ==
  ASSUME buffer \in Seq(Nat)
  PROVE  /\ Flush \in Seq(Event) /\ \A n \in Among(buffer) : Brings(Among(Flush), n)
         /\ \A t : ~StartsIn(Among(Flush), t)
<1>1. CASE buffer = << >>
  <2>1. Flush = << >> /\ << >> \in Seq(Event)
    BY <1>1 DEF Flush, Some, Hollow, Delta
  <2> QED BY <1>1, <2>1, AmongNone DEF StartsIn
<1>2. CASE buffer # << >>
  <2>1. Delta(buffer) \in Event /\ Delta(buffer).type = "delta" /\ Delta(buffer).text = buffer
    BY EventsAre
  <2>2. Flush = <<Delta(buffer)>>
    BY <1>2, <2>1 DEF Flush, Some, Hollow
  <2>3. Among(Flush) = {Delta(buffer)}
    BY <2>2, AmongOne
  <2> QED BY <2>1, <2>2, <2>3 DEF Brings, StartsIn
<1> QED BY <1>1, <1>2

LEMMA CloseBrings ==
  ASSUME buffer \in Seq(Nat), opened \in BOOLEAN, buffer # << >> => opened
  PROVE  /\ ClosesMessage \in Seq(Event) /\ \A n \in Among(buffer) : Brings(Among(ClosesMessage), n)
         /\ \A t : ~StartsIn(Among(ClosesMessage), t)
<1>1. CASE ~opened
  <2>1. ClosesMessage = << >> /\ buffer = << >> /\ << >> \in Seq(Event)
    BY <1>1 DEF ClosesMessage
  <2> QED BY <2>1, AmongNone DEF StartsIn
<1>2. CASE opened
  <2>1. /\ Flush \in Seq(Event) /\ \A n \in Among(buffer) : Brings(Among(Flush), n)
        /\ \A t : ~StartsIn(Among(Flush), t)
    BY FlushBrings
  <2>2. Completed \in Event /\ Completed.type = "completed" /\ <<Completed>> \in Seq(Event)
    BY EventsAre
  <2>3. ClosesMessage = Flush \o <<Completed>> /\ ClosesMessage \in Seq(Event)
    BY <1>2, <2>1, <2>2 DEF ClosesMessage
  <2>4. Among(ClosesMessage) = Among(Flush) \cup {Completed}
    <3>1. PICK a \in Seq(Event) : a = Flush
      BY <2>1
    <3>2. PICK b \in Seq(Event) : b = <<Completed>>
      BY <2>2
    <3>3. Among(a \o b) = Among(a) \cup Among(b)
      BY AmongBoth
    <3> QED BY <2>3, <3>1, <3>2, <3>3, AmongOne
  <2> QED BY <2>1, <2>2, <2>3, <2>4 DEF Brings, StartsIn
<1> QED BY <1>1, <1>2

LEMMA EndBrings ==
  ASSUME NEW ts \in SUBSET Subagent
  PROVE  LET s == Some(SubagentEnded(ts)) IN
         /\ s \in Seq(Event) /\ \A t \in ts : EndsIn(Among(s), t)
         /\ \A t : ~StartsIn(Among(s), t)
<1> DEFINE s == Some(SubagentEnded(ts))
<1>1. /\ SubagentEnded(ts) \in Event /\ SubagentEnded(ts).type = "subagent.ended"
      /\ SubagentEnded(ts).tasks = ts
  BY EventsAre
<1>2. CASE ts = {}
  <2>1. s = << >> /\ << >> \in Seq(Event)
    BY <1>2 DEF Some, Hollow, SubagentEnded
  <2> QED BY <1>2, <2>1, AmongNone DEF StartsIn
<1>3. CASE ts # {}
  <2>1. s = <<SubagentEnded(ts)>>
    BY <1>1, <1>3 DEF Some, Hollow
  <2>2. Among(s) = {SubagentEnded(ts)}
    BY <2>1, AmongOne
  <2> QED BY <1>1, <2>1, <2>2 DEF EndsIn, StartsIn
<1> QED BY <1>2, <1>3

(* A whole message                                                            *)
LEMMA WholeBrings ==
  ASSUME Listens, NEW text \in Seq(Nat), AssistantText(text, << >>)
  PROVE  /\ buffer' \in Seq(Nat) /\ opened' = opened /\ flushed' = flushed /\ partial' = FALSE
         /\ todo' \in Seq(Event) /\ (buffer' # << >> => opened')
         /\ \A n \in Among(buffer) : n \in Among(buffer') \/ Brings(Among(todo'), n)
         /\ ~partial => \A n \in Among(text) : Brings(Among(todo'), n)
         /\ \A t : ~StartsIn(Among(todo'), t)
<1>1. buffer \in Seq(Nat) /\ partial \in BOOLEAN /\ (buffer # << >> => opened) /\ << >> \in Seq(Nat)
  BY ListensTo DEF StreamTypes, AllKept
<1>2. opened' = opened /\ flushed' = flushed /\ partial' = FALSE
  BY DEF AssistantText
<1>3. CASE partial
  <2>1. todo' = Flush \o << >> /\ buffer' = << >>
    BY <1>3 DEF AssistantText
  <2>2. /\ Flush \in Seq(Event) /\ \A n \in Among(buffer) : Brings(Among(Flush), n)
        /\ \A t : ~StartsIn(Among(Flush), t)
    BY <1>1, FlushBrings
  <2>3. todo' = Flush
    BY <2>1, <2>2
  <2> QED BY <1>1, <1>2, <1>3, <2>1, <2>2, <2>3
<1>4. CASE ~partial
  <2>1. todo' = Message(text) \o << >> /\ buffer' = buffer
    BY <1>4 DEF AssistantText
  <2>2. /\ Message(text) \in Seq(Event) /\ \A n \in Among(text) : Brings(Among(Message(text)), n)
        /\ \A t : ~StartsIn(Among(Message(text)), t)
    <3>1. CASE text = << >>
      <4>1. Message(text) = << >> /\ << >> \in Seq(Event)
        BY <3>1 DEF Message
      <4> QED BY <3>1, <4>1, AmongNone DEF StartsIn
    <3>2. CASE text # << >>
      <4>1. /\ OpenMessage \in Event /\ OpenMessage.type = "start"
            /\ Completed \in Event /\ Completed.type = "completed"
            /\ Delta(text) \in Event /\ Delta(text).type = "delta" /\ Delta(text).text = text
        BY EventsAre
      <4> DEFINE d == Delta(text)
      <4>2. Message(text) = <<OpenMessage, d, Completed>>
        BY <3>2 DEF Message
      <4> HIDE DEF d
      <4>3. /\ Len(<<OpenMessage, d, Completed>>) = 3 /\ <<OpenMessage, d, Completed>>[1] = OpenMessage
            /\ <<OpenMessage, d, Completed>>[2] = d /\ <<OpenMessage, d, Completed>>[3] = Completed
            /\ 1 .. 3 = {1, 2, 3}
        OBVIOUS
      <4>4. Among(<<OpenMessage, d, Completed>>) = {OpenMessage, d, Completed}
        BY <4>3 DEF Among
      <4>5. <<OpenMessage, d, Completed>> \in Seq(Event)
        BY <4>1 DEF d
      <4>6. d.type = "delta" /\ d.text = text
        BY <4>1 DEF d
      <4> QED BY <4>1, <4>2, <4>4, <4>5, <4>6 DEF Brings, StartsIn
    <3> QED BY <3>1, <3>2
  <2>3. todo' = Message(text)
    BY <2>1, <2>2
  <2> QED BY <1>1, <1>2, <1>4, <2>1, <2>2, <2>3
<1> QED BY <1>1, <1>3, <1>4

LEMMA StartBrings ==
  ASSUME Listens, MessageStart
  PROVE  NothingLost'
<1>1. /\ streams /\ lead' = [open |-> TRUE, block |-> << >>]
      /\ todo' = (IF opened THEN << >> ELSE <<OpenMessage>>)
      /\ opened' = TRUE /\ flushed' = (flushed /\ opened)
      /\ said' = said /\ buffer' = buffer /\ partial' = partial
      /\ tasks' = tasks /\ active' = active /\ begun' = begun /\ phase' = phase
  BY DEF MessageStart, governorVars
<1>2. /\ phase = "streaming" /\ streams' = streams /\ StreamTypes
  BY ListensTo
<1>3. lead'.open = TRUE /\ lead'.block = << >> /\ << >> \in Seq(Nat)
  BY <1>1
<1>4. OpenMessage \in Event /\ OpenMessage.type = "start" /\ << >> \in Seq(Event)
  BY EventsAre
<1>5. todo' \in Seq(Event) /\ \A t : ~StartsIn(Among(todo'), t)
  <2>1. \A t : ~StartsIn(Among(<< >>), t) /\ ~StartsIn(Among(<<OpenMessage>>), t)
    BY <1>4, AmongNone, AmongOne DEF StartsIn
  <2> QED BY <1>1, <1>4, <2>1
<1>6. (flushed /\ opened) \in BOOLEAN
  OBVIOUS
<1>7. StreamTypes'
  BY <1>1, <1>2, <1>3, <1>5, <1>6 DEF StreamTypes
<1>8. Carried
  BY <1>1, <1>2, <1>5 DEF Carried
<1> QED BY <1>1, <1>2, <1>7, <1>8, CarriedOn

LEMMA DeltaBrings ==
  ASSUME Listens, TextDelta
  PROVE  NothingLost'
<1> DEFINE n == said + 1
           text == Append(buffer, n)
           open == IF opened THEN << >> ELSE <<OpenMessage>>
<1>1. /\ lead.open /\ said' = n /\ lead' = [lead EXCEPT !.block = Append(@, n)]
      /\ opened' = TRUE /\ partial' = TRUE /\ flushed' = TRUE
      /\ \/ todo' = open \o <<Delta(<<n>>)>> /\ buffer' = buffer
         \/ todo' = <<Delta(text)>> /\ buffer' = << >>
         \/ todo' = << >> /\ buffer' = text
      /\ tasks' = tasks /\ active' = active /\ begun' = begun /\ phase' = phase
  BY DEF TextDelta, governorVars
<1>2. /\ phase = "streaming" /\ streams' = streams /\ StreamTypes /\ (~streams => ~lead.open)
  BY ListensTo DEF AllKept
<1>3. said \in Nat /\ n \in Nat /\ buffer \in Seq(Nat) /\ lead.block \in Seq(Nat)
      /\ lead = [open |-> lead.open, block |-> lead.block]
  <2>1. said \in Nat => n \in Nat
    OBVIOUS
  <2> QED BY <1>2, <2>1 DEF StreamTypes
<1>4. lead'.open = TRUE /\ lead'.block \in Seq(Nat) /\ lead' = [open |-> lead'.open, block |-> lead'.block]
  <2>1. lead' = [open |-> TRUE, block |-> Append(lead.block, n)]
    BY <1>1, <1>3
  <2>2. Append(lead.block, n) \in Seq(Nat)
    <3> HIDE DEF n
    <3> QED BY <1>3
  <2> QED BY <2>1, <2>2
<1>5. \A k \in 1 .. said' : k \in 1 .. said \/ k = n
  BY <1>1, <1>3
<1> HIDE DEF n
<1>6. text \in Seq(Nat) /\ Among(text) = Among(buffer) \cup {n} /\ <<n>> \in Seq(Nat)
  <2>1. <<n>> \in Seq(Nat) /\ text = buffer \o <<n>>
    BY <1>3
  <2>2. PICK b \in Seq(Nat) : b = <<n>>
    BY <2>1
  <2>3. buffer \o b \in Seq(Nat) /\ Among(buffer \o b) = Among(buffer) \cup Among(b)
    BY <1>3, AmongBoth
  <2> QED BY <2>1, <2>2, <2>3, AmongOne
<1> HIDE DEF text
<1>7. /\ todo' \in Seq(Event) /\ buffer' \in Seq(Nat)
      /\ \A k \in Among(buffer) \cup {n} : k \in Among(buffer') \/ Brings(Among(todo'), k)
      /\ \A t : ~StartsIn(Among(todo'), t)
  <2>1. ASSUME NEW s \in Seq(Nat)
        PROVE  /\ <<Delta(s)>> \in Seq(Event) /\ \A k \in Among(s) : Brings(Among(<<Delta(s)>>), k)
               /\ \A t : ~StartsIn(Among(<<Delta(s)>>), t)
    <3>1. Delta(s) \in Event /\ Delta(s).type = "delta" /\ Delta(s).text = s
      BY EventsAre
    <3> HIDE DEF Delta
    <3> QED BY <3>1, AmongOne DEF Brings, StartsIn
  <2>2. CASE todo' = open \o <<Delta(<<n>>)>> /\ buffer' = buffer
    <3>1. OpenMessage \in Event /\ OpenMessage.type = "start"
      BY EventsAre
    <3>2. open \in Seq(Event) /\ \A t : ~StartsIn(Among(open), t)
      <4>1. << >> \in Seq(Event) /\ <<OpenMessage>> \in Seq(Event)
        BY <3>1
      <4>2. \A t : ~StartsIn(Among(<< >>), t) /\ ~StartsIn(Among(<<OpenMessage>>), t)
        BY <3>1, AmongNone, AmongOne DEF StartsIn
      <4> QED BY <4>1, <4>2
    <3>3. /\ <<Delta(<<n>>)>> \in Seq(Event) /\ \A k \in Among(<<n>>) : Brings(Among(<<Delta(<<n>>)>>), k)
          /\ \A t : ~StartsIn(Among(<<Delta(<<n>>)>>), t)
      BY <1>6, <2>1
    <3>4. PICK a \in Seq(Event) : a = open
      BY <3>2
    <3>5. PICK b \in Seq(Event) : b = <<Delta(<<n>>)>>
      BY <3>3
    <3>6. a \o b \in Seq(Event) /\ Among(a \o b) = Among(a) \cup Among(b)
      BY AmongBoth
    <3>7. Brings(Among(b), n) /\ \A t : ~StartsIn(Among(a), t) /\ ~StartsIn(Among(b), t)
      BY <3>2, <3>3, <3>4, <3>5, AmongOne
    <3>8. todo' = a \o b
      BY <2>2, <3>4, <3>5
    <3> HIDE DEF open
    <3> QED BY <1>3, <2>2, <3>6, <3>7, <3>8 DEF Brings, StartsIn
  <2>3. CASE todo' = <<Delta(text)>> /\ buffer' = << >>
    <3>1. << >> \in Seq(Nat)
      OBVIOUS
    <3> QED BY <1>6, <2>1, <2>3, <3>1
  <2>4. CASE todo' = << >> /\ buffer' = text
    <3>1. << >> \in Seq(Event) /\ \A t : ~StartsIn(Among(<< >>), t)
      BY AmongNone DEF StartsIn
    <3> QED BY <1>6, <2>4, <3>1
  <2> HIDE DEF open
  <2> QED BY <1>1, <2>2, <2>3, <2>4
<1> HIDE DEF open
<1>8. StreamTypes'
  BY <1>1, <1>2, <1>3, <1>4, <1>7 DEF StreamTypes
<1>9. \A k \in 1 .. said' : \/ k \in 1 .. said /\ k \notin Among(buffer)
                           \/ k \in Among(buffer') \/ Brings(Among(todo'), k)
  BY <1>5, <1>7
<1>10. Carried
  BY <1>1, <1>2, <1>7, <1>9 DEF Carried
<1> QED BY <1>1, <1>2, <1>8, <1>10, CarriedOn

LEMMA StopBrings ==
  ASSUME Listens, MessageStop
  PROVE  NothingLost'
<1>1. /\ lead.block = << >> /\ lead' = [lead EXCEPT !.open = FALSE]
      /\ todo' = ClosesMessage /\ opened' = FALSE /\ buffer' = (IF opened THEN << >> ELSE buffer)
      /\ said' = said /\ partial' = partial /\ flushed' = flushed
      /\ tasks' = tasks /\ active' = active /\ begun' = begun /\ phase' = phase
  BY DEF MessageStop, governorVars, ClosesMessage
<1>2. /\ phase = "streaming" /\ streams' = streams /\ StreamTypes /\ (~streams => ~partial)
      /\ (buffer # << >> => opened)
  BY ListensTo DEF AllKept
<1>3. buffer' = << >> /\ << >> \in Seq(Nat) /\ buffer \in Seq(Nat) /\ opened \in BOOLEAN
  BY <1>1, <1>2 DEF StreamTypes
<1>4. lead' = [open |-> FALSE, block |-> << >>] /\ lead'.open = FALSE /\ lead'.block = << >>
  BY <1>1, <1>2 DEF StreamTypes
<1>5. /\ todo' \in Seq(Event) /\ \A n \in Among(buffer) : Brings(Among(todo'), n)
      /\ \A t : ~StartsIn(Among(todo'), t)
  BY <1>1, <1>2, <1>3, CloseBrings
<1>6. StreamTypes'
  BY <1>1, <1>2, <1>3, <1>4, <1>5 DEF StreamTypes
<1>7. Carried
  BY <1>1, <1>2, <1>3, <1>4, <1>5 DEF Carried
<1> QED BY <1>1, <1>2, <1>6, <1>7, CarriedOn

LEMMA LeadBrings ==
  ASSUME Listens, LeadText
  PROVE  NothingLost'
<1>1. /\ lead' = [lead EXCEPT !.block = << >>]
      /\ tasks' = tasks /\ active' = active /\ begun' = begun /\ phase' = phase
      /\ \/ said' = said /\ AssistantText(lead.block, << >>)
         \/ ~streams /\ said' = said + 1 /\ AssistantText(<<said + 1>>, << >>)
  BY DEF LeadText, governorVars
<1>2. /\ phase = "streaming" /\ streams' = streams /\ StreamTypes /\ (~streams => ~partial /\ ~lead.open)
  BY ListensTo DEF AllKept
<1>3. said \in Nat /\ said + 1 \in Nat /\ lead.block \in Seq(Nat) /\ <<said + 1>> \in Seq(Nat)
      /\ << >> \in Seq(Nat)
  BY <1>2 DEF StreamTypes
<1>4. lead' = [open |-> lead.open, block |-> << >>] /\ lead'.open = lead.open /\ lead'.block = << >>
  BY <1>1, <1>2 DEF StreamTypes
<1>5. /\ buffer' \in Seq(Nat) /\ opened' = opened /\ flushed' = flushed /\ partial' = FALSE
      /\ todo' \in Seq(Event) /\ (buffer' # << >> => opened')
      /\ \A n \in Among(buffer) : n \in Among(buffer') \/ Brings(Among(todo'), n)
      /\ \A t : ~StartsIn(Among(todo'), t) 
      /\ said' \in Nat /\ \A n \in 1 .. said' : n \in 1 .. said \/ Brings(Among(todo'), n)
  <2>1. CASE said' = said /\ AssistantText(lead.block, << >>)
    BY <1>3, <2>1, WholeBrings
  <2>2. CASE ~streams /\ said' = said + 1 /\ AssistantText(<<said + 1>>, << >>)
    <3>1. Brings(Among(todo'), said + 1)
      <4>1. \A n \in Among(<<said + 1>>) : Brings(Among(todo'), n)
        BY <1>2, <1>3, <2>2, WholeBrings
      <4> QED BY <4>1, AmongOne
    <3>2. \A n \in 1 .. said + 1 : n \in 1 .. said \/ n = said + 1
      BY <1>3
    <3>3. \A n \in 1 .. said' : n \in 1 .. said \/ Brings(Among(todo'), n)
      BY <2>2, <3>1, <3>2
    <3> QED BY <1>3, <2>2, <3>3, WholeBrings
  <2> QED BY <1>1, <2>1, <2>2
<1>6. StreamTypes'
  BY <1>1, <1>2, <1>3, <1>4, <1>5 DEF StreamTypes
<1>7. Carried
  BY <1>1, <1>2, <1>4, <1>5 DEF Carried
<1> QED BY <1>1, <1>2, <1>6, <1>7, CarriedOn

(* A whole message without text of the lead                                   *)
LEMMA QuietBrings ==
  ASSUME Listens, AssistantText(<< >>, << >>), lead' = lead, said' = said, phase' = phase,
         active' = active, begun' = begun, WatchTypes'
  PROVE  NothingLost'
<1>1. /\ phase = "streaming" /\ streams' = streams /\ StreamTypes /\ (~streams => ~lead.open)
  BY ListensTo DEF AllKept
<1>2. << >> \in Seq(Nat)
  OBVIOUS
<1>3. /\ buffer' \in Seq(Nat) /\ opened' = opened /\ flushed' = flushed /\ partial' = FALSE
      /\ todo' \in Seq(Event) /\ (buffer' # << >> => opened')
      /\ \A n \in Among(buffer) : n \in Among(buffer') \/ Brings(Among(todo'), n)
      /\ \A t : ~StartsIn(Among(todo'), t)
  BY <1>2, WholeBrings
<1>4. StreamTypes'
  BY <1>1, <1>3 DEF StreamTypes, WatchTypes
<1>5. Carried
  BY <1>1, <1>3 DEF Carried
<1> QED BY <1>1, <1>4, <1>5, CarriedOn

(* A message about the tasks                                                  *)
LEMMA WatchBrings ==
  ASSUME Listens, lead' = lead, said' = said, UNCHANGED textVars, WatchTypes',
         begun' \subseteq Subagent, active' \subseteq begun', todo' \in Seq(Event),
         phase' \in {"streaming", "raised"},
         phase' = "streaming" =>
           \A t \in Subagent : t \in active \/ StartsIn(Among(todo'), t) =>
                               t \in active' \/ EndsIn(Among(todo'), t)
  PROVE  NothingLost'
<1>1. /\ phase = "streaming" /\ streams' = streams /\ StreamTypes /\ (~streams => ~lead.open /\ ~partial)
      /\ (buffer # << >> => opened)
  BY ListensTo DEF AllKept
<1>2. opened' = opened /\ partial' = partial /\ flushed' = flushed /\ buffer' = buffer
  BY DEF textVars
<1>3. StreamTypes'
  BY <1>1, <1>2 DEF StreamTypes, WatchTypes
<1>4. phase' = "streaming" => Carried
  BY <1>1, <1>2 DEF Carried
<1> QED BY <1>3, <1>4, CarriedOn

LEMMA StartedBrings ==
  ASSUME Listens, NEW t \in Subagent, TaskStarted(t)
  PROVE  NothingLost'
<1>1. /\ tasks' = [tasks EXCEPT ![t] = "running"]
      /\ \/ Raise /\ active' = active /\ begun \subseteq begun' /\ begun' \subseteq begun \cup {t}
         \/ /\ begun' = begun \cup {t} /\ active' = active \cup {t} /\ todo' = <<Began(t)>> /\ phase' = phase
      /\ lead' = lead /\ said' = said /\ UNCHANGED textVars
  BY DEF TaskStarted
<1>2. WatchTypes /\ begun \subseteq Subagent /\ active \subseteq begun /\ phase = "streaming"
  BY ListensTo DEF StreamTypes, WatchTypes
<1>3. WatchTypes'
  BY <1>1, <1>2 DEF WatchTypes
<1>4. begun' \subseteq Subagent /\ active' \subseteq begun'
  BY <1>1, <1>2
<1>5. Began(t) \in Event /\ Began(t).type = "subagent.started" /\ Began(t).tasks = {t}
      /\ << >> \in Seq(Event)
  BY EventsAre
<1>6. CASE Raise
  BY <1>1, <1>3, <1>4, <1>5, <1>6, WatchBrings DEF Raise
<1>7. CASE begun' = begun \cup {t} /\ active' = active \cup {t} /\ todo' = <<Began(t)>> /\ phase' = phase
  <2>1. \A u : StartsIn(Among(todo'), u) => u = t
    BY <1>5, <1>7, AmongOne DEF StartsIn
  <2> QED BY <1>1, <1>2, <1>3, <1>4, <1>5, <1>7, <2>1, WatchBrings
<1> QED BY <1>1, <1>6, <1>7

LEMMA ProgressBrings ==
  ASSUME Listens, NEW t \in Subagent, TaskProgress(t)
  PROVE  NothingLost'
<1>1. /\ tasks' = [tasks EXCEPT ![t] = "running"]
      /\ \/ Raise /\ active' = active /\ begun' = begun
         \/ /\ active \subseteq active' /\ active' \subseteq active \cup {t}
            /\ begun \cup active' = begun' /\ todo' = todo /\ phase' = phase
      /\ lead' = lead /\ said' = said /\ UNCHANGED textVars
  <2>1. active \subseteq begun
    BY ListensTo DEF StreamTypes
  <2> QED BY <2>1 DEF TaskProgress
<1>2. WatchTypes /\ begun \subseteq Subagent /\ active \subseteq begun /\ phase = "streaming" /\ todo = << >>
  BY ListensTo DEF StreamTypes, WatchTypes
<1>3. WatchTypes'
  BY <1>1, <1>2 DEF WatchTypes
<1>4. begun' \subseteq Subagent /\ active' \subseteq begun' /\ << >> \in Seq(Event)
  BY <1>1, <1>2
<1>5. \A u : ~StartsIn(Among(<< >>), u)
  BY AmongNone DEF StartsIn
<1>6. CASE Raise
  BY <1>1, <1>3, <1>4, <1>6, WatchBrings DEF Raise
<1>7. CASE active \subseteq active' /\ todo' = todo /\ phase' = phase
  BY <1>1, <1>2, <1>3, <1>4, <1>5, <1>7, WatchBrings
<1> QED BY <1>1, <1>6, <1>7

LEMMA UpdatedBrings ==
  ASSUME Listens, NEW t \in Subagent, TaskUpdated(t)
  PROVE  NothingLost'
<1>1. /\ tasks' = [tasks EXCEPT ![t] = IF @ = "running" THEN "updated" ELSE "over"]
      /\ active' = active /\ begun' = begun /\ todo' = todo /\ phase' = phase
      /\ lead' = lead /\ said' = said /\ UNCHANGED textVars
  BY DEF TaskUpdated
<1>2. WatchTypes /\ begun \subseteq Subagent /\ active \subseteq begun /\ phase = "streaming" /\ todo = << >>
  BY ListensTo DEF StreamTypes, WatchTypes
<1>3. WatchTypes'
  BY <1>1, <1>2 DEF WatchTypes
<1>4. << >> \in Seq(Event) /\ \A u : ~StartsIn(Among(<< >>), u)
  BY AmongNone DEF StartsIn
<1> QED BY <1>1, <1>2, <1>3, <1>4, WatchBrings

LEMMA NotifiedBrings ==
  ASSUME Listens, NEW t \in Subagent, Notified(t)
  PROVE  NothingLost'
<1>1. /\ \/ Raise /\ active' = active /\ begun' = begun
         \/ /\ todo' = <<SubagentEnded({t})>> /\ active' = active \ {t} /\ begun' = begun \cup {t}
            /\ phase' = phase
      /\ tasks' = [tasks EXCEPT ![t] = IF @ = "running" THEN "notified" ELSE "over"]
      /\ lead' = lead /\ said' = said /\ UNCHANGED textVars
  BY DEF Notified, TaskNotification
<1>2. WatchTypes /\ begun \subseteq Subagent /\ active \subseteq begun /\ phase = "streaming"
  BY ListensTo DEF StreamTypes, WatchTypes
<1>3. WatchTypes'
  BY <1>1, <1>2 DEF WatchTypes
<1>4. begun' \subseteq Subagent /\ active' \subseteq begun' /\ << >> \in Seq(Event)
  BY <1>1, <1>2
<1>5. CASE Raise
  BY <1>1, <1>3, <1>4, <1>5, WatchBrings DEF Raise
<1>6. CASE todo' = <<SubagentEnded({t})>> /\ active' = active \ {t} /\ phase' = phase
  <2>1. /\ SubagentEnded({t}) \in Event /\ SubagentEnded({t}).type = "subagent.ended"
        /\ SubagentEnded({t}).tasks = {t}
    BY EventsAre
  <2>2. EndsIn(Among(todo'), t) /\ todo' \in Seq(Event) /\ \A u : ~StartsIn(Among(todo'), u)
    BY <1>6, <2>1, AmongOne DEF EndsIn, StartsIn
  <2> QED BY <1>1, <1>2, <1>3, <1>4, <1>6, <2>2, WatchBrings
<1> QED BY <1>1, <1>5, <1>6

(* Every subagent at work is ended, and the message that is open is closed.   *)
LEMMA LastBrings ==
  ASSUME Listens, NEW a \in Seq(Event), NEW b \in Seq(Event), NEW c \in Seq(Event),
         {a, b, c} = {ClosesMessage, Some(SubagentEnded(active \ ending)),
                      Some(SubagentEnded(ending \cap active))},
         todo' = (a \o b) \o c
  PROVE  /\ todo' \in Seq(Event) /\ \A n \in Among(buffer) : Brings(Among(todo'), n)
         /\ \A t \in active : EndsIn(Among(todo'), t)
         /\ \A t : ~StartsIn(Among(todo'), t)
<1> DEFINE rest == Some(SubagentEnded(active \ ending))
           waiting == Some(SubagentEnded(ending \cap active))
<1>1. a \o b \in Seq(Event) /\ Among(a \o b) = Among(a) \cup Among(b)
  BY AmongBoth
<1>2. PICK d \in Seq(Event) : d = a \o b
  BY <1>1
<1>3. d \o c \in Seq(Event) /\ Among(d \o c) = Among(d) \cup Among(c)
  BY AmongBoth
<1>4. /\ todo' \in Seq(Event)
      /\ Among(todo') = UNION {Among(s) : s \in {a, b, c}}
  BY <1>1, <1>2, <1>3
<1>5. buffer \in Seq(Nat) /\ opened \in BOOLEAN /\ (buffer # << >> => opened) /\ active \subseteq Subagent
  BY ListensTo DEF StreamTypes, AllKept
<1>6. /\ \A n \in Among(buffer) : Brings(Among(ClosesMessage), n)
      /\ \A t : ~StartsIn(Among(ClosesMessage), t)
  BY <1>5, CloseBrings
<1>7. active \ ending \in SUBSET Subagent /\ ending \cap active \in SUBSET Subagent
  BY <1>5
<1>8. /\ \A t \in active \ ending : EndsIn(Among(rest), t)
      /\ \A t \in ending \cap active : EndsIn(Among(waiting), t)
      /\ \A t : ~StartsIn(Among(rest), t) /\ ~StartsIn(Among(waiting), t)
  BY <1>7, EndBrings
<1> HIDE DEF rest, waiting
<1>9. {a, b, c} = {ClosesMessage, rest, waiting}
  BY DEF rest, waiting
<1>10. \A e : e \in Among(todo') <=> e \in Among(ClosesMessage) \/ e \in Among(rest) \/ e \in Among(waiting)
  BY <1>4, <1>9
<1> QED BY <1>4, <1>6, <1>8, <1>10 DEF Brings, StartsIn, EndsIn

LEMMA RaiseBrings ==
  ASSUME Listens, Raise, WatchTypes', said' = said, UNCHANGED textVars,
         lead' = [open |-> lead'.open, block |-> lead'.block], lead'.open \in BOOLEAN,
         lead'.block \in Seq(Nat), active' = active, begun' = begun
  PROVE  NothingLost'
<1>1. phase' = "raised" /\ todo' = << >> /\ << >> \in Seq(Event)
  BY DEF Raise
<1>2. StreamTypes /\ streams' = streams
  BY ListensTo
<1>3. StreamTypes'
  BY <1>1, <1>2 DEF StreamTypes, WatchTypes, textVars
<1> QED BY <1>1, <1>3, CarriedOn

(* The last events of a turn or of the stream                                 *)
LEMMA TurnBrings ==
  ASSUME Listens, opened' = FALSE, active' = {}, begun' = begun,
         buffer' = (IF opened THEN << >> ELSE buffer), said' = said, partial' = partial,
         flushed' = flushed, WatchTypes', lead'.block \in Seq(Nat), lead'.open \in BOOLEAN,
         lead' = [open |-> lead'.open, block |-> lead'.block],
         ~streams => ~lead'.open, phase' \in {"streaming", "returned"},
         todo' \in Seq(Event), \A n \in Among(buffer) : Brings(Among(todo'), n),
         \A t \in active : EndsIn(Among(todo'), t), \A t : ~StartsIn(Among(todo'), t)
  PROVE  NothingLost'
<1>1. StreamTypes /\ streams' = streams /\ (~streams => ~partial) /\ (buffer # << >> => opened)
  BY ListensTo DEF AllKept
<1>2. buffer' = << >> /\ << >> \in Seq(Nat)
  BY <1>1
<1>3. StreamTypes'
  BY <1>1, <1>2 DEF StreamTypes, WatchTypes
<1>4. Carried
  BY <1>1, <1>2 DEF Carried
<1> QED BY <1>3, <1>4, CarriedOn

LEMMA ResultBrings ==
  ASSUME Listens, Result
  PROVE  NothingLost'
<1> DEFINE rest == Some(SubagentEnded(active \ ending))
           waiting == Some(SubagentEnded(ending \cap active))
<1>1. /\ lead' = [open |-> FALSE, block |-> << >>]
      /\ tasks' = [t \in Subagent |-> IF tasks[t] # "none" /\ ~background THEN "over" ELSE tasks[t]]
      /\ said' = said /\ partial' = partial /\ flushed' = flushed /\ begun' = begun
      /\ \/ Raise /\ opened' = opened /\ buffer' = buffer /\ active' = active
         \/ /\ todo' = (ClosesMessage \o rest) \o waiting
            /\ opened' = FALSE /\ buffer' = (IF opened THEN << >> ELSE buffer)
            /\ active' = {} /\ phase' \in {phase, "returned"}
  BY DEF Result, ClosesMessage, FailUnfinished
<1>2. lead'.open = FALSE /\ lead'.block = << >> /\ << >> \in Seq(Nat)
  BY <1>1
<1>3. WatchTypes /\ phase = "streaming" /\ active \subseteq Subagent /\ buffer \in Seq(Nat) /\ opened \in BOOLEAN
      /\ (buffer # << >> => opened)
  BY ListensTo DEF StreamTypes, WatchTypes, AllKept
<1>4. WatchTypes'
  BY <1>1, <1>3 DEF WatchTypes
<1>5. CASE Raise /\ opened' = opened /\ buffer' = buffer /\ active' = active
  BY <1>1, <1>2, <1>4, <1>5, RaiseBrings DEF textVars
<1>6. CASE /\ todo' = (ClosesMessage \o rest) \o waiting
           /\ opened' = FALSE /\ buffer' = (IF opened THEN << >> ELSE buffer)
           /\ active' = {} /\ phase' \in {phase, "returned"}
  <2>1. ClosesMessage \in Seq(Event) /\ rest \in Seq(Event) /\ waiting \in Seq(Event)
    BY <1>3, CloseBrings, EndBrings
  <2>2. {ClosesMessage, rest, waiting} = {ClosesMessage, rest, waiting}
    OBVIOUS
  <2>3. /\ todo' \in Seq(Event) /\ \A n \in Among(buffer) : Brings(Among(todo'), n)
        /\ \A t \in active : EndsIn(Among(todo'), t)
        /\ \A t : ~StartsIn(Among(todo'), t)
    BY <1>6, <2>1, <2>2, LastBrings
  <2>4. phase' \in {"streaming", "returned"}
    BY <1>3, <1>6
  <2> QED BY <1>1, <1>2, <1>4, <1>6, <2>3, <2>4, TurnBrings
<1> QED BY <1>1, <1>5, <1>6

LEMMA StreamEndBrings ==
  ASSUME Listens, StreamEnds
  PROVE  NothingLost'
<1> DEFINE rest == Some(SubagentEnded(active \ ending))
           waiting == Some(SubagentEnded(ending \cap active))
<1>1. /\ lead' = lead /\ tasks' = tasks
      /\ said' = said /\ partial' = partial /\ flushed' = flushed /\ begun' = begun
      /\ \/ Raise /\ opened' = opened /\ buffer' = buffer /\ active' = active
         \/ /\ todo' = (waiting \o rest) \o ClosesMessage
            /\ opened' = FALSE /\ buffer' = (IF opened THEN << >> ELSE buffer)
            /\ active' = {} /\ phase' = "returned"
  BY DEF StreamEnds, ClosesMessage, FailUnfinished
<1>2. /\ lead = [open |-> lead.open, block |-> lead.block] /\ lead.open \in BOOLEAN /\ lead.block \in Seq(Nat)
      /\ WatchTypes /\ active \subseteq Subagent /\ buffer \in Seq(Nat) /\ opened \in BOOLEAN
      /\ (buffer # << >> => opened) /\ (~streams => ~lead.open)
  BY ListensTo DEF StreamTypes, WatchTypes, AllKept
<1>3. WatchTypes'
  BY <1>1, <1>2 DEF WatchTypes
<1>4. /\ lead' = [open |-> lead'.open, block |-> lead'.block] /\ lead'.open \in BOOLEAN
      /\ lead'.block \in Seq(Nat) /\ (~streams => ~lead'.open)
  BY <1>1, <1>2
<1>5. CASE Raise /\ opened' = opened /\ buffer' = buffer /\ active' = active
  BY <1>1, <1>3, <1>4, <1>5, RaiseBrings DEF textVars
<1>6. CASE /\ todo' = (waiting \o rest) \o ClosesMessage
           /\ opened' = FALSE /\ buffer' = (IF opened THEN << >> ELSE buffer)
           /\ active' = {} /\ phase' = "returned"
  <2>1. ClosesMessage \in Seq(Event) /\ rest \in Seq(Event) /\ waiting \in Seq(Event)
    BY <1>2, CloseBrings, EndBrings
  <2>2. {waiting, rest, ClosesMessage} = {ClosesMessage, rest, waiting}
    OBVIOUS
  <2>3. /\ todo' \in Seq(Event) /\ \A n \in Among(buffer) : Brings(Among(todo'), n)
        /\ \A t \in active : EndsIn(Among(todo'), t)
        /\ \A t : ~StartsIn(Among(todo'), t)
    BY <1>6, <2>1, <2>2, LastBrings
  <2> QED BY <1>1, <1>3, <1>4, <1>6, <2>3, TurnBrings
<1> QED BY <1>1, <1>5, <1>6

LEMMA YieldBrings ==
  ASSUME NothingLost, Yield
  PROVE  NothingLost'
<1>1. /\ phase \in {"streaming", "returned"} /\ todo # << >>
      /\ log' = Logged(Head(todo)) /\ todo' = Tail(todo)
      /\ streams' = streams /\ lead' = lead /\ said' = said /\ tasks' = tasks
      /\ opened' = opened /\ partial' = partial /\ buffer' = buffer /\ flushed' = flushed
      /\ active' = active /\ begun' = begun /\ phase' = phase
  BY DEF Yield, sdkVars, textVars, governorVars
<1>2. StreamTypes /\ LogShape /\ AllKept /\ todo \in Seq(Event)
  BY <1>1 DEF NothingLost, StreamTypes
<1>3. PICK e \in Event : e = Head(todo) /\ Among(todo) = {e} \cup Among(todo')
  BY <1>1, <1>2, AmongHead
<1>4. todo' \in Seq(Event)
  BY <1>1, <1>2, AmongHead
<1>5. /\ log = [text |-> log.text, bracket |-> log.bracket, started |-> log.started, ended |-> log.ended]
      /\ log.text \in Seq(Nat) /\ log.started \subseteq Subagent /\ log.ended \in [Subagent -> Nat]
      /\ e.text \in Seq(Nat) /\ e.tasks \subseteq Subagent
      /\ e.type \in {"start", "completed", "delta", "subagent.started", "subagent.ended"}
  BY <1>2 DEF LogShape, Event
<1>6. /\ LogShape' /\ Among(log.text) \subseteq Among(log'.text)
      /\ e.type = "delta" => Among(e.text) \subseteq Among(log'.text)
      /\ log'.started = log.started \cup (IF e.type = "subagent.started" THEN e.tasks ELSE {})
      /\ \A t \in Subagent : log'.ended[t] >= log.ended[t]
      /\ e.type = "subagent.ended" => \A t \in e.tasks : log'.ended[t] > 0
  <2>1. CASE e.type = "delta"
    <3> DEFINE text == log.text \o e.text
    <3>1. text \in Seq(Nat) /\ Among(text) = Among(log.text) \cup Among(e.text)
      BY <1>5, AmongBoth
    <3> HIDE DEF text
    <3>2. PICK mark : log' = [text |-> text, bracket |-> mark, started |-> log.started, ended |-> log.ended]
      BY <1>1, <1>3, <1>5, <2>1 DEF Logged, text
    <3>3. LogShape' /\ log'.text = text /\ log'.started = log.started /\ log'.ended = log.ended
      BY <1>5, <3>1, <3>2 DEF LogShape
    <3> QED BY <1>5, <2>1, <3>1, <3>3
  <2>2. CASE e.type = "subagent.ended"
    <3> DEFINE ends == [t \in Subagent |-> log.ended[t] + IF t \in e.tasks THEN 1 ELSE 0]
    <3>1. log' = [text |-> log.text, bracket |-> log.bracket, started |-> log.started, ended |-> ends]
      BY <1>1, <1>3, <1>5, <2>2 DEF Logged
    <3>2. \A t \in Subagent : ends[t] \in Nat /\ ends[t] >= log.ended[t] /\ (t \in e.tasks => ends[t] > 0)
      BY <1>5
    <3>3. ends \in [Subagent -> Nat]
      BY <3>2
    <3> HIDE DEF ends
    <3>4. LogShape' /\ log'.text = log.text /\ log'.started = log.started /\ log'.ended = ends
      BY <1>5, <3>1, <3>3 DEF LogShape
    <3> QED BY <1>5, <2>2, <3>2, <3>4
  <2>3. CASE e.type \in {"start", "completed", "subagent.started"}
    <3>1. PICK mark : log' = [text |-> log.text, bracket |-> mark,
                              started |-> log.started \cup (IF e.type = "subagent.started" THEN e.tasks ELSE {}),
                              ended |-> log.ended]
      BY <1>1, <1>3, <1>5, <2>3 DEF Logged
    <3>2. /\ LogShape' /\ log'.text = log.text /\ log'.ended = log.ended
          /\ log'.started = log.started \cup (IF e.type = "subagent.started" THEN e.tasks ELSE {})
      BY <1>5, <3>1 DEF LogShape
    <3> QED BY <1>5, <2>3, <3>2
  <2> QED BY <1>5, <2>1, <2>2, <2>3
<1>7. StreamTypes'
  BY <1>1, <1>2, <1>4 DEF StreamTypes
<1>8. ASSUME NEW n \in 1 .. said'
      PROVE  n \in Among(log'.text) \/ n \in Among(buffer') \/ Brings(Among(todo'), n)
  <2>1. n \in Among(log.text) \/ n \in Among(buffer) \/ Brings(Among(todo), n)
    BY <1>1, <1>2 DEF AllKept
  <2>2. Brings(Among(todo), n) => n \in Among(log'.text) \/ Brings(Among(todo'), n)
    BY <1>3, <1>6 DEF Brings
  <2> QED BY <1>1, <1>6, <2>1, <2>2
<1>9. ASSUME NEW t \in Subagent, t \in log'.started \/ StartsIn(Among(todo'), t)
      PROVE  t \in active' \/ log'.ended[t] > 0 \/ EndsIn(Among(todo'), t)
  <2>1. t \in log.started \/ StartsIn(Among(todo), t)
    BY <1>3, <1>6, <1>9 DEF StartsIn
  <2>2. t \in active \/ log.ended[t] > 0 \/ EndsIn(Among(todo), t)
    BY <1>2, <2>1 DEF AllKept
  <2>3. EndsIn(Among(todo), t) => log'.ended[t] > 0 \/ EndsIn(Among(todo'), t)
    BY <1>3, <1>6 DEF EndsIn
  <2>4. log.ended[t] > 0 => log'.ended[t] > 0
    <3>1. log.ended[t] \in Nat /\ log'.ended[t] \in Nat /\ log'.ended[t] >= log.ended[t]
      BY <1>5, <1>6 DEF LogShape
    <3> QED BY <3>1
  <2> QED BY <1>1, <2>2, <2>3, <2>4
<1>10. AllKept'
  BY <1>1, <1>2, <1>8, <1>9 DEF AllKept
<1> QED BY <1>1, <1>6, <1>7, <1>10 DEF NothingLost

LEMMA FailActiveBrings ==
  ASSUME NothingLost, FailActiveSubagents
  PROVE  NothingLost'
<1> DEFINE ts == {t \in log.started : log.ended[t] = 0}
           ends == [t \in Subagent |-> log.ended[t] + IF t \in ts THEN 1 ELSE 0]
<1>1. /\ streams' = streams /\ lead' = lead /\ said' = said /\ tasks' = tasks
      /\ opened' = opened /\ partial' = partial /\ buffer' = buffer /\ flushed' = flushed
      /\ active' = active /\ begun' = begun /\ phase' = "closed" /\ todo' = todo
      /\ log' = Logged(SubagentEnded(ts))
  BY DEF FailActiveSubagents, sdkVars, textVars, governorVars
<1>2. StreamTypes'
  BY <1>1 DEF NothingLost, StreamTypes
<1>3. /\ log = [text |-> log.text, bracket |-> log.bracket, started |-> log.started, ended |-> log.ended]
      /\ log.text \in Seq(Nat) /\ log.started \subseteq Subagent /\ log.ended \in [Subagent -> Nat]
  BY DEF NothingLost, LogShape
<1>4. ts \in SUBSET Subagent
  BY <1>3
<1>5. \A t \in Subagent : ends[t] \in Nat /\ (t \in log.started => ends[t] > 0)
  BY <1>3
<1>6. ends \in [Subagent -> Nat]
  BY <1>5
<1>7. SubagentEnded(ts).type = "subagent.ended" /\ SubagentEnded(ts).tasks = ts
  BY <1>4, EventsAre
<1>8. log' = [text |-> log.text, bracket |-> log.bracket, started |-> log.started, ended |-> ends]
  <2> HIDE DEF ts
  <2> QED BY <1>1, <1>3, <1>7 DEF Logged
<1> HIDE DEF ts, ends
<1>9. LogShape' /\ log'.started = log.started /\ log'.ended = ends
  BY <1>3, <1>6, <1>8 DEF LogShape
<1> QED BY <1>1, <1>2, <1>3, <1>5, <1>9 DEF NothingLost

LEMMA RaisesBrings ==
  ASSUME NothingLost, StreamRaises
  PROVE  NothingLost'
<1>1. /\ streams' = streams /\ lead' = lead /\ said' = said /\ tasks' = tasks
      /\ opened' = opened /\ partial' = partial /\ buffer' = buffer /\ flushed' = flushed
      /\ active' = active /\ begun' = begun /\ phase' = "raised" /\ log' = log /\ todo' = << >>
      /\ << >> \in Seq(Event)
  BY DEF StreamRaises, Raise, sdkVars, textVars, governorVars
<1>2. StreamTypes' /\ LogShape'
  BY <1>1 DEF NothingLost, StreamTypes, LogShape
<1> QED BY <1>1, <1>2 DEF NothingLost

LEMMA NothingLostStep ==
  ASSUME NothingLost, [StreamNext]_streamVars
  PROVE  NothingLost'
<1>1. CASE UNCHANGED streamVars
  <2>1. /\ streams' = streams /\ lead' = lead /\ said' = said /\ tasks' = tasks
        /\ opened' = opened /\ partial' = partial /\ buffer' = buffer /\ flushed' = flushed
        /\ active' = active /\ begun' = begun /\ phase' = phase /\ log' = log /\ todo' = todo
    BY <1>1 DEF streamVars, sdkVars, textVars, governorVars
  <2>2. StreamTypes' /\ LogShape' /\ (AllKept => AllKept')
    BY <2>1 DEF NothingLost, StreamTypes, LogShape, AllKept
  <2> QED BY <2>1, <2>2 DEF NothingLost
<1>2. CASE Yield
  BY <1>2, YieldBrings
<1>3. CASE StreamRaises
  BY <1>3, RaisesBrings
<1>4. CASE FailActiveSubagents
  BY <1>4, FailActiveBrings
<1>5. CASE (\E stray : Hears(stray)) /\ StreamNext
  <2>1. Listens
    BY <1>5 DEF Listens
  <2>2. CASE MessageStart
    BY <2>1, <2>2, StartBrings
  <2>3. CASE TextDelta
    BY <2>1, <2>3, DeltaBrings
  <2>4. CASE MessageStop
    BY <2>1, <2>4, StopBrings
  <2>5. CASE LeadText
    BY <2>1, <2>5, LeadBrings
  <2>6. CASE Result
    BY <2>1, <2>6, ResultBrings
  <2>7. CASE StreamEnds
    BY <2>1, <2>7, StreamEndBrings
  <2>8. ASSUME NEW t \in Subagent, SubagentText(t) PROVE NothingLost'
    <3>1. /\ AssistantText(<< >>, << >>) /\ lead' = lead /\ said' = said /\ phase' = phase
          /\ active' = active /\ begun' = begun /\ tasks' = tasks
      BY <2>8 DEF SubagentText, governorVars
    <3>2. WatchTypes'
      BY <2>1, <3>1, ListensTo DEF StreamTypes, WatchTypes
    <3> QED BY <2>1, <3>1, <3>2, QuietBrings
  <2>9. ASSUME NEW t \in Subagent, Delegate(t) PROVE NothingLost'
    <3>1. /\ AssistantText(<< >>, << >>) /\ lead' = lead /\ said' = said /\ phase' = phase
          /\ active' = active /\ begun' = begun /\ tasks' = [tasks EXCEPT ![t] = "asked"]
      BY <2>9 DEF Delegate
    <3>2. WatchTypes
      BY <2>1, ListensTo DEF StreamTypes, WatchTypes
    <3>3. WatchTypes'
      BY <3>1, <3>2 DEF WatchTypes
    <3> QED BY <2>1, <3>1, <3>3, QuietBrings
  <2>10. ASSUME NEW t \in Subagent, TaskStarted(t) PROVE NothingLost'
    BY <2>1, <2>10, StartedBrings
  <2>11. ASSUME NEW t \in Subagent, TaskProgress(t) PROVE NothingLost'
    BY <2>1, <2>11, ProgressBrings
  <2>12. ASSUME NEW t \in Subagent, TaskUpdated(t) PROVE NothingLost'
    BY <2>1, <2>12, UpdatedBrings
  <2>13. ASSUME NEW t \in Subagent, Notified(t) PROVE NothingLost'
    BY <2>1, <2>13, NotifiedBrings
  <2> QED BY <1>2, <1>3, <1>4, <1>5, <2>2, <2>3, <2>4, <2>5, <2>6, <2>7, <2>8, <2>9, <2>10, <2>11,
             <2>12, <2>13 DEF StreamNext
<1>6. StreamNext => \/ Yield \/ StreamRaises \/ FailActiveSubagents \/ \E stray : Hears(stray)
  BY DEF StreamNext, Receives, MessageStart, TextDelta, MessageStop, LeadText, SubagentText, Delegate,
         TaskStarted, TaskProgress, TaskUpdated, Notified, Result, StreamEnds
<1> QED BY <1>1, <1>2, <1>3, <1>4, <1>5, <1>6

(* The account of the stream: exact until a subagent is heard out of its      *)
(* turn, which only those in the background are, and complete in any case.    *)
StreamAccount == NothingLost /\ (~astray => StreamInv) /\ OnlyBackgroundStrays

LEMMA StreamAccountInit == StreamInit => StreamAccount
<1>1. StreamInit => OnlyBackgroundStrays
  BY DEF StreamInit, OnlyBackgroundStrays
<1> QED BY <1>1, StreamInitInv, NothingLostInit DEF StreamAccount

LEMMA StrayInBackground ==
  ASSUME StreamInv, StreamNext, ~astray, ~background
  PROVE  ~astray' /\ ~background'
<1>1. ASSUME Receives PROVE ~astray' /\ ~background'
  BY <1>1 DEF Receives, Hears
<1>2. ASSUME Yield \/ StreamRaises \/ FailActiveSubagents PROVE ~astray' /\ ~background'
  BY <1>2 DEF Yield, StreamRaises, FailActiveSubagents, sdkVars
<1>3. ASSUME NEW stray, Hears(stray), ~stray PROVE ~astray' /\ ~background'
  BY <1>3 DEF Hears
<1>4. phase = "streaming" => TasksHold /\ BufferHolds
  BY DEF StreamInv
<1>5. ASSUME NEW t \in Subagent, SubagentText(t) PROVE ~astray' /\ ~background'
  <2>1. Hears(lead.block # << >>) /\ TasksMayRun /\ phase = "streaming"
    BY <1>5 DEF SubagentText, Hears
  <2>2. lead.block = << >>
    BY <1>4, <2>1 DEF TasksMayRun, BufferHolds
  <2> QED BY <2>1, <2>2 DEF Hears
<1>6. ASSUME NEW t \in Subagent, TaskProgress(t) \/ Notified(t) PROVE ~astray' /\ ~background'
  <2>1. Hears(WasEnded(t)) /\ phase = "streaming" /\ tasks[t] \in {"asked", "running", "updated"}
    BY <1>6 DEF TaskProgress, Notified, TaskNotification, Hears
  <2>2. ~WasEnded(t)
    BY <1>4, <2>1 DEF TasksHold, WasEnded
  <2> QED BY <2>1, <2>2 DEF Hears
<1>7. \/ Receives \/ Yield \/ StreamRaises \/ FailActiveSubagents
      \/ \E t \in Subagent : SubagentText(t) \/ TaskProgress(t) \/ Notified(t)
  BY DEF StreamNext, MessageStart, TextDelta, MessageStop, LeadText, Delegate, TaskStarted, TaskUpdated,
         Result, StreamEnds
<1> QED BY <1>1, <1>2, <1>5, <1>6, <1>7

LEMMA StreamAccountStep ==
  ASSUME StreamAccount, [StreamNext]_streamVars
  PROVE  StreamAccount'
<1>1. NothingLost'
  BY NothingLostStep DEF StreamAccount
<1>2. background' = background /\ (astray => astray')
  <2>1. ASSUME NEW stray, Hears(stray) PROVE background' = background /\ (astray => astray')
    BY <2>1 DEF Hears
  <2>2. ASSUME Yield \/ StreamRaises \/ FailActiveSubagents \/ UNCHANGED streamVars
        PROVE  background' = background /\ (astray => astray')
    BY <2>2 DEF Yield, StreamRaises, FailActiveSubagents, sdkVars, streamVars
  <2>3. StreamNext => \/ Yield \/ StreamRaises \/ FailActiveSubagents \/ \E stray : Hears(stray)
    BY DEF StreamNext, Receives, MessageStart, TextDelta, MessageStop, LeadText, SubagentText, Delegate,
           TaskStarted, TaskProgress, TaskUpdated, Notified, Result, StreamEnds
  <2> QED BY <2>1, <2>2, <2>3
<1>3. ~astray' => StreamInv'
  BY <1>2, StreamInvStep DEF StreamAccount
<1>4. OnlyBackgroundStrays'
  <2>1. CASE background
    BY <1>2, <2>1 DEF OnlyBackgroundStrays
  <2>2. CASE ~background
    <3>1. ~astray /\ StreamInv
      BY <2>2 DEF StreamAccount, OnlyBackgroundStrays
    <3>2. CASE StreamNext
      BY <2>2, <3>1, <3>2, StrayInBackground DEF OnlyBackgroundStrays
    <3>3. CASE UNCHANGED streamVars
      BY <3>1, <3>3 DEF OnlyBackgroundStrays, streamVars
    <3> QED BY <3>2, <3>3
  <2> QED BY <2>1, <2>2
<1> QED BY <1>1, <1>3, <1>4 DEF StreamAccount

LEMMA StreamTold == StreamAccount => TextShownOnce /\ SubagentsEndOnce /\ OnlyBackgroundStrays
<1> SUFFICES ASSUME StreamAccount PROVE TextShownOnce /\ SubagentsEndOnce
  BY DEF StreamAccount
<1>1. ASSUME StreamFinished
      PROVE  /\ \A n \in 1 .. said : \E i \in DOMAIN log.text : log.text[i] = n
             /\ \A t \in log.started : log.ended[t] > 0
  <2>1. /\ phase = "returned" /\ todo = << >> /\ AllKept /\ ~opened /\ active = {}
        /\ log.text \in Seq(Nat) /\ log.started \subseteq Subagent
    BY <1>1 DEF StreamFinished, StreamAccount, NothingLost, LogShape
  <2>2. buffer = << >> /\ Among(buffer) = {} /\ Among(todo) = {}
    BY <2>1, AmongNone DEF AllKept
  <2>3. \A n \in 1 .. said : n \in Among(log.text)
    BY <2>1, <2>2 DEF AllKept, Brings
  <2>4. DOMAIN log.text = 1 .. Len(log.text)
    BY <2>1
  <2>5. \A n \in 1 .. said : \E i \in DOMAIN log.text : log.text[i] = n
    BY <2>3, <2>4 DEF Among
  <2>6. \A t \in log.started : log.ended[t] > 0
    BY <2>1, <2>2 DEF AllKept, EndsIn
  <2> QED BY <2>5, <2>6
<1>2. phase = "closed" => \A t \in log.started : log.ended[t] > 0
  BY DEF StreamAccount, NothingLost
<1>3. ASSUME ~astray
      PROVE  /\ log.bracket \in {"open", "closed"} /\ log.text = [i \in 1 .. Len(log.text) |-> i]
             /\ StreamFinished => Len(log.text) = said /\ log.bracket = "closed"
             /\ \A t \in Subagent : log.ended[t] <= 1
  BY <1>3, StreamToldExactly DEF StreamAccount
<1> QED BY <1>1, <1>2, <1>3 DEF TextShownOnce, SubagentsEndOnce

-----------------------------------------------------------------------------
(* A CLI in a remote sandbox.                                                *)

(* What the CLI may print, and what the worker may have in its buffer.       *)
Token == ({"open", "lo", "hi", "close"} \X Nat) \cup {<<"nl", 0>>, <<"sp", 0>>, <<"junk", 0>>}
Heard == Token \cup ({"bad"} \X Nat)
CliMessage == [of : Nat, intact : BOOLEAN]

CliRow == [state : {"none", "running", "exited", "killed"}, code : {0, 1}, wrote : Nat,
           answered : Nat, junk : Nat, edits : Nat, loose : BOOLEAN]
ReceiverState == {"idle", "reading", "ended", "cut", "done", "short", "failed"}
CliTypes ==
  /\ cli \in CliRow /\ stdout \in Seq(Token) /\ taken \in Nat /\ split \in BOOLEAN
  /\ receiver \in [state : ReceiverState, buffer : Seq(Heard), got : Seq(CliMessage)]

(* Objects are printed whole, each at the beginning of a line, in the order   *)
(* of their messages; behind a line of Daytona's is its padding.             *)
ObjectsWhole ==
  \A i \in 1 .. Len(stdout) :
    /\ stdout[i][1] = "open" =>
         /\ i + 3 <= Len(stdout)
         /\ stdout[i + 1] = <<"lo", stdout[i][2]>> /\ stdout[i + 2] = <<"hi", stdout[i][2]>>
         /\ stdout[i + 3] = <<"close", stdout[i][2]>>
         /\ i = 1 \/ stdout[i - 1][1] = "nl"
    /\ stdout[i][1] = "lo" => i > 1 /\ stdout[i - 1][1] = "open"
    /\ stdout[i][1] = "hi" => i > 2 /\ stdout[i - 1][1] = "lo"
    /\ stdout[i][1] = "close" => i > 3 /\ stdout[i - 1][1] = "hi"
ClosesAt(i) == i \in 1 .. Len(stdout) /\ stdout[i][1] = "close"
ObjectsOrdered ==
  /\ \A i, j : ClosesAt(i) /\ ClosesAt(j) /\ i < j => stdout[i][2] < stdout[j][2]
  /\ \A i : ClosesAt(i) => stdout[i][2] \in 1 .. cli.wrote
  /\ \A m \in 1 .. cli.wrote : \E i : ClosesAt(i) /\ stdout[i][2] = m
LinesEnd ==
  /\ Len(stdout) > 0 => stdout[Len(stdout)][1] = "nl"
  /\ sandboxKind = "daytona" => \A i : ClosesAt(i) => i + 4 <= Len(stdout)

(* The buffer is the end of what was read, decoded, without a line's or an    *)
(* object's end in it, and begins outside of objects; all objects that ended  *)
(* before are messages.                                                      *)
Behind == taken - Len(receiver.buffer)
Decoded(token, byte, broken) ==
  \/ token = byte
  \/ broken /\ byte[1] \in {"lo", "hi"} /\ token = <<"bad", byte[2]>>
BufferIs ==
  /\ taken <= Len(stdout) /\ Len(receiver.buffer) <= taken
  /\ \A i \in 1 .. Len(receiver.buffer) : Decoded(receiver.buffer[i], stdout[Behind + i], split)
  /\ taken > 0 /\ stdout[taken][1] = "lo" => split
BufferBegins ==
  /\ Behind > 0 => stdout[Behind][1] \notin {"open", "lo", "hi"}
  /\ \A i \in Behind + 1 .. taken : stdout[i][1] \notin {"nl", "close"}
GotAll ==
  /\ \A k \in 1 .. Len(receiver.got) :
       /\ receiver.got[k].of = k /\ (receiver.got[k].intact \/ split)
       /\ \E i \in 1 .. taken : ClosesAt(i) /\ stdout[i][2] = k
  /\ \A i \in 1 .. taken : ClosesAt(i) => stdout[i][2] <= Len(receiver.got)

Silent == stdout = << >> /\ taken = 0 /\ receiver.buffer = << >> /\ receiver.got = << >>
Talks == ObjectsWhole /\ ObjectsOrdered /\ LinesEnd /\ BufferIs /\ BufferBegins /\ GotAll
TalkHolds ==
  /\ cliAt = "talk" <=> receiver.state # "idle"
  /\ cliAt \in {"prepare", "connect"} => cli.wrote = 0 /\ cli.state = "none"
  /\ receiver.state = "idle" => Silent
  /\ receiver.state # "idle" => Talks
  /\ receiver.state \in {"ended", "done"} => cli.state # "running" /\ Len(receiver.got) = cli.wrote
  /\ receiver.state \in {"done", "short"} => cli.state = "exited" /\ cli.code = 0
  /\ receiver.state \in {"cut", "short"} => sandboxKind = "daytona"

FilesHold ==
  /\ local \in [Paths -> Nat] /\ remote \in [Paths -> Nat] /\ archive \in [Paths -> Nat]
  /\ cliAt = "connect" => pinned \/ preparedCli
  /\ Running => (pinned \/ preparedCli) /\ (resume => config = "whole")
  /\ cliAt \in {"collect", "write", "over"} /\ ~cli.loose => ~Running
  /\ cliAt \in {"prepare", "connect", "talk", "collect"} => \A p \in Paths : local[p] = 1
  /\ cliAt = "write" /\ ~cli.loose =>
       archive = remote /\ \A p \in Paths \ unwritten : local[p] = remote[p] \/ (remote[p] = 0 /\ local[p] = 1)
  /\ cliAt = "over" /\ ~cli.loose =>
       \A p \in Paths : local[p] = remote[p] \/ (remote[p] = 0 /\ local[p] = 1)

CliInv == CliTypes /\ TalkHolds /\ FilesHold

LEMMA CliInitInv == CliInit => CliInv
<1> SUFFICES ASSUME CliInit PROVE CliInv
  OBVIOUS
<1>1. cli \in CliRow /\ cli.state = "none" /\ cli.wrote = 0 /\ cli.loose = FALSE
  BY DEF CliInit, CliRow
<1>2. /\ receiver \in [state : ReceiverState, buffer : Seq(Heard), got : Seq(CliMessage)]
      /\ receiver.state = "idle" /\ receiver.buffer = << >> /\ receiver.got = << >>
  <2>1. << >> \in Seq(Heard) /\ << >> \in Seq(CliMessage)
    OBVIOUS
  <2>2. receiver = [state |-> "idle", buffer |-> << >>, got |-> << >>]
    BY DEF CliInit
  <2> QED BY <2>1, <2>2 DEF ReceiverState
<1>3. CliTypes
  <2>1. stdout = << >> /\ stdout \in Seq(Token) /\ taken = 0 /\ split = FALSE
    BY DEF CliInit
  <2> QED BY <1>1, <1>2, <2>1 DEF CliTypes
<1>4. TalkHolds
  <2>1. cliAt = "prepare" /\ stdout = << >> /\ taken = 0
    BY DEF CliInit
  <2> QED BY <1>1, <1>2, <2>1 DEF TalkHolds, Silent
<1>5. FilesHold
  <2>1. /\ cliAt = "prepare" /\ local = [p \in Paths |-> 1] /\ remote = [p \in Paths |-> 0]
        /\ archive = remote
    BY DEF CliInit
  <2> QED BY <1>1, <2>1 DEF FilesHold, Running
<1> QED BY <1>3, <1>4, <1>5 DEF CliInv

-----------------------------------------------------------------------------
(* Output.                                                                   *)

LEMMA JoinedIs ==
  ASSUME NEW S, NEW s \in Seq(S), NEW t \in Seq(S)
  PROVE  /\ s \o t \in Seq(S) /\ Len(s \o t) = Len(s) + Len(t)
         /\ \A i \in 1 .. Len(s) : (s \o t)[i] = s[i]
         /\ \A i \in 1 .. Len(t) : (s \o t)[Len(s) + i] = t[i]
OBVIOUS

(* A line: a text, and behind it white space that ends with a newline.       *)
LineOf(line, text) ==
  /\ line \in Seq(Token) /\ Len(line) > Len(text)
  /\ \A i \in 1 .. Len(text) : line[i] = text[i]
  /\ \A i \in Len(text) + 1 .. Len(line) : line[i][1] \in {"nl", "sp"}
  /\ line[Len(line)][1] = "nl"
  /\ sandboxKind = "daytona" => Len(line) = Len(text) + 4

Padding(tail) ==
  /\ tail \in Seq(Token) /\ Len(tail) > 0 /\ tail[Len(tail)][1] = "nl"
  /\ \A i \in 1 .. Len(tail) : tail[i][1] \in {"nl", "sp"}
  /\ sandboxKind = "daytona" => Len(tail) = 4

LEMMA PaddedLine ==
  ASSUME NEW text \in Seq(Token), NEW tail, Padding(tail) PROVE LineOf(text \o tail, text)
<1>0. tail \in Seq(Token)
  BY DEF Padding
<1>1. /\ text \o tail \in Seq(Token) /\ Len(text \o tail) = Len(text) + Len(tail)
      /\ \A i \in 1 .. Len(text) : (text \o tail)[i] = text[i]
      /\ \A i \in 1 .. Len(tail) : (text \o tail)[Len(text) + i] = tail[i]
  BY <1>0, JoinedIs
<1> DEFINE line == text \o tail
<1> HIDE DEF line
<1>2. Len(text) \in Nat /\ Len(tail) \in Nat
  BY <1>0
<1>3. \A i \in Len(text) + 1 .. Len(line) : line[i][1] \in {"nl", "sp"}
  <2> SUFFICES ASSUME NEW i \in Len(text) + 1 .. Len(line) PROVE line[i][1] \in {"nl", "sp"}
    OBVIOUS
  <2>1. i - Len(text) \in 1 .. Len(tail) /\ Len(text) + (i - Len(text)) = i
    BY <1>1, <1>2 DEF line
  <2>2. line[i] = tail[i - Len(text)]
    BY <1>1, <2>1 DEF line
  <2> QED BY <2>1, <2>2 DEF Padding
<1>4. line[Len(line)] = tail[Len(tail)] /\ Len(line) > Len(text)
  BY <1>1, <1>2 DEF line, Padding
<1> QED BY <1>1, <1>2, <1>3, <1>4 DEF LineOf, line, Padding

LEMMA PrintsLine ==
  ASSUME NEW text \in Seq(Token), Prints(text)
  PROVE  \E line : LineOf(line, text) /\ stdout' = stdout \o line
<1> DEFINE pad == << <<"nl", 0>>, <<"sp", 0>>, <<"sp", 0>>, <<"nl", 0>> >>
           end == << <<"nl", 0>> >>
<1>1. /\ pad \in Seq(Token) /\ Len(pad) = 4 /\ pad[1][1] = "nl" /\ pad[2][1] = "sp"
      /\ pad[3][1] = "sp" /\ pad[4][1] = "nl"
  BY DEF Token
<1>2. end \in Seq(Token) /\ Len(end) = 1 /\ end[1][1] = "nl"
  BY DEF Token
<1>3. DaytonaLine(text) = text \o pad /\ KubectlLine(text) = text \o end /\ E2BLine(text) = text \o end
  BY DEF DaytonaLine, KubectlLine, E2BLine, Newline
<1> HIDE DEF pad, end
<1>5. CASE sandboxKind = "daytona" /\ stdout' = stdout \o DaytonaLine(text)
  <2>1. \A i \in 1 .. 4 : i = 1 \/ i = 2 \/ i = 3 \/ i = 4
    OBVIOUS
  <2>2. \A i \in 1 .. Len(pad) : pad[i][1] \in {"nl", "sp"}
    BY <1>1, <2>1
  <2>3. Padding(pad)
    BY <1>1, <2>2 DEF Padding
  <2> QED BY <1>3, <1>5, <2>3, PaddedLine
<1>6. CASE sandboxKind \in {"kubernetes", "e2b"} /\ stdout' = stdout \o (text \o end)
  <2>1. \A i \in 1 .. Len(end) : end[i][1] \in {"nl", "sp"}
    BY <1>2
  <2>2. Padding(end)
    BY <1>2, <1>6, <2>1 DEF Padding
  <2> QED BY <1>6, <2>2, PaddedLine
<1> QED BY <1>3, <1>5, <1>6 DEF Prints

LEMMA StdoutGrows ==
  ASSUME NEW line \in Seq(Token), stdout \in Seq(Token), stdout' = stdout \o line
  PROVE  /\ stdout' \in Seq(Token) /\ Len(stdout') = Len(stdout) + Len(line)
         /\ Len(stdout) \in Nat /\ Len(line) \in Nat
         /\ \A i \in 1 .. Len(stdout) : stdout'[i] = stdout[i]
         /\ \A i \in 1 .. Len(line) : stdout'[Len(stdout) + i] = line[i]
<1>1. Len(stdout) \in Nat /\ Len(line) \in Nat
  OBVIOUS
<1> QED BY <1>1, JoinedIs

(* What was printed stays, so that the receiver has read what it had.        *)
LEMMA ReceiverStays ==
  ASSUME CliTypes, BufferIs, BufferBegins, GotAll, NEW line \in Seq(Token),
         stdout' = stdout \o line, taken' = taken, receiver' = receiver, split' = split
  PROVE  BufferIs' /\ BufferBegins' /\ GotAll'
<1>1. /\ stdout' \in Seq(Token) /\ Len(stdout') = Len(stdout) + Len(line)
      /\ Len(stdout) \in Nat /\ Len(line) \in Nat
      /\ \A i \in 1 .. Len(stdout) : stdout'[i] = stdout[i]
  BY StdoutGrows DEF CliTypes
<1>2. taken <= Len(stdout') /\ taken \in Nat /\ Len(receiver.buffer) \in Nat /\ Len(receiver.buffer) <= taken
  BY <1>1 DEF BufferIs, CliTypes
<1>3. Behind' = Behind /\ Behind = taken - Len(receiver.buffer)
  BY DEF Behind
<1>4. \A i \in 1 .. taken : stdout'[i] = stdout[i] /\ (ClosesAt(i)' <=> ClosesAt(i))
  <2> SUFFICES ASSUME NEW i \in 1 .. taken PROVE stdout'[i] = stdout[i] /\ (ClosesAt(i)' <=> ClosesAt(i))
    OBVIOUS
  <2>1. i \in 1 .. Len(stdout) /\ i \in 1 .. Len(stdout')
    BY <1>1, <1>2 DEF BufferIs
  <2> QED BY <1>1, <2>1 DEF ClosesAt
<1>5. BufferIs'
  <2>1. \A i \in 1 .. Len(receiver.buffer) : Behind + i \in 1 .. taken
    BY <1>2, <1>3
  <2>2. taken > 0 => taken \in 1 .. taken
    BY <1>2
  <2> QED BY <1>1, <1>2, <1>3, <1>4, <2>1, <2>2 DEF BufferIs, Decoded
<1>6. BufferBegins'
  <2>1. Behind > 0 => Behind \in 1 .. taken
    BY <1>2, <1>3
  <2>2. \A i \in Behind + 1 .. taken : i \in 1 .. taken
    BY <1>2, <1>3
  <2> QED BY <1>3, <1>4, <2>1, <2>2 DEF BufferBegins
<1>7. GotAll'
  <2>1. \A k : (\E i \in 1 .. taken : ClosesAt(i) /\ stdout[i][2] = k) =>
             \E i \in 1 .. taken : ClosesAt(i)' /\ stdout'[i][2] = k
    BY <1>4
  <2>2. \A i \in 1 .. taken : ClosesAt(i)' => stdout'[i][2] <= Len(receiver.got)
    BY <1>4 DEF GotAll
  <2> QED BY <2>1, <2>2 DEF GotAll
<1> QED BY <1>5, <1>6, <1>7

LEMMA WroteMessage ==
  ASSUME CliTypes, ObjectsWhole, ObjectsOrdered, LinesEnd, NEW line, LineOf(line, Object(cli.wrote + 1)),
         stdout' = stdout \o line, cli'.wrote = cli.wrote + 1, sandboxKind' = sandboxKind
  PROVE  ObjectsWhole' /\ ObjectsOrdered' /\ LinesEnd'
<1> PICK m \in Nat : m = cli.wrote + 1
  BY DEF CliTypes, CliRow
<1> PICK n \in Nat : n = Len(stdout)
  BY DEF CliTypes
<1>1. /\ Len(Object(m)) = 4 /\ Object(m)[1] = <<"open", m>> /\ Object(m)[2] = <<"lo", m>>
      /\ Object(m)[3] = <<"hi", m>> /\ Object(m)[4] = <<"close", m>>
  BY DEF Object
<1>2. line \in Seq(Token) /\ Len(line) > 4 /\ line[Len(line)][1] = "nl"
  BY <1>1 DEF LineOf
<1>3. /\ line[1] = <<"open", m>> /\ line[2] = <<"lo", m>> /\ line[3] = <<"hi", m>> /\ line[4] = <<"close", m>>
      /\ \A i \in 5 .. Len(line) : line[i][1] \in {"nl", "sp"}
      /\ sandboxKind = "daytona" => Len(line) = 8
  <2>1. 1 \in 1 .. 4 /\ 2 \in 1 .. 4 /\ 3 \in 1 .. 4 /\ 4 \in 1 .. 4 /\ 4 + 1 = 5 /\ 4 + 4 = 8
    OBVIOUS
  <2> QED BY <1>1, <2>1 DEF LineOf
<1>4. /\ stdout' \in Seq(Token) /\ Len(stdout') = n + Len(line) /\ n \in Nat /\ Len(line) \in Nat
      /\ \A i \in 1 .. n : stdout'[i] = stdout[i]
      /\ \A i \in 1 .. Len(line) : stdout'[n + i] = line[i]
  BY <1>2, StdoutGrows DEF CliTypes
<1>0. 1 \in 1 .. Len(line) /\ 2 \in 1 .. Len(line) /\ 3 \in 1 .. Len(line) /\ 4 \in 1 .. Len(line)
  <2>1. \A k \in Nat : k > 4 => 1 \in 1 .. k /\ 2 \in 1 .. k /\ 3 \in 1 .. k /\ 4 \in 1 .. k
    OBVIOUS
  <2> QED BY <1>2, <1>4, <2>1
<1>5. m \in Nat /\ cli.wrote \in Nat /\ m = cli.wrote + 1 /\ cli'.wrote = m
  BY DEF CliTypes, CliRow
<1>6. /\ stdout'[n + 1] = <<"open", m>> /\ stdout'[n + 2] = <<"lo", m>> /\ stdout'[n + 3] = <<"hi", m>>
      /\ stdout'[n + 4] = <<"close", m>> /\ Len(stdout') > n + 4
  <2>1. \A j, k \in Nat : k > 4 => j + k > j + 4
    OBVIOUS
  <2> QED BY <1>0, <1>2, <1>3, <1>4, <2>1
<1>14. /\ stdout'[n + 1][1] = "open" /\ stdout'[n + 1][2] = m /\ stdout'[n + 2][1] = "lo"
       /\ stdout'[n + 3][1] = "hi" /\ stdout'[n + 4][1] = "close" /\ stdout'[n + 4][2] = m
  BY <1>6
<1>7. \A i \in 1 .. Len(stdout') : \/ i \in 1 .. n /\ stdout'[i] = stdout[i]
                                   \/ i \in {n + 1, n + 2, n + 3, n + 4}
                                   \/ i > n + 4 /\ stdout'[i][1] \in {"nl", "sp"}
  <2> SUFFICES ASSUME NEW i \in 1 .. Len(stdout'), i > n + 4 PROVE stdout'[i][1] \in {"nl", "sp"}
    BY <1>4
  <2>1. i - n \in 5 .. Len(line) /\ i - n \in 1 .. Len(line) /\ n + (i - n) = i
    <3>1. \A j, k \in Nat : \A l \in 1 .. j + k : l > j + 4 => l - j \in 5 .. k /\ l - j \in 1 .. k /\ j + (l - j) = l
      OBVIOUS
    <3> QED BY <1>4, <3>1
  <2>2. stdout'[i] = line[i - n]
    BY <1>4, <2>1
  <2> QED BY <1>3, <2>1, <2>2
<1>8. n = 0 \/ stdout[n][1] = "nl"
  BY <1>4 DEF LinesEnd
<1>9. ObjectsWhole'
  <2> SUFFICES ASSUME NEW i \in 1 .. Len(stdout')
      PROVE /\ stdout'[i][1] = "open" =>
                 /\ i + 3 <= Len(stdout')
                 /\ stdout'[i + 1] = <<"lo", stdout'[i][2]>> /\ stdout'[i + 2] = <<"hi", stdout'[i][2]>>
                 /\ stdout'[i + 3] = <<"close", stdout'[i][2]>>
                 /\ i = 1 \/ stdout'[i - 1][1] = "nl"
            /\ stdout'[i][1] = "lo" => i > 1 /\ stdout'[i - 1][1] = "open"
            /\ stdout'[i][1] = "hi" => i > 2 /\ stdout'[i - 1][1] = "lo"
            /\ stdout'[i][1] = "close" => i > 3 /\ stdout'[i - 1][1] = "hi"
    BY DEF ObjectsWhole
  <2>1. CASE i \in 1 .. n /\ stdout'[i] = stdout[i]
    <3>1. i \in 1 .. Len(stdout)
      BY <2>1
    <3>2. ASSUME stdout[i][1] = "open" PROVE i + 1 \in 1 .. n /\ i + 2 \in 1 .. n /\ i + 3 \in 1 .. n
      BY <1>4, <2>1, <3>1, <3>2 DEF ObjectsWhole
    <3>3. i > 1 => i - 1 \in 1 .. n
      BY <1>4, <2>1
    <3>4. stdout[i][1] = "open" => i = 1 \/ (i > 1 /\ stdout[i - 1][1] = "nl")
      BY <3>1 DEF ObjectsWhole
    <3>5. stdout[i][1] = "open" =>
                 /\ i + 3 <= Len(stdout')
                 /\ stdout'[i + 1] = <<"lo", stdout[i][2]>> /\ stdout'[i + 2] = <<"hi", stdout[i][2]>>
                 /\ stdout'[i + 3] = <<"close", stdout[i][2]>>
      BY <1>4, <3>1, <3>2 DEF ObjectsWhole
    <3>6. /\ stdout[i][1] = "lo" => i > 1 /\ stdout'[i - 1][1] = "open"
          /\ stdout[i][1] = "hi" => i > 2 /\ stdout'[i - 1][1] = "lo"
          /\ stdout[i][1] = "close" => i > 3 /\ stdout'[i - 1][1] = "hi"
      BY <1>4, <3>1, <3>3 DEF ObjectsWhole
    <3>7. stdout[i][1] = "open" => i = 1 \/ stdout'[i - 1][1] = "nl"
      BY <1>4, <3>3, <3>4
    <3> QED BY <2>1, <3>5, <3>6, <3>7
  <2>2. CASE i = n + 1
    <3>1. i = 1 \/ stdout'[i - 1][1] = "nl"
      <4>1. n > 0 => n \in 1 .. n /\ stdout'[n] = stdout[n] /\ i - 1 = n
        BY <1>4, <2>2
      <4> QED BY <1>4, <1>8, <2>2, <4>1
    <3>2. /\ i + 1 = n + 2 /\ i + 2 = n + 3 /\ i + 3 = n + 4
      BY <1>4, <2>2
    <3>3. stdout'[i][1] = "open" /\ stdout'[i][2] = m
      BY <1>14, <2>2
    <3>4. i + 3 <= Len(stdout')
      BY <1>4, <1>6, <3>2
    <3>5. /\ stdout'[i + 1] = <<"lo", m>> /\ stdout'[i + 2] = <<"hi", m>> /\ stdout'[i + 3] = <<"close", m>>
      BY <1>6, <3>2
    <3> QED BY <3>1, <3>3, <3>4, <3>5
  <2>3. CASE i = n + 2
    <3>1. i - 1 = n + 1 /\ i > 1
      BY <1>4, <2>3
    <3>2. stdout'[i][1] = "lo" /\ stdout'[i - 1][1] = "open"
      BY <1>14, <2>3, <3>1
    <3> QED BY <3>1, <3>2
  <2>4. CASE i = n + 3
    <3>1. i - 1 = n + 2 /\ i > 2
      BY <1>4, <2>4
    <3>2. stdout'[i][1] = "hi" /\ stdout'[i - 1][1] = "lo"
      BY <1>14, <2>4, <3>1
    <3> QED BY <3>1, <3>2
  <2>5. CASE i = n + 4
    <3>1. i - 1 = n + 3 /\ i > 3
      BY <1>4, <2>5
    <3>2. stdout'[i][1] = "close" /\ stdout'[i - 1][1] = "hi"
      BY <1>14, <2>5, <3>1
    <3> QED BY <3>1, <3>2
  <2> QED BY <1>7, <2>1, <2>2, <2>3, <2>4, <2>5
<1>10. \A i : ClosesAt(i)' <=> (ClosesAt(i) /\ stdout'[i] = stdout[i]) \/ i = n + 4
  <2>1. \A i : ClosesAt(i) => ClosesAt(i)' /\ stdout'[i] = stdout[i]
    BY <1>4 DEF ClosesAt
  <2>2. ClosesAt(n + 4)'
    BY <1>4, <1>6 DEF ClosesAt
  <2>3. ASSUME NEW i, ClosesAt(i)', i # n + 4 PROVE ClosesAt(i)
    <3>1. i \in 1 .. Len(stdout') /\ stdout'[i][1] = "close"
      BY <2>3 DEF ClosesAt
    <3>2. i # n + 1 /\ i # n + 2 /\ i # n + 3
      BY <1>14, <3>1
    <3>3. i \in 1 .. n /\ stdout'[i] = stdout[i]
      BY <1>7, <2>3, <3>1, <3>2
    <3> QED BY <3>1, <3>3 DEF ClosesAt
  <2> QED BY <2>1, <2>2, <2>3
<1>11. stdout'[n + 4][2] = m /\ \A i : ClosesAt(i) => i \in 1 .. n /\ stdout[i][2] \in 1 .. cli.wrote
  BY <1>6 DEF ObjectsOrdered, ClosesAt
<1>12. ObjectsOrdered'
  <2>1. ASSUME NEW i, NEW j, ClosesAt(i)', ClosesAt(j)', i < j PROVE stdout'[i][2] < stdout'[j][2]
    <3>1. CASE ClosesAt(i) /\ ClosesAt(j) /\ stdout'[i] = stdout[i] /\ stdout'[j] = stdout[j]
      BY <2>1, <3>1 DEF ObjectsOrdered
    <3>2. CASE i = n + 4
      <4>1. j \in 1 .. n \/ j = n + 4
        BY <1>10, <1>11, <2>1
      <4> QED BY <1>4, <2>1, <3>2, <4>1
    <3>3. CASE ClosesAt(i) /\ stdout'[i] = stdout[i] /\ j = n + 4
      <4>1. stdout'[i][2] \in 1 .. cli.wrote /\ stdout'[j][2] = m
        BY <1>11, <3>3
      <4>2. \A k \in 1 .. cli.wrote : k < m
        BY <1>5
      <4> QED BY <4>1, <4>2
    <3> QED BY <1>10, <2>1, <3>1, <3>2, <3>3
  <2>2. ASSUME NEW i, ClosesAt(i)' PROVE stdout'[i][2] \in 1 .. m
    <3>1. stdout'[i][2] \in 1 .. cli.wrote \/ stdout'[i][2] = m
      BY <1>10, <1>11, <2>2
    <3>2. 1 .. cli.wrote \subseteq 1 .. m /\ m \in 1 .. m
      BY <1>5
    <3> QED BY <3>1, <3>2
  <2>3. ASSUME NEW k \in 1 .. m PROVE \E i : ClosesAt(i)' /\ stdout'[i][2] = k
    <3>1. CASE k = m
      BY <1>10, <1>11, <3>1
    <3>2. CASE k # m
      <4>1. k \in 1 .. cli.wrote
        BY <1>5, <3>2
      <4> QED BY <1>10, <4>1, <1>4 DEF ObjectsOrdered, ClosesAt
    <3> QED BY <3>1, <3>2
  <2> QED BY <1>5, <2>1, <2>2, <2>3 DEF ObjectsOrdered
<1>13. LinesEnd'
  <2>1. stdout'[Len(stdout')] = line[Len(line)]
    BY <1>2, <1>4
  <2>2. ASSUME sandboxKind = "daytona", NEW i, ClosesAt(i)' PROVE i + 4 <= Len(stdout')
    <3>1. Len(stdout') = n + 8
      BY <1>3, <1>4, <2>2
    <3>2. i \in 1 .. n \/ i = n + 4
      BY <1>10, <1>11, <2>2
    <3> QED BY <1>4, <3>1, <3>2
  <2> QED BY <1>2, <2>1, <2>2 DEF LinesEnd
<1> QED BY <1>9, <1>12, <1>13

LEMMA WroteJunk ==
  ASSUME CliTypes, ObjectsWhole, ObjectsOrdered, LinesEnd, NEW line, LineOf(line, << <<"junk", 0>> >>),
         stdout' = stdout \o line, cli'.wrote = cli.wrote, sandboxKind' = sandboxKind
  PROVE  ObjectsWhole' /\ ObjectsOrdered' /\ LinesEnd'
<1> PICK n \in Nat : n = Len(stdout)
  BY DEF CliTypes
<1> DEFINE junk == << <<"junk", 0>> >>
<1>1. Len(junk) = 1 /\ junk[1][1] = "junk"
  OBVIOUS
<1> HIDE DEF junk
<1>2. /\ line \in Seq(Token) /\ Len(line) > 1 /\ line[Len(line)][1] = "nl"
      /\ \A i \in 1 .. Len(line) : line[i][1] \in {"junk", "nl", "sp"}
  <2>1. /\ line \in Seq(Token) /\ Len(line) > 1 /\ line[Len(line)][1] = "nl" /\ line[1] = junk[1]
        /\ \A i \in 1 + 1 .. Len(line) : line[i][1] \in {"nl", "sp"}
    BY <1>1 DEF LineOf, junk
  <2>2. \A k \in Nat : \A i \in 1 .. k : i = 1 \/ i \in 1 + 1 .. k
    OBVIOUS
  <2>3. Len(line) \in Nat
    BY <2>1
  <2> QED BY <1>1, <2>1, <2>2, <2>3
<1>4. /\ stdout' \in Seq(Token) /\ Len(stdout') = n + Len(line) /\ n \in Nat /\ Len(line) \in Nat
      /\ \A i \in 1 .. n : stdout'[i] = stdout[i]
      /\ \A i \in 1 .. Len(line) : stdout'[n + i] = line[i]
  BY <1>2, StdoutGrows DEF CliTypes
<1>7. \A i \in 1 .. Len(stdout') : \/ i \in 1 .. n /\ stdout'[i] = stdout[i]
                                   \/ i > n /\ stdout'[i][1] \in {"junk", "nl", "sp"}
  <2> SUFFICES ASSUME NEW i \in 1 .. Len(stdout'), i > n PROVE stdout'[i][1] \in {"junk", "nl", "sp"}
    BY <1>4
  <2>1. i - n \in 1 .. Len(line) /\ n + (i - n) = i
    BY <1>4
  <2>2. stdout'[i] = line[i - n]
    BY <1>4, <2>1
  <2> QED BY <1>2, <2>1, <2>2
<1>9. ObjectsWhole'
  <2> SUFFICES ASSUME NEW i \in 1 .. Len(stdout')
      PROVE /\ stdout'[i][1] = "open" =>
                 /\ i + 3 <= Len(stdout')
                 /\ stdout'[i + 1] = <<"lo", stdout'[i][2]>> /\ stdout'[i + 2] = <<"hi", stdout'[i][2]>>
                 /\ stdout'[i + 3] = <<"close", stdout'[i][2]>>
                 /\ i = 1 \/ stdout'[i - 1][1] = "nl"
            /\ stdout'[i][1] = "lo" => i > 1 /\ stdout'[i - 1][1] = "open"
            /\ stdout'[i][1] = "hi" => i > 2 /\ stdout'[i - 1][1] = "lo"
            /\ stdout'[i][1] = "close" => i > 3 /\ stdout'[i - 1][1] = "hi"
    BY DEF ObjectsWhole
  <2>1. CASE i \in 1 .. n /\ stdout'[i] = stdout[i]
    <3>1. i \in 1 .. Len(stdout)
      BY <2>1
    <3>2. ASSUME stdout[i][1] = "open" PROVE i + 1 \in 1 .. n /\ i + 2 \in 1 .. n /\ i + 3 \in 1 .. n
      BY <1>4, <2>1, <3>1, <3>2 DEF ObjectsWhole
    <3>3. i > 1 => i - 1 \in 1 .. n
      BY <1>4, <2>1
    <3>4. stdout[i][1] = "open" => i = 1 \/ (i > 1 /\ stdout[i - 1][1] = "nl")
      BY <3>1 DEF ObjectsWhole
    <3>5. stdout[i][1] = "open" =>
                 /\ i + 3 <= Len(stdout')
                 /\ stdout'[i + 1] = <<"lo", stdout[i][2]>> /\ stdout'[i + 2] = <<"hi", stdout[i][2]>>
                 /\ stdout'[i + 3] = <<"close", stdout[i][2]>>
      BY <1>4, <3>1, <3>2 DEF ObjectsWhole
    <3>6. /\ stdout[i][1] = "lo" => i > 1 /\ stdout'[i - 1][1] = "open"
          /\ stdout[i][1] = "hi" => i > 2 /\ stdout'[i - 1][1] = "lo"
          /\ stdout[i][1] = "close" => i > 3 /\ stdout'[i - 1][1] = "hi"
      BY <1>4, <3>1, <3>3 DEF ObjectsWhole
    <3>7. stdout[i][1] = "open" => i = 1 \/ stdout'[i - 1][1] = "nl"
      BY <1>4, <3>3, <3>4
    <3> QED BY <2>1, <3>5, <3>6, <3>7
  <2> QED BY <1>7, <2>1
<1>10. \A i : ClosesAt(i)' <=> ClosesAt(i) /\ stdout'[i] = stdout[i]
  <2>1. \A i : ClosesAt(i) => ClosesAt(i)' /\ stdout'[i] = stdout[i]
    BY <1>4 DEF ClosesAt
  <2>3. ASSUME NEW i, ClosesAt(i)' PROVE ClosesAt(i)
    <3>1. i \in 1 .. Len(stdout') /\ stdout'[i][1] = "close"
      BY <2>3 DEF ClosesAt
    <3>3. i \in 1 .. n /\ stdout'[i] = stdout[i]
      BY <1>7, <3>1
    <3> QED BY <3>1, <3>3 DEF ClosesAt
  <2> QED BY <2>1, <2>3
<1>12. ObjectsOrdered'
  <2>1. ASSUME NEW i, NEW j, ClosesAt(i)', ClosesAt(j)', i < j PROVE stdout'[i][2] < stdout'[j][2]
    BY <1>10, <2>1 DEF ObjectsOrdered
  <2>2. ASSUME NEW i, ClosesAt(i)' PROVE stdout'[i][2] \in 1 .. cli'.wrote
    BY <1>10, <2>2 DEF ObjectsOrdered
  <2>3. ASSUME NEW k \in 1 .. cli'.wrote PROVE \E i : ClosesAt(i)' /\ stdout'[i][2] = k
    <3>1. PICK i : ClosesAt(i) /\ stdout[i][2] = k
      BY DEF ObjectsOrdered
    <3>2. stdout'[i] = stdout[i] /\ ClosesAt(i)'
      BY <1>4, <3>1 DEF ClosesAt
    <3> QED BY <3>1, <3>2
  <2> QED BY <2>1, <2>2, <2>3 DEF ObjectsOrdered
<1>13. LinesEnd'
  <2>1. stdout'[Len(stdout')] = line[Len(line)]
    BY <1>2, <1>4
  <2>2. ASSUME sandboxKind = "daytona", NEW i, ClosesAt(i)' PROVE i + 4 <= Len(stdout')
    <3>1. i \in 1 .. n /\ i + 4 <= n
      BY <1>10, <2>2 DEF LinesEnd, ClosesAt
    <3> QED BY <1>4, <3>1
  <2> QED BY <1>2, <2>1, <2>2 DEF LinesEnd
<1> QED BY <1>9, <1>12, <1>13

LEMMA WriteMessageInv == ASSUME CliInv, WriteMessage PROVE CliInv'
<1>1. /\ Running /\ cliAt = "talk" /\ Prints(Object(cli.wrote + 1)) /\ cli.wrote \in Nat
      /\ cli' = [cli EXCEPT !.wrote = @ + 1] /\ cli \in CliRow
      /\ UNCHANGED <<cliAt, taken, receiver, split>> /\ UNCHANGED hostVars /\ UNCHANGED workVars
  BY DEF WriteMessage, CliInv, CliTypes, CliRow
<1>2. /\ cli' \in CliRow /\ cli'.wrote = cli.wrote + 1 /\ cli'.state = cli.state /\ cli'.code = cli.code
      /\ cli'.loose = cli.loose
  BY <1>1 DEF CliRow
<1>3. Object(cli.wrote + 1) \in Seq(Token)
  <2>1. \A m \in Nat : << <<"open", m>>, <<"lo", m>>, <<"hi", m>>, <<"close", m>> >> \in Seq(Token)
    BY DEF Token
  <2>2. cli.wrote + 1 \in Nat
    BY <1>1
  <2> QED BY <2>1, <2>2 DEF Object
<1>4. PICK line : LineOf(line, Object(cli.wrote + 1)) /\ stdout' = stdout \o line
  BY <1>1, <1>3, PrintsLine
<1>5. line \in Seq(Token) /\ stdout' \in Seq(Token)
  BY <1>4, StdoutGrows DEF LineOf, CliInv, CliTypes
<1>6. CliTypes'
  BY <1>1, <1>2, <1>5 DEF CliInv, CliTypes
<1>7. TalkHolds'
  <2>1. receiver.state \in {"reading", "cut", "failed"} /\ Talks
    BY <1>1 DEF CliInv, TalkHolds, CliTypes, ReceiverState, Running
  <2>2. sandboxKind' = sandboxKind
    BY <1>1 DEF hostVars
  <2>3. ObjectsWhole' /\ ObjectsOrdered' /\ LinesEnd'
    BY <1>2, <1>4, <2>1, <2>2, WroteMessage DEF CliInv, Talks
  <2>4. BufferIs' /\ BufferBegins' /\ GotAll'
    BY <1>1, <1>4, <1>5, <2>1, ReceiverStays DEF CliInv, Talks
  <2> QED BY <1>1, <2>1, <2>2, <2>3, <2>4 DEF CliInv, TalkHolds, Talks
<1>8. FilesHold'
  BY <1>1, <1>2 DEF CliInv, FilesHold, hostVars, workVars, Running
<1> QED BY <1>6, <1>7, <1>8 DEF CliInv

LEMMA PrintJunkInv == ASSUME CliInv, PrintJunk PROVE CliInv'
<1>1. /\ Running /\ cliAt = "talk" /\ Prints(<< <<"junk", 0>> >>)
      /\ cli' = [cli EXCEPT !.junk = @ + 1] /\ cli \in CliRow
      /\ UNCHANGED <<cliAt, taken, receiver, split>> /\ UNCHANGED hostVars /\ UNCHANGED workVars
  BY DEF PrintJunk, CliInv, CliTypes
<1>2. /\ cli' \in CliRow /\ cli'.wrote = cli.wrote /\ cli'.state = cli.state /\ cli'.code = cli.code
      /\ cli'.loose = cli.loose
  BY <1>1 DEF CliRow
<1>3. << <<"junk", 0>> >> \in Seq(Token)
  BY DEF Token
<1>4. PICK line : LineOf(line, << <<"junk", 0>> >>) /\ stdout' = stdout \o line
  BY <1>1, <1>3, PrintsLine
<1>5. line \in Seq(Token) /\ stdout' \in Seq(Token)
  BY <1>4, StdoutGrows DEF LineOf, CliInv, CliTypes
<1>6. CliTypes'
  BY <1>1, <1>2, <1>5 DEF CliInv, CliTypes
<1>7. TalkHolds'
  <2>1. receiver.state \in {"reading", "cut", "failed"} /\ Talks
    BY <1>1 DEF CliInv, TalkHolds, CliTypes, ReceiverState, Running
  <2>2. sandboxKind' = sandboxKind
    BY <1>1 DEF hostVars
  <2>3. ObjectsWhole' /\ ObjectsOrdered' /\ LinesEnd'
    BY <1>2, <1>4, <2>1, <2>2, WroteJunk DEF CliInv, Talks
  <2>4. BufferIs' /\ BufferBegins' /\ GotAll'
    BY <1>1, <1>4, <1>5, <2>1, ReceiverStays DEF CliInv, Talks
  <2> QED BY <1>1, <2>1, <2>2, <2>3, <2>4 DEF CliInv, TalkHolds, Talks
<1>8. FilesHold'
  BY <1>1, <1>2 DEF CliInv, FilesHold, hostVars, workVars, Running
<1> QED BY <1>6, <1>7, <1>8 DEF CliInv

-----------------------------------------------------------------------------
(* What one turn of read_messages' loop reads.                               *)

Bytes(n) == SubSeq(stdout, taken + 1, n)
Whole(n) == receiver.buffer \o Decode(Bytes(n))
BrokenAt(n) == split \/ stdout[n][1] = "lo"

LEMMA IsSequence ==
  ASSUME NEW S, NEW k \in Nat, NEW f \in [1 .. k -> S] PROVE f \in Seq(S) /\ Len(f) = k
OBVIOUS

LEMMA BytesAre ==
  ASSUME CliTypes, BufferIs, NEW n \in taken + 1 .. Len(stdout)
  PROVE  /\ Bytes(n) \in Seq(Token) /\ Len(Bytes(n)) = n - taken
         /\ \A i \in 1 .. Len(Bytes(n)) : Bytes(n)[i] = stdout[taken + i] /\ taken + i \in 1 .. Len(stdout)
<1>1. taken \in Nat /\ Len(stdout) \in Nat /\ stdout \in Seq(Token) /\ n \in Nat /\ n >= taken + 1
  BY DEF CliTypes
<1>2. /\ Bytes(n) = [i \in 1 .. n - taken |-> stdout[taken + i]]
  <2>1. Bytes(n) = [i \in 1 .. n - (taken + 1) + 1 |-> stdout[i + (taken + 1) - 1]]
    BY <1>1 DEF Bytes
  <2>2. n - (taken + 1) + 1 = n - taken
    BY <1>1
  <2>3. \A i \in 1 .. n - taken : i + (taken + 1) - 1 = taken + i
    BY <1>1
  <2> QED BY <2>1, <2>2, <2>3
<1>3. \A i \in 1 .. n - taken : taken + i \in 1 .. Len(stdout)
  BY <1>1
<1>4. n - taken \in Nat
  BY <1>1
<1>5. \A i \in 1 .. n - taken : stdout[taken + i] \in Token
  BY <1>1, <1>3
<1> QED BY <1>2, <1>3, <1>4, <1>5

LEMMA ChunkIs ==
  ASSUME CliTypes, BufferIs, ObjectsWhole, NEW n \in taken + 1 .. Len(stdout)
  PROVE  /\ Decode(Bytes(n)) \in Seq(Heard) /\ Len(Decode(Bytes(n))) = n - taken
         /\ \A i \in 1 .. n - taken : Decoded(Decode(Bytes(n))[i], stdout[taken + i], BrokenAt(n))
<1>0. n \in Nat /\ taken \in Nat /\ n - taken \in Nat /\ Len(stdout) \in Nat /\ n - taken >= 1
  BY DEF CliTypes
<1>1. /\ Bytes(n) \in Seq(Token) /\ Len(Bytes(n)) = n - taken /\ DOMAIN Bytes(n) = 1 .. n - taken
      /\ \A i \in 1 .. n - taken : Bytes(n)[i] = stdout[taken + i] /\ taken + i \in 1 .. Len(stdout)
  BY BytesAre
<1> DEFINE out == Decode(Bytes(n))
<1>2. out = [i \in 1 .. n - taken |->
               IF (i = 1 /\ Bytes(n)[i][1] = "hi") \/ (i = n - taken /\ Bytes(n)[i][1] = "lo")
               THEN <<"bad", Bytes(n)[i][2]>> ELSE Bytes(n)[i]]
  BY <1>1 DEF Decode
<1>3. \A i \in 1 .. n - taken : Bytes(n)[i] \in Token /\ (Bytes(n)[i][2] \in Nat)
  <2>1. \A i \in 1 .. n - taken : Bytes(n)[i] \in Token
    BY <1>1
  <2>2. \A token \in Token : token[2] \in Nat
    BY DEF Token
  <2> QED BY <2>1, <2>2
<1>4. \A i \in 1 .. n - taken : out[i] \in Heard
  <2>1. \A k \in Nat : <<"bad", k>> \in Heard
    BY DEF Heard
  <2>2. Token \subseteq Heard
    BY DEF Heard
  <2> QED BY <1>2, <1>3, <2>1, <2>2
<1>5. out \in Seq(Heard) /\ Len(out) = n - taken
  <2> HIDE DEF out
  <2>1. out \in [1 .. n - taken -> Heard]
    <3>1. DOMAIN out = 1 .. n - taken /\ out = [i \in 1 .. n - taken |-> out[i]]
      BY <1>2
    <3> QED BY <1>4, <3>1
  <2> QED BY <1>0, <2>1, IsSequence
<1>6. ASSUME NEW i \in 1 .. n - taken PROVE Decoded(out[i], stdout[taken + i], BrokenAt(n))
  <2> DEFINE token == Bytes(n)[i]
  <2>0. token = stdout[taken + i] /\ taken + i \in 1 .. Len(stdout)
    BY <1>1
  <2>1. CASE i = 1 /\ token[1] = "hi"
    <3>1. out[i] = <<"bad", token[2]>>
      BY <1>2, <2>1
    <3>2. taken + i = taken + 1 /\ taken + i > 2 => taken + i - 1 = taken /\ taken > 0
      BY <1>0, <2>1
    <3>3. stdout[taken + i][1] = "hi" /\ taken + i > 2 /\ stdout[taken + i - 1][1] = "lo"
      <4>1. \A p \in 1 .. Len(stdout) : stdout[p][1] = "hi" => p > 2 /\ stdout[p - 1][1] = "lo"
        BY DEF ObjectsWhole
      <4>2. stdout[taken + i][1] = "hi"
        BY <2>0, <2>1
      <4>3. PICK p \in 1 .. Len(stdout) : p = taken + i
        BY <2>0
      <4> QED BY <1>0, <4>1, <4>2, <4>3
    <3>4. split
      BY <2>1, <3>2, <3>3 DEF BufferIs
    <3> QED BY <2>0, <3>1, <3>3, <3>4 DEF Decoded, BrokenAt
  <2>2. CASE i = n - taken /\ token[1] = "lo"
    <3>1. out[i] = <<"bad", token[2]>>
      BY <1>2, <2>2
    <3>2. taken + i = n
      BY <1>0, <2>2
    <3> QED BY <2>0, <2>2, <3>1, <3>2 DEF Decoded, BrokenAt
  <2>3. CASE ~(i = 1 /\ token[1] = "hi") /\ ~(i = n - taken /\ token[1] = "lo")
    BY <1>2, <2>0, <2>3 DEF Decoded
  <2> QED BY <2>1, <2>2, <2>3
<1> QED BY <1>5, <1>6

LEMMA WholeIs ==
  ASSUME CliTypes, BufferIs, ObjectsWhole, NEW n \in taken + 1 .. Len(stdout)
  PROVE  /\ Whole(n) \in Seq(Heard) /\ Len(Whole(n)) = n - Behind /\ Behind \in Nat /\ n > Behind
         /\ \A i \in 1 .. n - Behind : /\ Decoded(Whole(n)[i], stdout[Behind + i], BrokenAt(n))
                                       /\ Behind + i \in 1 .. n
<1>0. n \in Nat /\ taken \in Nat /\ n - taken \in Nat /\ n > taken
  BY DEF CliTypes
<1> PICK held \in Nat : held = Len(receiver.buffer)
  BY DEF CliTypes
<1>1. receiver.buffer \in Seq(Heard) /\ held <= taken /\ Behind = taken - held
  BY DEF CliTypes, BufferIs, Behind
<1>2. /\ Decode(Bytes(n)) \in Seq(Heard) /\ Len(Decode(Bytes(n))) = n - taken
      /\ \A i \in 1 .. n - taken : Decoded(Decode(Bytes(n))[i], stdout[taken + i], BrokenAt(n))
  BY ChunkIs
<1>3. /\ Whole(n) \in Seq(Heard) /\ Len(Whole(n)) = held + (n - taken)
      /\ \A i \in 1 .. held : Whole(n)[i] = receiver.buffer[i]
      /\ \A i \in 1 .. n - taken : Whole(n)[held + i] = Decode(Bytes(n))[i]
  <2> DEFINE t == Decode(Bytes(n))
  <2>0. t \in Seq(Heard) /\ Len(t) = n - taken
    BY <1>2
  <2> HIDE DEF t
  <2>1. /\ receiver.buffer \o t \in Seq(Heard) /\ Len(receiver.buffer \o t) = Len(receiver.buffer) + Len(t)
        /\ \A i \in 1 .. Len(receiver.buffer) : (receiver.buffer \o t)[i] = receiver.buffer[i]
        /\ \A i \in 1 .. Len(t) : (receiver.buffer \o t)[Len(receiver.buffer) + i] = t[i]
    <3>1. ASSUME NEW s \in Seq(Heard)
          PROVE  /\ s \o t \in Seq(Heard) /\ Len(s \o t) = Len(s) + Len(t)
                 /\ \A i \in 1 .. Len(s) : (s \o t)[i] = s[i]
                 /\ \A i \in 1 .. Len(t) : (s \o t)[Len(s) + i] = t[i]
      BY <2>0
    <3> QED BY <1>1, <3>1
  <2> QED BY <2>0, <2>1 DEF Whole, t
<1>4. held + (n - taken) = n - Behind /\ Behind \in Nat /\ n > Behind
  BY <1>0, <1>1
<1>5. ASSUME NEW i \in 1 .. n - Behind
      PROVE  Decoded(Whole(n)[i], stdout[Behind + i], BrokenAt(n)) /\ Behind + i \in 1 .. n
  <2>1. Behind + i \in 1 .. n
    BY <1>0, <1>4
  <2>2. CASE i \in 1 .. held
    <3>1. Decoded(receiver.buffer[i], stdout[Behind + i], split)
      BY <2>2 DEF BufferIs
    <3> QED BY <1>3, <2>1, <2>2, <3>1 DEF Decoded, BrokenAt
  <2>3. CASE i \notin 1 .. held
    <3>1. i - held \in 1 .. n - taken /\ held + (i - held) = i /\ taken + (i - held) = Behind + i
      BY <1>0, <1>1, <1>4, <2>3
    <3>2. Whole(n)[held + (i - held)] = Decode(Bytes(n))[i - held]
      BY <1>3, <3>1
    <3>3. Decoded(Decode(Bytes(n))[i - held], stdout[taken + (i - held)], BrokenAt(n))
      BY <1>2, <3>1
    <3> QED BY <2>1, <3>1, <3>2, <3>3
  <2> QED BY <2>2, <2>3
<1> QED BY <1>3, <1>4, <1>5

(* The objects in the buffer end where they end in the output.               *)
LEMMA ObjectEndsAre ==
  ASSUME CliTypes, BufferIs, BufferBegins, ObjectsWhole, NEW n \in taken + 1 .. Len(stdout)
  PROVE  ObjectEnds(Whole(n)) = {i \in 1 .. n - Behind : ClosesAt(Behind + i)}
<1>1. /\ Len(Whole(n)) = n - Behind /\ Behind \in Nat /\ n > Behind /\ n \in Nat /\ n <= Len(stdout)
      /\ \A i \in 1 .. n - Behind : /\ Decoded(Whole(n)[i], stdout[Behind + i], BrokenAt(n))
                                    /\ Behind + i \in 1 .. n
  BY WholeIs DEF CliTypes
<1>2. \A i \in 1 .. n - Behind :
        /\ Behind + i \in 1 .. Len(stdout)
        /\ \A word \in {"open", "close", "nl", "sp", "junk"} :
             Whole(n)[i][1] = word <=> stdout[Behind + i][1] = word
  <2> SUFFICES ASSUME NEW i \in 1 .. n - Behind
      PROVE  /\ Behind + i \in 1 .. Len(stdout)
             /\ \A word \in {"open", "close", "nl", "sp", "junk"} :
                  Whole(n)[i][1] = word <=> stdout[Behind + i][1] = word
    OBVIOUS
  <2>1. Behind + i \in 1 .. Len(stdout)
    BY <1>1 DEF CliTypes
  <2>2. Whole(n)[i] = stdout[Behind + i] \/ (stdout[Behind + i][1] \in {"lo", "hi"} /\ Whole(n)[i][1] = "bad")
    BY <1>1 DEF Decoded
  <2> QED BY <2>1, <2>2
<1>3. ASSUME NEW i \in ObjectEnds(Whole(n)) PROVE i \in 1 .. n - Behind /\ ClosesAt(Behind + i)
  <2>1. i \in 4 .. n - Behind /\ Whole(n)[i][1] = "close"
    BY <1>1, <1>3 DEF ObjectEnds
  <2>2. i \in 1 .. n - Behind
    BY <1>1, <2>1
  <2> QED BY <1>2, <2>1, <2>2 DEF ClosesAt
<1>4. ASSUME NEW i \in 1 .. n - Behind, ClosesAt(Behind + i) PROVE i \in ObjectEnds(Whole(n))
  <2> DEFINE p == Behind + i
  <2>1. p \in 1 .. Len(stdout) /\ stdout[p][1] = "close" /\ p \in Nat /\ Len(stdout) \in Nat
    BY <1>4 DEF ClosesAt, CliTypes
  <2>2. p > 3 /\ stdout[p - 1][1] = "hi"
    BY <2>1 DEF ObjectsWhole
  <2>3. p - 1 \in 1 .. Len(stdout) /\ p - 2 \in 1 .. Len(stdout) /\ p - 3 \in 1 .. Len(stdout)
        /\ p - 1 - 1 = p - 2 /\ p - 2 - 1 = p - 3 /\ p - 3 - 1 = p - 4
    BY <2>1, <2>2
  <2>4. stdout[p - 2][1] = "lo"
    BY <2>2, <2>3 DEF ObjectsWhole
  <2>5. stdout[p - 3][1] = "open"
    BY <2>3, <2>4 DEF ObjectsWhole
  <2>6. p - 3 = 1 \/ stdout[p - 4][1] = "nl"
    BY <2>3, <2>5 DEF ObjectsWhole
  <2>7. Behind # p - 3 /\ Behind # p - 2 /\ Behind # p - 1
    <3>1. p - 3 > 0 /\ p - 2 > 0 /\ p - 1 > 0
      BY <2>1, <2>2
    <3>2. Behind > 0 => stdout[Behind][1] \notin {"open", "lo", "hi"}
      BY DEF BufferBegins
    <3> HIDE DEF p
    <3> QED BY <2>2, <2>4, <2>5, <3>1, <3>2
  <2>8. i \in 4 .. n - Behind
    BY <1>1, <2>2, <2>7
  <2>9. i - 3 \in 1 .. n - Behind /\ Behind + (i - 3) = p - 3
    BY <1>1, <2>8
  <2>10. Whole(n)[i][1] = "close" /\ Whole(n)[i - 3][1] = "open"
    BY <1>2, <2>1, <2>5, <2>9
  <2>11. i = 4 \/ Whole(n)[i - 4][1] \in {"nl", "sp", "close"}
    <3>1. CASE i # 4
      <4>1. i - 4 \in 1 .. n - Behind /\ Behind + (i - 4) = p - 4 /\ p - 3 # 1
        BY <1>1, <2>8, <3>1
      <4> QED BY <1>2, <2>6, <4>1
    <3> QED BY <3>1
  <2> QED BY <1>1, <2>8, <2>10, <2>11 DEF ObjectEnds
<1> QED BY <1>3, <1>4

(* NumbersFrom that grow with the positions they stand at, without gaps.         *)
NumbersFrom(num, S, a, b) ==
  /\ num \in [S -> Nat] /\ \A i \in S : num[i] \in a + 1 .. b
  /\ \A i, j \in S : i < j => num[i] < num[j]
  /\ \A m \in a + 1 .. b : \E i \in S : num[i] = m
Numbered(num, S, a, b) ==
  a \in Nat /\ b \in Nat /\ a <= b /\ (\E len \in Nat : S \in SUBSET (1 .. len)) /\ NumbersFrom(num, S, a, b)

RankIn(i, S) == Cardinality({j \in S : j <= i})
RankedBy(num, S, a, b) == Cardinality(S) = b - a /\ \A i \in S : RankIn(i, S) = num[i] - a

LEMMA RanksCount == ASSUME NEW a, NEW b, NEW S, NEW num, Numbered(num, S, a, b) PROVE RankedBy(num, S, a, b)
<1>0. a \in Nat /\ b \in Nat /\ a <= b /\ NumbersFrom(num, S, a, b)
  BY DEF Numbered
<1> PICK len \in Nat : S \in SUBSET (1 .. len)
  BY DEF Numbered
<1> USE <1>0 DEF NumbersFrom
<1>1. ASSUME NEW c \in a .. b, NEW T \in SUBSET S, \A i \in S : i \in T <=> num[i] <= c
      PROVE  Cardinality(T) = c - a
  <2> DEFINE f == [i \in T |-> num[i]]
  <2>1. \A i \in T : num[i] \in a + 1 .. c
    BY <1>1
  <2>2. f \in [T -> a + 1 .. c]
    BY <2>1
  <2>3. \A i, j \in T : i # j => f[i] # f[j]
    <3> SUFFICES ASSUME NEW i \in T, NEW j \in T, i # j PROVE num[i] # num[j]
      OBVIOUS
    <3>1. i \in Nat /\ j \in Nat /\ i \in S /\ j \in S /\ num[i] \in Nat /\ num[j] \in Nat
      OBVIOUS
    <3>2. i < j \/ j < i
      BY <3>1
    <3> QED BY <3>1, <3>2
  <2>4. \A m \in a + 1 .. c : \E i \in T : f[i] = m
    <3> SUFFICES ASSUME NEW m \in a + 1 .. c PROVE \E i \in T : num[i] = m
      OBVIOUS
    <3>1. m \in a + 1 .. b
      BY <1>1
    <3>2. PICK i \in S : num[i] = m
      BY <3>1
    <3> QED BY <1>1, <3>2
  <2>5. f \in Bijection(T, a + 1 .. c)
    BY <2>2, <2>3, <2>4, Fun_IsBij
  <2>6. ExistsBijection(a + 1 .. c, T)
    BY <2>5, Fun_ExistsBijSymmetric DEF ExistsBijection
  <2>7. IsFiniteSet(a + 1 .. c) /\ Cardinality(a + 1 .. c) = IF a + 1 > c THEN 0 ELSE c - (a + 1) + 1
    BY FS_Interval
  <2>8. Cardinality(a + 1 .. c) = c - a
    BY <2>7
  <2> QED BY <2>6, <2>7, <2>8, FS_Bijection
<1>2. Cardinality(S) = b - a
  BY <1>1
<1>3. ASSUME NEW i \in S PROVE Cardinality({j \in S : j <= i}) = num[i] - a
  <2>1. num[i] \in a .. b
    OBVIOUS
  <2>2. \A j \in S : j \in {k \in S : k <= i} <=> num[j] <= num[i]
    <3> SUFFICES ASSUME NEW j \in S PROVE j <= i <=> num[j] <= num[i]
      OBVIOUS
    <3>1. i \in Nat /\ j \in Nat /\ num[i] \in Nat /\ num[j] \in Nat
      OBVIOUS
    <3>2. i < j \/ j < i \/ i = j
      BY <3>1
    <3> QED BY <3>1, <3>2
  <2> QED BY <1>1, <2>1, <2>2
<1> QED BY <1>2, <1>3 DEF RankIn, RankedBy

LEMMA LeastOf ==
  ASSUME NEW S \in SUBSET Nat, S # {} PROVE \E x \in S : \A y \in S : x <= y
<1>1. PICK x \in S : \A y \in S : ~(<<y, x>> \in OpToRel(<, Nat))
  BY WFMin, NatLessThanWellFounded
<1>2. \A y \in S : ~(y < x)
  BY <1>1 DEF OpToRel
<1> QED BY <1>2

LEMMA LastOf ==
  ASSUME NEW len \in Nat, NEW S \in SUBSET (1 .. len), S # {}
  PROVE  \E x \in S : \A y \in S : y <= x
<1> DEFINE above == {k \in Nat : \A y \in S : y <= k}
<1>1. len \in above
  OBVIOUS
<1>2. PICK x \in above : \A k \in above : x <= k
  BY <1>1, LeastOf
<1>3. ASSUME x \notin S PROVE FALSE
  <2>1. \A y \in S : y \in Nat /\ y >= 1 /\ y <= x /\ y # x
    BY <1>3
  <2>2. x \in Nat /\ x - 1 \in Nat /\ \A y \in S : y <= x - 1
    <3>1. PICK y \in S : y >= 1 /\ y <= x /\ y # x
      BY <2>1
    <3>2. x \in Nat /\ x - 1 \in Nat
      BY <2>1, <3>1
    <3>3. \A z \in S : z <= x - 1
      BY <2>1, <3>2
    <3> QED BY <3>2, <3>3
  <2>3. x - 1 \in above /\ ~(x <= x - 1)
    BY <2>2
  <2> QED BY <1>2, <2>3
<1> QED BY <1>2, <1>3

(* What is left of the buffer has no line's and no object's end in it.       *)
LEMMA ConsumedIs ==
  ASSUME NEW b \in Seq(Heard)
  PROVE  /\ Consumed(b) \in 0 .. Len(b)
         /\ \A i \in Consumed(b) + 1 .. Len(b) : b[i][1] # "nl" /\ i \notin ObjectEnds(b)
         /\ Consumed(b) > 0 => b[Consumed(b)][1] \in {"nl", "sp", "close"}
<1> DEFINE ends == {i \in DOMAIN b : b[i][1] = "nl"} \cup ObjectEnds(b)
           last == IF ends = {} THEN 0 ELSE CHOOSE i \in ends : \A j \in ends : j <= i
<1>1. Len(b) \in Nat /\ DOMAIN b = 1 .. Len(b)
  OBVIOUS
<1>2. ends \in SUBSET (1 .. Len(b)) /\ \A i \in ends : b[i][1] \in {"nl", "close"}
  BY <1>1 DEF ObjectEnds
<1>3. Consumed(b) = IF \A i \in last + 1 .. Len(b) : b[i][1] = "sp" THEN Len(b) ELSE last
  BY DEF Consumed
<1>4. /\ last \in 0 .. Len(b) /\ (last > 0 => last \in ends) /\ \A j \in ends : j <= last
  <2>1. CASE ends = {}
    BY <1>1, <2>1
  <2>2. CASE ends # {}
    <3>1. \E i \in ends : \A j \in ends : j <= i
      BY <1>1, <1>2, <2>2, LastOf
    <3>2. last \in ends /\ \A j \in ends : j <= last
      BY <2>2, <3>1
    <3> QED BY <1>2, <3>2
  <2> QED BY <2>1, <2>2
<1>5. \A i \in 1 .. Len(b) : b[i][1] = "nl" \/ i \in ObjectEnds(b) => i \in ends
  BY <1>1
<1> HIDE DEF ends, last
<1>6. CASE \A i \in last + 1 .. Len(b) : b[i][1] = "sp"
  <2>1. Consumed(b) = Len(b)
    BY <1>3, <1>6
  <2>2. Len(b) > 0 => b[Len(b)][1] \in {"nl", "sp", "close"}
    <3>1. CASE last = Len(b)
      BY <1>2, <1>4, <3>1
    <3>2. CASE last < Len(b)
      <4>1. Len(b) \in last + 1 .. Len(b)
        BY <1>1, <1>4, <3>2
      <4> QED BY <1>6, <4>1
    <3>3. last = Len(b) \/ last < Len(b)
      <4>1. \A l \in Nat : \A x \in 0 .. l : x # l => x < l
        OBVIOUS
      <4> QED BY <1>1, <1>4, <4>1
    <3> QED BY <3>1, <3>2, <3>3
  <2>3. \A i \in Len(b) + 1 .. Len(b) : FALSE
    BY <1>1
  <2> QED BY <1>1, <2>1, <2>2, <2>3
<1>7. CASE ~\A i \in last + 1 .. Len(b) : b[i][1] = "sp"
  <2>1. Consumed(b) = last
    BY <1>3, <1>7
  <2>2. \A i \in last + 1 .. Len(b) : i \in 1 .. Len(b) /\ ~(i <= last)
    BY <1>1, <1>4
  <2> QED BY <1>2, <1>4, <1>5, <2>1, <2>2
<1> QED BY <1>6, <1>7

LEMMA BehindIs == ASSUME CliTypes, BufferIs PROVE Behind \in Nat
<1>1. taken \in Nat /\ Len(receiver.buffer) \in Nat /\ Len(receiver.buffer) <= taken
  BY DEF CliTypes, BufferIs
<1> QED BY <1>1 DEF Behind

(* The messages that have ended before a position are the first ones.        *)
EndedBy(n, q) ==
  /\ q \in Len(receiver.got) .. cli.wrote
  /\ \A i \in 1 .. n : ClosesAt(i) => stdout[i][2] <= q
  /\ \A m \in 1 .. q : \E i \in 1 .. n : ClosesAt(i) /\ stdout[i][2] = m

LEMMA EndedAre ==
  ASSUME CliTypes, ObjectsOrdered, GotAll, NEW n \in taken + 1 .. Len(stdout)
  PROVE  \E q : EndedBy(n, q)
<1> PICK a \in Nat : a = Len(receiver.got)
  BY DEF CliTypes
<1> PICK w \in Nat : w = cli.wrote
  BY DEF CliTypes, CliRow
<1>1. taken \in Nat /\ n \in Nat /\ n > taken
  BY DEF CliTypes
<1> DEFINE Ended(m) == \E i \in 1 .. n : ClosesAt(i) /\ stdout[i][2] = m
           missing == {m \in Nat : m >= 1 /\ ~Ended(m)}
<1>2. \A i : ClosesAt(i) => i \in Nat /\ stdout[i][2] \in 1 .. w
  BY DEF ObjectsOrdered, ClosesAt
<1>3. w + 1 \in missing
  <2>1. \A m \in 1 .. w : m # w + 1
    OBVIOUS
  <2> QED BY <1>2, <2>1
<1>4. PICK x \in missing : \A m \in missing : x <= m
  BY <1>3, LeastOf
<1>5. x \in Nat /\ x >= 1 /\ ~Ended(x) /\ x <= w + 1
  BY <1>3, <1>4
<1>6. \A m \in 1 .. a : Ended(m)
  <2>1. 1 .. taken \subseteq 1 .. n
    BY <1>1
  <2> QED BY <2>1 DEF GotAll
<1> PICK q \in Nat : q = x - 1
  BY <1>5
<1>7. q \in a .. w
  <2>1. x \notin 1 .. a
    BY <1>5, <1>6
  <2> QED BY <1>5, <2>1
<1>8. \A m \in 1 .. q : Ended(m)
  <2> SUFFICES ASSUME NEW m \in 1 .. q, ~Ended(m) PROVE FALSE
    OBVIOUS
  <2>1. m \in missing
    OBVIOUS
  <2>2. ~(x <= m)
    BY <1>5
  <2> QED BY <1>4, <2>1, <2>2
<1>9. ASSUME NEW i \in 1 .. n, ClosesAt(i) PROVE stdout[i][2] <= q
  <2> PICK v \in 1 .. w : v = stdout[i][2]
    BY <1>2, <1>9
  <2>1. v # x
    BY <1>5, <1>9
  <2>2. CASE v > x
    <3>1. x \in 1 .. w
      BY <1>5, <2>2
    <3>2. PICK p : ClosesAt(p) /\ stdout[p][2] = x
      BY <3>1 DEF ObjectsOrdered
    <3>3. p \in Nat /\ p >= 1 /\ p \notin 1 .. n
      BY <1>5, <3>2 DEF ClosesAt
    <3>4. i < p
      BY <1>1, <3>3
    <3>5. v < x
      BY <1>9, <3>2, <3>4 DEF ObjectsOrdered
    <3> QED BY <1>5, <2>2, <3>5
  <2> QED BY <1>5, <2>1, <2>2
<1> QED BY <1>7, <1>8, <1>9 DEF EndedBy

EndIn(S, n) == S = {i \in 1 .. n - Behind : ClosesAt(Behind + i)}

LEMMA RanksAre ==
  ASSUME CliTypes, ObjectsOrdered, GotAll, BufferIs, BufferBegins, NEW n \in taken + 1 .. Len(stdout),
         NEW S, EndIn(S, n), NEW q, EndedBy(n, q)
  PROVE  /\ Cardinality(S) = q - Len(receiver.got)
         /\ \A i \in S : RankIn(i, S) = stdout[Behind + i][2] - Len(receiver.got)
         /\ \A k \in 1 .. q - Len(receiver.got) : \E i \in S : stdout[Behind + i][2] = Len(receiver.got) + k
<1>a. PICK a \in Nat : a = Len(receiver.got)
  BY DEF CliTypes
<1>0. Behind \in Nat
  BY BehindIs
<1>b. PICK back \in Nat : back = Behind
  BY <1>0
<1>1. taken \in Nat /\ n \in Nat /\ n > taken /\ back <= taken
  <2>1. Len(receiver.buffer) \in Nat
    BY DEF CliTypes
  <2> QED BY <1>b, <2>1 DEF CliTypes, Behind
<1>2. q \in Nat /\ a <= q /\ q \in a .. cli.wrote /\ cli.wrote \in Nat
  <2>1. q \in a .. cli.wrote /\ cli.wrote \in Nat
    BY <1>a DEF EndedBy, CliTypes, CliRow
  <2> QED BY <2>1
<1>3. n - back \in Nat /\ S \in SUBSET (1 .. n - back) /\ S = {i \in 1 .. n - back : ClosesAt(back + i)}
  BY <1>1, <1>b DEF EndIn
<1> DEFINE num == [i \in S |-> stdout[back + i][2]]
<1>4. \A i \in S : /\ i \in 1 .. n - back /\ ClosesAt(back + i) /\ back + i \in 1 .. n /\ back + i > taken
                   /\ stdout[back + i][2] \in 1 .. cli.wrote
  <2> SUFFICES ASSUME NEW i \in S
      PROVE /\ i \in 1 .. n - back /\ ClosesAt(back + i) /\ back + i \in 1 .. n /\ back + i > taken
            /\ stdout[back + i][2] \in 1 .. cli.wrote
    OBVIOUS
  <2>1. i \in 1 .. n - back /\ ClosesAt(back + i)
    BY <1>3
  <2>2. back + i \in 1 .. n /\ (back + i > taken \/ back + i \in back + 1 .. taken)
    BY <1>1, <2>1
  <2>3. back + i \notin back + 1 .. taken
    BY <1>b, <2>1 DEF BufferBegins, ClosesAt
  <2> QED BY <2>1, <2>2, <2>3 DEF ObjectsOrdered
<1>5. ASSUME NEW i \in S PROVE stdout[back + i][2] \in a + 1 .. q
  <2>0. PICK v \in 1 .. cli.wrote : v = stdout[back + i][2]
    BY <1>4
  <2>1. v <= q
    BY <1>4, <2>0 DEF EndedBy
  <2>2. ASSUME v <= a PROVE FALSE
    <3>1. v \in 1 .. Len(receiver.got)
      BY <1>2, <1>a, <2>2
    <3>2. PICK j \in 1 .. taken : ClosesAt(j) /\ stdout[j][2] = v
      BY <3>1 DEF GotAll
    <3> DEFINE p == back + i
    <3>5. p \in Nat /\ p > taken /\ ClosesAt(p) /\ stdout[p][2] = v
      BY <1>4, <2>0
    <3> HIDE DEF p
    <3>3. j < p
      BY <1>1, <3>5
    <3>4. stdout[j][2] < stdout[p][2]
      BY <3>2, <3>3, <3>5 DEF ObjectsOrdered
    <3>6. ~(v < v)
      BY <1>2
    <3> QED BY <3>2, <3>4, <3>5, <3>6
  <2>3. v \in a + 1 .. q
    BY <1>2, <2>1, <2>2
  <2> QED BY <2>0, <2>3
<1>6. ASSUME NEW i \in S, NEW j \in S, i < j PROVE stdout[back + i][2] < stdout[back + j][2]
  <2>1. back + i < back + j
    BY <1>3, <1>6
  <2> QED BY <1>4, <2>1 DEF ObjectsOrdered
<1>7. ASSUME NEW m \in a + 1 .. q PROVE \E i \in S : stdout[back + i][2] = m
  <2>1. m \in 1 .. q
    BY <1>2
  <2>2. PICK p \in 1 .. n : ClosesAt(p) /\ stdout[p][2] = m
    BY <2>1 DEF EndedBy
  <2>3. p \notin 1 .. taken
    <3>1. ASSUME p \in 1 .. taken PROVE FALSE
      <4>1. m <= a
        BY <1>a, <2>2, <3>1 DEF GotAll
      <4> QED BY <1>2, <4>1
    <3> QED BY <3>1
  <2>4. p - back \in 1 .. n - back /\ back + (p - back) = p
    BY <1>1, <2>3
  <2>5. p - back \in S
    BY <1>3, <2>2, <2>4
  <2> QED BY <2>2, <2>4, <2>5
<1>8. num \in [S -> Nat]
  BY <1>2, <1>5
<1>9. /\ Cardinality(S) = q - a
      /\ \A i \in S : RankIn(i, S) = num[i] - a
  <2>1. \A i \in S : num[i] \in a + 1 .. q
    BY <1>5
  <2>2. \A i, j \in S : i < j => num[i] < num[j]
    BY <1>6
  <2>3. \A m \in a + 1 .. q : \E i \in S : num[i] = m
    BY <1>7
  <2>4. NumbersFrom(num, S, a, q)
    BY <1>8, <2>1, <2>2, <2>3 DEF NumbersFrom
  <2> HIDE DEF num
  <2>5. Numbered(num, S, a, q)
    BY <1>2, <1>3, <2>4 DEF Numbered
  <2>6. RankedBy(num, S, a, q)
    BY <2>5, RanksCount
  <2> QED BY <2>6 DEF RankedBy
<1>10. \A k \in 1 .. q - a : \E i \in S : stdout[back + i][2] = a + k
  <2>1. \A k \in 1 .. q - a : a + k \in a + 1 .. q
    BY <1>2
  <2> QED BY <1>7, <2>1
<1> QED BY <1>9, <1>10, <1>a, <1>b

LEMMA ParsedAre ==
  ASSUME CliTypes, ObjectsWhole, ObjectsOrdered, GotAll, BufferIs, BufferBegins,
         NEW n \in taken + 1 .. Len(stdout), NEW q, EndedBy(n, q)
  PROVE  /\ Parsed(Whole(n)) \in Seq(CliMessage) /\ Len(Parsed(Whole(n))) = q - Len(receiver.got)
         /\ \A k \in 1 .. q - Len(receiver.got) :
              /\ Parsed(Whole(n))[k].of = Len(receiver.got) + k
              /\ Parsed(Whole(n))[k].intact \/ BrokenAt(n)
<1>a. PICK a \in Nat : a = Len(receiver.got)
  BY DEF CliTypes
<1>b. PICK w \in Nat : w = q - a
  <2>0. PICK top \in Nat : top = cli.wrote
    BY DEF CliTypes, CliRow
  <2>1. q \in a .. top
    BY <1>a, <2>0 DEF EndedBy
  <2>2. q - a \in Nat
    BY <2>1
  <2> QED BY <2>2
<1>c. PICK S : S = ObjectEnds(Whole(n))
  OBVIOUS
<1> DEFINE b == Whole(n)
           at(k) == CHOOSE i \in S : Cardinality({j \in S : j <= i}) = k
<1>1. EndIn(S, n)
  BY <1>c, ObjectEndsAre DEF EndIn
<1>2. /\ Cardinality(S) = w
      /\ \A i \in S : Cardinality({j \in S : j <= i}) = stdout[Behind + i][2] - a
      /\ \A k \in 1 .. w : \E i \in S : stdout[Behind + i][2] = a + k
  <2>1. /\ Cardinality(S) = q - Len(receiver.got)
        /\ \A i \in S : RankIn(i, S) = stdout[Behind + i][2] - Len(receiver.got)
        /\ \A k \in 1 .. q - Len(receiver.got) : \E i \in S : stdout[Behind + i][2] = Len(receiver.got) + k
    BY <1>1, RanksAre
  <2> QED BY <1>a, <1>b, <2>1 DEF RankIn
<1>3. Parsed(b) = [k \in 1 .. w |->
                    [of |-> b[at(k)][2], intact |-> b[at(k) - 1][1] = "hi" /\ b[at(k) - 2][1] = "lo"]]
  BY <1>2, <1>c DEF Parsed
<1>4. /\ n - Behind \in Nat
      /\ \A i \in 1 .. n - Behind : /\ Decoded(b[i], stdout[Behind + i], BrokenAt(n))
                                    /\ Behind + i \in 1 .. n
  BY WholeIs DEF CliTypes
<1>5. ASSUME NEW k \in 1 .. w
      PROVE  /\ b[at(k)][2] = a + k
             /\ (b[at(k) - 1][1] = "hi" /\ b[at(k) - 2][1] = "lo") \/ BrokenAt(n)
  <2>1. PICK i \in S : stdout[Behind + i][2] = a + k
    BY <1>2
  <2>2. Cardinality({j \in S : j <= i}) = k
    BY <1>2, <2>1
  <2>3. at(k) \in S /\ Cardinality({j \in S : j <= at(k)}) = k
    BY <2>2
  <2>c. PICK p \in S : p = at(k)
    BY <2>3
  <2> HIDE DEF at
  <2>4. stdout[Behind + p][2] - a = k
    BY <1>2, <2>3, <2>c
  <2>5. p \in 1 .. n - Behind /\ ClosesAt(Behind + p)
    BY <1>1 DEF EndIn
  <2>6. p >= 4
    BY <1>4, <1>c, <2>5 DEF ObjectEnds
  <2>7. /\ p - 1 \in 1 .. n - Behind /\ p - 2 \in 1 .. n - Behind
    <3>1. \A d \in Nat : \A l \in 1 .. d : l >= 4 => l - 1 \in 1 .. d /\ l - 2 \in 1 .. d
      OBVIOUS
    <3> QED BY <1>4, <2>5, <2>6, <3>1
  <2>8. b[p] = stdout[Behind + p]
    BY <1>4, <2>5 DEF Decoded, ClosesAt
  <2>9. stdout[Behind + p][2] = a + k
    <3>1. PICK top \in Nat : top = cli.wrote
      BY DEF CliTypes, CliRow
    <3>2. PICK v \in 1 .. top : v = stdout[Behind + p][2]
      BY <2>5, <3>1 DEF ObjectsOrdered
    <3>3. v - a = k
      BY <2>4, <3>2
    <3>4. v = a + k
      BY <3>3
    <3> QED BY <3>2, <3>4
  <2>10. stdout[Behind + (p - 1)][1] = "hi" /\ stdout[Behind + (p - 2)][1] = "lo"
    <3> DEFINE g == Behind + p
    <3>0. g \in Nat
      BY <2>5 DEF ClosesAt
    <3>1. g \in 1 .. Len(stdout) /\ Len(stdout) \in Nat /\ stdout[g][1] = "close"
      BY <2>5 DEF ClosesAt, CliTypes
    <3>5. Behind + (p - 1) = g - 1 /\ Behind + (p - 2) = g - 2
      <4>1. Behind \in Nat /\ p \in Nat
        BY <2>5, WholeIs DEF CliTypes
      <4> QED BY <4>1
    <3> HIDE DEF g
    <3>2. g > 3 /\ stdout[g - 1][1] = "hi"
      BY <3>1 DEF ObjectsWhole
    <3>3. g - 1 \in 1 .. Len(stdout) /\ g - 1 - 1 = g - 2
      BY <3>1, <3>2
    <3>4. stdout[g - 2][1] = "lo"
      BY <3>2, <3>3 DEF ObjectsWhole
    <3> QED BY <3>2, <3>4, <3>5
  <2>11. (b[p - 1][1] = "hi" /\ b[p - 2][1] = "lo") \/ BrokenAt(n)
    BY <1>4, <2>7, <2>10 DEF Decoded
  <2> QED BY <2>8, <2>9, <2>11, <2>c
<1> DEFINE out == Parsed(b)
<1>6. \A k \in 1 .. w : /\ out[k].of = a + k /\ (out[k].intact \/ BrokenAt(n))
                        /\ out[k] \in CliMessage
  <2> SUFFICES ASSUME NEW k \in 1 .. w
      PROVE /\ out[k].of = a + k /\ (out[k].intact \/ BrokenAt(n))
            /\ out[k] \in CliMessage
    OBVIOUS
  <2>1. out[k] = [of |-> b[at(k)][2], intact |-> b[at(k) - 1][1] = "hi" /\ b[at(k) - 2][1] = "lo"]
    BY <1>3
  <2>2. /\ b[at(k)][2] = a + k
        /\ (b[at(k) - 1][1] = "hi" /\ b[at(k) - 2][1] = "lo") \/ BrokenAt(n)
    BY <1>5
  <2> PICK of : of = b[at(k)][2]
    OBVIOUS
  <2> PICK intact \in BOOLEAN : intact = (b[at(k) - 1][1] = "hi" /\ b[at(k) - 2][1] = "lo")
    OBVIOUS
  <2>3. out[k] = [of |-> of, intact |-> intact] /\ of = a + k /\ (intact \/ BrokenAt(n))
    BY <2>1, <2>2
  <2> HIDE DEF at, b, out
  <2> QED BY <2>3 DEF CliMessage
<1>7. DOMAIN out = 1 .. w /\ out = [k \in 1 .. w |-> out[k]]
  BY <1>3
<1> HIDE DEF out
<1>8. out \in [1 .. w -> CliMessage]
  BY <1>6, <1>7
<1>9. out \in Seq(CliMessage) /\ Len(out) = w
  BY <1>8, IsSequence
<1> QED BY <1>6, <1>9, <1>a, <1>b DEF out

LEMMA ReadableIs == ASSUME CliTypes PROVE Readable \in 0 .. Len(stdout) /\ Len(stdout) - Readable <= 4
<1>1. Len(stdout) \in Nat
  BY DEF CliTypes
<1>2. \A k \in Nat : \A h \in 0 .. 4 : k > h => k - h \in 0 .. k /\ k - (k - h) <= 4
  OBVIOUS
<1>3. \A k \in Nat : \A h \in 0 .. 4 : ~(k > h) => 0 \in 0 .. k /\ k - 0 <= 4
  OBVIOUS
<1>4. \A k \in Nat : k \in 0 .. k /\ k - k <= 4
  OBVIOUS
<1>5. DaytonaReadable \in 0 .. Len(stdout) /\ Len(stdout) - DaytonaReadable <= 4
  BY <1>1, <1>2, <1>3, <1>4, WithheldAssumption DEF DaytonaReadable
<1> QED BY <1>1, <1>4, <1>5 DEF Readable

LEMMA TailIs ==
  ASSUME NEW S, NEW s \in Seq(S), NEW c \in 0 .. Len(s)
  PROVE  /\ SubSeq(s, c + 1, Len(s)) \in Seq(S) /\ Len(SubSeq(s, c + 1, Len(s))) = Len(s) - c
         /\ \A i \in 1 .. Len(s) - c : SubSeq(s, c + 1, Len(s))[i] = s[c + i]
<1>1. Len(s) \in Nat /\ c \in Nat /\ Len(s) - c \in Nat
  OBVIOUS
<1>2. SubSeq(s, c + 1, Len(s)) = [i \in 1 .. Len(s) - (c + 1) + 1 |-> s[i + (c + 1) - 1]]
  BY <1>1
<1>3. Len(s) - (c + 1) + 1 = Len(s) - c /\ \A i \in 1 .. Len(s) - c : i + (c + 1) - 1 = c + i /\ c + i \in 1 .. Len(s)
  BY <1>1
<1>4. SubSeq(s, c + 1, Len(s)) = [i \in 1 .. Len(s) - c |-> s[c + i]]
  BY <1>2, <1>3
<1>5. [i \in 1 .. Len(s) - c |-> s[c + i]] \in [1 .. Len(s) - c -> S]
  BY <1>3
<1> QED BY <1>1, <1>4, <1>5, IsSequence

Read(n) ==
  /\ n \in taken + 1 .. Len(stdout) /\ stdout' = stdout /\ cli' = cli /\ sandboxKind' = sandboxKind
  /\ taken' = n /\ split' = BrokenAt(n)
  /\ receiver'.got = receiver.got \o Parsed(Whole(n))
  /\ receiver'.buffer = SubSeq(Whole(n), Consumed(Whole(n)) + 1, Len(Whole(n)))

(* What is left to parse begins behind what was parsed.                      *)
LEMMA BufferRead ==
  ASSUME CliTypes, Talks, NEW n, Read(n)
  PROVE  receiver'.buffer \in Seq(Heard) /\ BufferIs' /\ BufferBegins'
<1> USE DEF Talks
<1>0. /\ n \in taken + 1 .. Len(stdout) /\ stdout' = stdout /\ taken' = n /\ split' = BrokenAt(n)
      /\ receiver'.buffer = SubSeq(Whole(n), Consumed(Whole(n)) + 1, Len(Whole(n)))
  BY DEF Read
<1>1. /\ Whole(n) \in Seq(Heard) /\ Len(Whole(n)) = n - Behind /\ Behind \in Nat /\ n > Behind
      /\ \A i \in 1 .. n - Behind : /\ Decoded(Whole(n)[i], stdout[Behind + i], BrokenAt(n))
                                    /\ Behind + i \in 1 .. n
  BY <1>0, WholeIs
<1>2. ObjectEnds(Whole(n)) = {i \in 1 .. n - Behind : ClosesAt(Behind + i)}
  BY <1>0, ObjectEndsAre
<1>a. PICK b \in Seq(Heard) : b = Whole(n)
  BY <1>1
<1>b. PICK back \in Nat : back = Behind
  BY <1>1
<1>c. PICK c \in 0 .. Len(b) : c = Consumed(b)
  BY ConsumedIs
<1>3. /\ \A i \in c + 1 .. Len(b) : b[i][1] # "nl" /\ i \notin ObjectEnds(b)
      /\ c > 0 => b[c][1] \in {"nl", "sp", "close"}
  BY <1>c, ConsumedIs
<1>4. /\ n \in Nat /\ taken \in Nat /\ n <= Len(stdout) /\ n > back /\ Len(b) = n - back /\ n - back \in Nat
      /\ c \in 0 .. n - back /\ c \in Nat
  BY <1>0, <1>1, <1>a, <1>b DEF CliTypes
<1>5. \A i \in 1 .. n - back : Decoded(b[i], stdout[back + i], BrokenAt(n)) /\ back + i \in 1 .. n
  BY <1>1, <1>a, <1>b
<1>6. /\ receiver'.buffer \in Seq(Heard) /\ Len(receiver'.buffer) = n - back - c
      /\ \A i \in 1 .. n - back - c : receiver'.buffer[i] = b[c + i]
  <2>1. receiver'.buffer = SubSeq(b, c + 1, Len(b))
    BY <1>0, <1>a, <1>c
  <2>2. /\ SubSeq(b, c + 1, Len(b)) \in Seq(Heard) /\ Len(SubSeq(b, c + 1, Len(b))) = Len(b) - c
        /\ \A i \in 1 .. Len(b) - c : SubSeq(b, c + 1, Len(b))[i] = b[c + i]
    BY TailIs
  <2> QED BY <1>4, <2>1, <2>2
<1>7. Behind' = back + c
  <2>1. \A x, y \in Nat : \A z \in 0 .. x - y : x - (x - y - z) = y + z
    OBVIOUS
  <2>2. Behind' = n - (n - back - c)
    BY <1>0, <1>6 DEF Behind
  <2> QED BY <1>4, <2>1, <2>2
<1>8. BufferIs'
  <2>1. Len(receiver'.buffer) <= n
    BY <1>4, <1>6
  <2>2. \A i \in 1 .. n - back - c : Decoded(receiver'.buffer[i], stdout[back + c + i], BrokenAt(n))
    <3>1. \A i \in 1 .. n - back - c : c + i \in 1 .. n - back /\ back + (c + i) = back + c + i
      BY <1>4
    <3> QED BY <1>5, <1>6, <3>1
  <2>3. stdout[n][1] = "lo" => BrokenAt(n)
    BY DEF BrokenAt
  <2>4. \A i : Decoded(receiver'.buffer[i], stdout[back + c + i], BrokenAt(n)) =>
               Decoded(receiver.buffer[i], stdout[Behind + i], split)'
    BY <1>0, <1>7 DEF Decoded
  <2> QED BY <1>0, <1>4, <1>6, <2>1, <2>2, <2>3, <2>4 DEF BufferIs
<1>9. BufferBegins'
  <2>1. ASSUME back + c > 0 PROVE stdout[back + c][1] \notin {"open", "lo", "hi"}
    <3>1. CASE c = 0
      <4>1. back + c = Behind /\ Behind > 0
        BY <1>b, <1>4, <2>1, <3>1
      <4> QED BY <4>1 DEF BufferBegins
    <3>2. CASE c > 0
      <4>1. c \in 1 .. n - back
        BY <1>4, <3>2
      <4>2. Decoded(b[c], stdout[back + c], BrokenAt(n)) /\ b[c][1] \in {"nl", "sp", "close"}
        BY <1>3, <1>5, <3>2, <4>1
      <4> QED BY <4>2 DEF Decoded
    <3> QED BY <1>4, <3>1, <3>2
  <2>2. ASSUME NEW i \in back + c + 1 .. n PROVE stdout[i][1] \notin {"nl", "close"}
    <3>1. PICK k \in c + 1 .. n - back : back + k = i /\ k \in 1 .. n - back
      <4>1. i - back \in c + 1 .. n - back /\ back + (i - back) = i /\ i - back \in 1 .. n - back
        BY <1>4
      <4> QED BY <4>1
    <3>2. b[k][1] # "nl" /\ k \notin ObjectEnds(b)
      BY <1>3, <1>4
    <3>3. Decoded(b[k], stdout[i], BrokenAt(n))
      BY <1>5, <3>1
    <3>4. ~ClosesAt(i)
      BY <1>2, <1>a, <1>b, <3>1, <3>2
    <3>5. i \in 1 .. Len(stdout)
      <4>1. Len(stdout) \in Nat
        BY DEF CliTypes
      <4> QED BY <1>4, <4>1
    <3>6. stdout[i][1] # "close"
      BY <3>4, <3>5 DEF ClosesAt
    <3>7. stdout[i][1] # "nl"
      BY <3>2, <3>3 DEF Decoded
    <3> QED BY <3>6, <3>7
  <2> QED BY <1>0, <1>7, <2>1, <2>2 DEF BufferBegins
<1> QED BY <1>6, <1>8, <1>9

(* What has ended is a message, in its order.                                *)
LEMMA MessagesRead ==
  ASSUME CliTypes, Talks, NEW n, Read(n) PROVE receiver'.got \in Seq(CliMessage) /\ GotAll'
<1> USE DEF Talks
<1>0. /\ n \in taken + 1 .. Len(stdout) /\ stdout' = stdout /\ taken' = n /\ split' = BrokenAt(n)
      /\ receiver'.got = receiver.got \o Parsed(Whole(n))
  BY DEF Read
<1>1. PICK q : EndedBy(n, q)
  BY <1>0, EndedAre
<1>a. PICK a \in Nat : a = Len(receiver.got)
  BY DEF CliTypes
<1>b. PICK new : new = Parsed(Whole(n))
  OBVIOUS
<1>2. /\ new \in Seq(CliMessage) /\ Len(new) = q - a
      /\ \A k \in 1 .. q - a : new[k].of = a + k /\ (new[k].intact \/ BrokenAt(n))
  BY <1>0, <1>1, <1>a, <1>b, ParsedAre
<1>3. q \in Nat /\ a <= q
  <2>1. q \in a .. cli.wrote /\ cli.wrote \in Nat
    BY <1>1, <1>a DEF EndedBy, CliTypes, CliRow
  <2> QED BY <2>1
<1>c. PICK old \in Seq(CliMessage) : old = receiver.got
  BY DEF CliTypes
<1>4. /\ receiver'.got \in Seq(CliMessage) /\ Len(receiver'.got) = q
      /\ \A k \in 1 .. a : receiver'.got[k] = old[k]
      /\ \A k \in 1 .. q - a : receiver'.got[a + k] = new[k]
  <2>1. receiver'.got = old \o new
    BY <1>0, <1>b, <1>c
  <2>2. /\ old \o new \in Seq(CliMessage) /\ Len(old \o new) = Len(old) + Len(new)
        /\ \A i \in 1 .. Len(old) : (old \o new)[i] = old[i]
        /\ \A i \in 1 .. Len(new) : (old \o new)[Len(old) + i] = new[i]
    <3>1. new \in Seq(CliMessage)
      BY <1>2
    <3> QED BY <3>1, JoinedIs
  <2>3. Len(old) = a /\ a + (q - a) = q
    BY <1>3, <1>a, <1>c
  <2> QED BY <1>2, <2>1, <2>2, <2>3
<1>5. ASSUME NEW k \in 1 .. q
      PROVE  /\ receiver'.got[k].of = k /\ (receiver'.got[k].intact \/ BrokenAt(n))
             /\ \E i \in 1 .. n : ClosesAt(i) /\ stdout[i][2] = k
  <2>1. \E i \in 1 .. n : ClosesAt(i) /\ stdout[i][2] = k
    BY <1>1 DEF EndedBy
  <2>2. CASE k \in 1 .. a
    <3>1. receiver'.got[k] = receiver.got[k]
      BY <1>4, <1>c, <2>2
    <3>2. receiver.got[k].of = k /\ (receiver.got[k].intact \/ split)
      BY <1>a, <2>2 DEF GotAll
    <3> QED BY <2>1, <3>1, <3>2 DEF BrokenAt
  <2>3. CASE k \notin 1 .. a
    <3>1. k - a \in 1 .. q - a /\ a + (k - a) = k
      BY <1>3, <2>3
    <3> QED BY <1>2, <1>4, <2>1, <3>1
  <2> QED BY <2>2, <2>3
<1>6. \A i : ClosesAt(i)' <=> ClosesAt(i)
  BY <1>0 DEF ClosesAt
<1>7. \A i \in 1 .. n : ClosesAt(i) => stdout[i][2] <= q
  BY <1>1 DEF EndedBy
<1>8. GotAll'
  <2>1. \A k \in 1 .. q : /\ receiver'.got[k].of = k /\ (receiver'.got[k].intact \/ split')
                          /\ \E i \in 1 .. n : ClosesAt(i)' /\ stdout'[i][2] = k
    BY <1>0, <1>5, <1>6
  <2>2. \A i \in 1 .. n : ClosesAt(i)' => stdout'[i][2] <= q
    BY <1>0, <1>6, <1>7
  <2> QED BY <1>0, <1>4, <2>1, <2>2 DEF GotAll
<1> QED BY <1>4, <1>8

LEMMA ReadChunkInv == ASSUME CliInv, NEW n, ReadChunk(n) PROVE CliInv'
<1>1. /\ receiver.state = "reading" /\ n \in taken + 1 .. Readable
      /\ taken' = n /\ split' = BrokenAt(n)
      /\ receiver' = [receiver EXCEPT !.got = @ \o Parsed(Whole(n)),
                        !.buffer = SubSeq(Whole(n), Consumed(Whole(n)) + 1, Len(Whole(n)))]
      /\ UNCHANGED <<cliAt, cli, stdout>> /\ UNCHANGED hostVars /\ UNCHANGED workVars
  BY DEF ReadChunk, BrokenAt, Whole, Bytes
<1>2. CliTypes /\ Talks /\ cliAt = "talk"
  BY <1>1 DEF CliInv, TalkHolds
<1>3. n \in taken + 1 .. Len(stdout)
  BY <1>1, <1>2, ReadableIs DEF CliTypes
<1>4. /\ receiver'.state = "reading" /\ receiver'.got = receiver.got \o Parsed(Whole(n))
      /\ receiver'.buffer = SubSeq(Whole(n), Consumed(Whole(n)) + 1, Len(Whole(n)))
      /\ receiver' = [state |-> receiver'.state, buffer |-> receiver'.buffer, got |-> receiver'.got]
  <2> DEFINE new == receiver.got \o Parsed(Whole(n))
             left == SubSeq(Whole(n), Consumed(Whole(n)) + 1, Len(Whole(n)))
  <2>1. receiver' = [receiver EXCEPT !.got = new, !.buffer = left]
    BY <1>1
  <2>2. receiver = [state |-> receiver.state, buffer |-> receiver.buffer, got |-> receiver.got]
    BY <1>2 DEF CliTypes
  <2> HIDE DEF new, left
  <2>3. receiver' = [state |-> "reading", buffer |-> left, got |-> new]
    BY <1>1, <2>1, <2>2
  <2> QED BY <2>3 DEF new, left
<1>5. Read(n)
  BY <1>1, <1>3, <1>4 DEF Read, hostVars
<1>6. receiver'.buffer \in Seq(Heard) /\ BufferIs' /\ BufferBegins'
  BY <1>2, <1>5, BufferRead
<1>7. receiver'.got \in Seq(CliMessage) /\ GotAll'
  BY <1>2, <1>5, MessagesRead
<1>8. CliTypes'
  <2>1. taken' \in Nat /\ split' \in BOOLEAN
    BY <1>1, <1>2, <1>3 DEF CliTypes, BrokenAt
  <2>2. receiver' \in [state : ReceiverState, buffer : Seq(Heard), got : Seq(CliMessage)]
    BY <1>4, <1>6, <1>7 DEF ReceiverState
  <2> QED BY <1>1, <1>2, <2>1, <2>2 DEF CliTypes
<1>9. TalkHolds'
  <2>1. ObjectsWhole' /\ ObjectsOrdered' /\ LinesEnd'
    BY <1>1, <1>2 DEF Talks, ObjectsWhole, ObjectsOrdered, LinesEnd, ClosesAt, hostVars
  <2>2. cliAt' = "talk" /\ receiver'.state = "reading"
    BY <1>1, <1>2, <1>4
  <2> QED BY <1>6, <1>7, <2>1, <2>2 DEF TalkHolds, Talks
<1>10. FilesHold'
  BY <1>1 DEF CliInv, FilesHold, hostVars, workVars, Running
<1> QED BY <1>8, <1>9, <1>10 DEF CliInv

-----------------------------------------------------------------------------
(* The other steps.                                                          *)

LEMMA TalksStay ==
  ASSUME Talks, cli'.wrote = cli.wrote, receiver'.buffer = receiver.buffer, receiver'.got = receiver.got,
         UNCHANGED <<stdout, taken, split, sandboxKind>>
  PROVE  Talks'
<1>1. Behind' = Behind /\ \A i : ClosesAt(i)' <=> ClosesAt(i)
  BY DEF Behind, ClosesAt
<1>2. ObjectsWhole' /\ LinesEnd'
  BY <1>1 DEF Talks, ObjectsWhole, LinesEnd
<1>3. ObjectsOrdered' /\ GotAll'
  BY <1>1 DEF Talks, ObjectsOrdered, GotAll
<1>4. BufferIs' /\ BufferBegins'
  BY <1>1 DEF Talks, BufferIs, BufferBegins, Decoded
<1> QED BY <1>2, <1>3, <1>4 DEF Talks

(* Where all objects that ended have been read, all messages are.            *)
LEMMA AllGot ==
  ASSUME CliTypes, ObjectsOrdered, GotAll
  PROVE  /\ Len(receiver.got) <= cli.wrote
         /\ (\A i : ClosesAt(i) => i <= taken) => Len(receiver.got) = cli.wrote
<1>a. PICK a \in Nat : a = Len(receiver.got)
  BY DEF CliTypes
<1>b. PICK w \in Nat : w = cli.wrote
  BY DEF CliTypes, CliRow
<1>1. a <= w
  <2>1. CASE a > 0
    <3>1. a \in 1 .. a
      BY <2>1
    <3>2. PICK i : ClosesAt(i) /\ stdout[i][2] = a
      BY <1>a, <3>1 DEF GotAll
    <3>3. a \in 1 .. w
      BY <1>b, <3>2 DEF ObjectsOrdered
    <3> QED BY <3>3
  <2> QED BY <2>1
<1>2. ASSUME \A i : ClosesAt(i) => i <= taken PROVE w <= a
  <2>1. CASE w > 0
    <3>1. w \in 1 .. w
      BY <2>1
    <3>2. PICK i : ClosesAt(i) /\ stdout[i][2] = w
      BY <1>b, <3>1 DEF ObjectsOrdered
    <3>3. i \in 1 .. taken
      BY <1>2, <3>2 DEF ClosesAt, CliTypes
    <3> QED BY <1>a, <3>2, <3>3 DEF GotAll
  <2> QED BY <2>1
<1> QED BY <1>1, <1>2, <1>a, <1>b

LEMMA PrepareInv ==
  ASSUME CliInv, DaytonaPrepare \/ E2BPrepare \/ KubernetesPrepare PROVE CliInv'
<1>1. /\ cliAt = "prepare" /\ cliAt' = "connect" /\ UploadWorkspace /\ (pinned' \/ preparedCli')
      /\ UNCHANGED <<sandboxKind, preparedCli, config, resume, local, archive, unwritten>> /\ UNCHANGED talkVars
  BY DEF DaytonaPrepare, E2BPrepare, KubernetesPrepare, Prepared, EnsureCli, E2BEnsureCli, KubernetesVersion
<1>2. UNCHANGED <<cli, stdout, taken, receiver, split, sandboxKind>>
  BY <1>1 DEF talkVars
<1>3. CliTypes'
  BY <1>2 DEF CliInv, CliTypes
<1>4. TalkHolds'
  BY <1>1, <1>2 DEF CliInv, TalkHolds, Silent
<1>5. FilesHold'
  <2>1. remote' \in [Paths -> Nat]
    BY <1>1 DEF CliInv, FilesHold, UploadWorkspace
  <2>2. ~Running /\ ~Running'
    BY <1>1, <1>2 DEF CliInv, TalkHolds, Running
  <2> QED BY <1>1, <1>2, <2>1, <2>2 DEF CliInv, FilesHold
<1> QED BY <1>3, <1>4, <1>5 DEF CliInv

(* The session has not begun: only config and the worker's step change.      *)
LEMMA ConnectInv ==
  ASSUME CliInv, SetupFails \/ StageConfig \/ CliStartFails PROVE CliInv'
<1>1. /\ cliAt \in {"prepare", "connect"} /\ cliAt' \in {"failed", cliAt}
      /\ UNCHANGED <<sandboxKind, pinned, preparedCli, resume>> /\ UNCHANGED talkVars /\ UNCHANGED workVars
  BY DEF SetupFails, StageConfig, CliStartFails, hostVars
<1>2. UNCHANGED <<cli, stdout, taken, receiver, split, sandboxKind>>
  BY <1>1 DEF talkVars
<1>3. CliTypes'
  BY <1>2 DEF CliInv, CliTypes
<1>4. TalkHolds'
  BY <1>1, <1>2 DEF CliInv, TalkHolds, Silent
<1>5. ~Running /\ ~Running'
  BY <1>1, <1>2 DEF CliInv, TalkHolds, Running
<1>6. FilesHold'
  BY <1>1, <1>2, <1>5 DEF CliInv, FilesHold, workVars
<1> QED BY <1>3, <1>4, <1>6 DEF CliInv

LEMMA StartSessionInv == ASSUME CliInv, StartSession PROVE CliInv'
<1>1. /\ cliAt = "connect" /\ (resume => config = "whole") /\ cliAt' = "talk"
      /\ cli' = [cli EXCEPT !.state = "running"] /\ receiver' = [receiver EXCEPT !.state = "reading"]
      /\ UNCHANGED <<stdout, taken, split>> /\ UNCHANGED hostVars /\ UNCHANGED workVars
  BY DEF StartSession
<1>2. cli \in CliRow /\ cli.wrote = 0 /\ cli.state = "none" /\ receiver.state = "idle" /\ Silent
  BY <1>1 DEF CliInv, CliTypes, TalkHolds
<1>3. cli' \in CliRow /\ cli'.wrote = 0 /\ cli'.state = "running" /\ cli'.loose = cli.loose
  BY <1>1, <1>2 DEF CliRow
<1>4. receiver' = [state |-> "reading", buffer |-> receiver.buffer, got |-> receiver.got]
  BY <1>1 DEF CliInv, CliTypes
<1>5. /\ receiver' \in [state : ReceiverState, buffer : Seq(Heard), got : Seq(CliMessage)]
      /\ receiver'.state = "reading" /\ receiver'.buffer = << >> /\ receiver'.got = << >>
      /\ stdout' = << >> /\ taken' = 0
  BY <1>1, <1>2, <1>4 DEF CliInv, CliTypes, Silent, ReceiverState
<1>6. CliTypes'
  BY <1>1, <1>3, <1>5 DEF CliInv, CliTypes
<1>7. Talks'
  <2>1. Len(stdout') = 0 /\ Len(receiver'.buffer) = 0 /\ Len(receiver'.got) = 0 /\ Behind' = 0
    <3>1. Len(stdout') = 0 /\ Len(receiver'.buffer) = 0 /\ Len(receiver'.got) = 0
      <4>1. \A s : s = << >> => Len(s) = 0
        OBVIOUS
      <4> QED BY <1>5, <4>1
    <3>2. 0 - 0 = 0
      OBVIOUS
    <3> QED BY <1>5, <3>1, <3>2 DEF Behind
  <2>2. \A i : ~ClosesAt(i)'
    BY <2>1 DEF ClosesAt
  <2>3. ObjectsWhole' /\ LinesEnd'
    BY <2>1, <2>2 DEF ObjectsWhole, LinesEnd
  <2>4. ObjectsOrdered' /\ GotAll'
    BY <1>3, <2>1, <2>2 DEF ObjectsOrdered, GotAll
  <2>5. BufferIs' /\ BufferBegins'
    BY <1>5, <2>1 DEF BufferIs, BufferBegins
  <2> QED BY <2>3, <2>4, <2>5 DEF Talks
<1>8. TalkHolds'
  BY <1>1, <1>5, <1>7 DEF TalkHolds
<1>9. FilesHold'
  BY <1>1, <1>3 DEF CliInv, FilesHold, Running, hostVars, workVars
<1> QED BY <1>6, <1>8, <1>9 DEF CliInv

LEMMA EditFileInv == ASSUME CliInv, NEW p \in Paths, NEW v \in {0, 2}, EditFile(p, v) PROVE CliInv'
<1>1. /\ Running /\ cli' = [cli EXCEPT !.edits = @ + 1] /\ remote' = [remote EXCEPT ![p] = v]
      /\ UNCHANGED <<cliAt, stdout, taken, receiver, split, local, archive, unwritten>>
      /\ UNCHANGED hostVars
  BY DEF EditFile
<1>2. /\ cli' \in CliRow /\ cli'.state = cli.state /\ cli'.wrote = cli.wrote /\ cli'.code = cli.code
      /\ cli'.loose = cli.loose
  <2>1. cli \in CliRow
    BY DEF CliInv, CliTypes
  <2> QED BY <1>1, <2>1 DEF CliRow
<1>3. CliTypes'
  BY <1>1, <1>2 DEF CliInv, CliTypes
<1>4. Talks => Talks'
  BY <1>1, <1>2, TalksStay DEF hostVars
<1>5. TalkHolds'
  BY <1>1, <1>2, <1>4 DEF CliInv, TalkHolds, Silent, Running, hostVars
<1>6. FilesHold'
  <2>1. remote' \in [Paths -> Nat]
    BY <1>1 DEF CliInv, FilesHold
  <2>2. cliAt \in {"collect", "write", "over"} => cli.loose
    BY <1>1 DEF CliInv, FilesHold
  <2> QED BY <1>1, <1>2, <2>1, <2>2 DEF CliInv, FilesHold, Running, hostVars
<1> QED BY <1>3, <1>5, <1>6 DEF CliInv

LEMMA CliExitsInv == ASSUME CliInv, NEW code \in {0, 1}, CliExits(code) PROVE CliInv'
<1>1. /\ Running /\ cli' = [cli EXCEPT !.state = "exited", !.code = code]
      /\ UNCHANGED <<cliAt, stdout, taken, receiver, split>> /\ UNCHANGED hostVars /\ UNCHANGED workVars
  BY DEF CliExits
<1>2. /\ cli' \in CliRow /\ cli'.state = "exited" /\ cli'.wrote = cli.wrote /\ cli'.code = code
      /\ cli'.loose = cli.loose
  <2>1. cli \in CliRow
    BY DEF CliInv, CliTypes
  <2> QED BY <1>1, <2>1 DEF CliRow
<1>3. CliTypes'
  BY <1>1, <1>2 DEF CliInv, CliTypes
<1>4. Talks => Talks'
  BY <1>1, <1>2, TalksStay DEF hostVars
<1>5. TalkHolds'
  <2>1. cliAt \notin {"prepare", "connect"} /\ receiver.state \notin {"ended", "done", "short"}
    BY <1>1 DEF CliInv, TalkHolds, Running
  <2>2. sandboxKind' = sandboxKind
    BY <1>1 DEF hostVars
  <2> QED BY <1>1, <1>2, <1>4, <2>1, <2>2 DEF CliInv, TalkHolds, Silent
<1>6. FilesHold'
  BY <1>1, <1>2 DEF CliInv, FilesHold, Running, hostVars, workVars
<1> QED BY <1>3, <1>5, <1>6 DEF CliInv

LEMMA CliAnswerInv == ASSUME CliInv, Answer PROVE CliInv'
<1>1. /\ Running /\ cli' = [cli EXCEPT !.answered = @ + 1]
      /\ UNCHANGED <<cliAt, stdout, taken, receiver, split>> /\ UNCHANGED hostVars /\ UNCHANGED workVars
  BY DEF Answer
<1>2. /\ cli' \in CliRow /\ cli'.state = cli.state /\ cli'.wrote = cli.wrote /\ cli'.code = cli.code
      /\ cli'.loose = cli.loose
  <2>1. cli \in CliRow
    BY DEF CliInv, CliTypes
  <2> QED BY <1>1, <2>1 DEF CliRow
<1>3. CliTypes'
  BY <1>1, <1>2 DEF CliInv, CliTypes
<1>4. Talks => Talks'
  BY <1>1, <1>2, TalksStay DEF hostVars
<1>5. TalkHolds'
  BY <1>1, <1>2, <1>4 DEF CliInv, TalkHolds, Silent, Running, hostVars
<1>6. FilesHold'
  BY <1>1, <1>2 DEF CliInv, FilesHold, Running, hostVars, workVars
<1> QED BY <1>3, <1>5, <1>6 DEF CliInv

(* The end of the output, and the exit code asked for after it, change only   *)
(* what state the receiver is in.                                            *)
Concludes(s) ==
  /\ receiver' = [receiver EXCEPT !.state = s]
  /\ UNCHANGED <<cliAt, cli, stdout, taken, split>> /\ UNCHANGED hostVars /\ UNCHANGED workVars

LEMMA ConcludesInv ==
  ASSUME CliInv, NEW s \in ReceiverState \ {"idle"}, receiver.state # "idle", Concludes(s),
         s \in {"ended", "done"} => ~Running /\ Len(receiver.got) = cli.wrote,
         s \in {"done", "short"} => cli.state = "exited" /\ cli.code = 0,
         s \in {"cut", "short"} => sandboxKind = "daytona"
  PROVE CliInv'
<1>1. /\ receiver' = [receiver EXCEPT !.state = s]
      /\ UNCHANGED <<cliAt, cli, stdout, taken, split>> /\ UNCHANGED hostVars /\ UNCHANGED workVars
  BY DEF Concludes
<1>2. CliTypes /\ Talks /\ cliAt = "talk"
  BY DEF CliInv, TalkHolds
<1>3. /\ receiver' \in [state : ReceiverState, buffer : Seq(Heard), got : Seq(CliMessage)]
      /\ receiver'.state = s /\ receiver'.buffer = receiver.buffer /\ receiver'.got = receiver.got
  BY <1>1, <1>2 DEF CliTypes
<1>4. CliTypes'
  BY <1>1, <1>3 DEF CliInv, CliTypes
<1>5. Talks'
  BY <1>1, <1>2, <1>3, TalksStay DEF hostVars
<1>6. TalkHolds'
  <2>1. s # "idle" /\ sandboxKind' = sandboxKind
    BY <1>1 DEF hostVars
  <2> QED BY <1>1, <1>2, <1>3, <1>5, <2>1 DEF TalkHolds, Running
<1>7. FilesHold'
  BY <1>1 DEF CliInv, FilesHold, Running, hostVars, workVars
<1> QED BY <1>4, <1>6, <1>7 DEF CliInv

LEMMA LogEndsInv == ASSUME CliInv, LogEnds PROVE CliInv'
<1>1. receiver.state = "reading" /\ "reading" # "idle"
  BY DEF LogEnds
<1>2. CliTypes /\ Talks
  BY <1>1 DEF CliInv, TalkHolds
<1>3. {"ended", "cut", "failed"} \subseteq ReceiverState \ {"idle"}
  BY DEF ReceiverState
<1>4. CASE ~Running /\ taken = Len(stdout) /\ Concludes("ended")
  <2>1. \A i : ClosesAt(i) => i <= taken
    BY <1>2, <1>4 DEF ClosesAt, CliTypes
  <2>2. Len(receiver.got) = cli.wrote
    BY <1>2, <2>1, AllGot DEF Talks
  <2> QED BY <1>1, <1>3, <1>4, <2>2, ConcludesInv
<1>5. CASE sandboxKind = "daytona" /\ Concludes("cut")
  BY <1>1, <1>3, <1>5, ConcludesInv
<1>6. CASE Concludes("failed")
  BY <1>1, <1>3, <1>6, ConcludesInv
<1> QED BY <1>4, <1>5, <1>6 DEF LogEnds, Concludes

LEMMA ReadExitCodeInv == ASSUME CliInv, ReadExitCode PROVE CliInv'
<1>1. receiver.state \in {"ended", "cut"} /\ receiver.state # "idle"
  BY DEF ReadExitCode
<1>2. {"done", "short", "failed"} \subseteq ReceiverState \ {"idle"}
  BY DEF ReceiverState
<1>3. ExitCode = 0 => cli.state = "exited" /\ cli.code = 0
  BY DEF ExitCode
<1>4. CASE receiver.state = "ended" /\ ExitCode = 0 /\ Concludes("done")
  <2>1. ~Running /\ Len(receiver.got) = cli.wrote
    BY <1>4 DEF CliInv, TalkHolds, Running
  <2> QED BY <1>1, <1>2, <1>3, <1>4, <2>1, ConcludesInv
<1>5. CASE receiver.state = "cut" /\ ExitCode = 0 /\ Concludes("short")
  <2>1. sandboxKind = "daytona"
    BY <1>5 DEF CliInv, TalkHolds
  <2> QED BY <1>1, <1>2, <1>3, <1>5, <2>1, ConcludesInv
<1>6. CASE Concludes("failed")
  BY <1>1, <1>2, <1>6, ConcludesInv
<1>7. ASSUME ExitCode = 0, receiver' = [receiver EXCEPT !.state = IF @ = "ended" THEN "done" ELSE "short"]
      PROVE \/ receiver.state = "ended" /\ receiver' = [receiver EXCEPT !.state = "done"]
            \/ receiver.state = "cut" /\ receiver' = [receiver EXCEPT !.state = "short"]
  BY <1>1, <1>7
<1> QED BY <1>4, <1>5, <1>6, <1>7 DEF ReadExitCode, Concludes

LEMMA CloseInv == ASSUME CliInv, Close PROVE CliInv'
<1>1. /\ cliAt = "talk" /\ cliAt' = "collect" /\ cli' \in {Killed, LetLoose}
      /\ receiver' = [state |-> "idle", buffer |-> << >>, got |-> << >>]
      /\ stdout' = << >> /\ taken' = 0 /\ split' = FALSE
      /\ UNCHANGED hostVars /\ UNCHANGED workVars
  BY DEF Close, DaytonaTerminate, E2BTerminate, KubernetesTerminate
<1>2. /\ receiver' \in [state : ReceiverState, buffer : Seq(Heard), got : Seq(CliMessage)]
      /\ receiver'.state = "idle" /\ receiver'.buffer = << >> /\ receiver'.got = << >>
  <2>1. << >> \in Seq(Heard) /\ << >> \in Seq(CliMessage)
    OBVIOUS
  <2> QED BY <1>1, <2>1 DEF ReceiverState
<1>3. stdout' \in Seq(Token)
  BY <1>1
<1>4. /\ cli' \in CliRow
      /\ cli'.state = "running" => cli.state = "running" /\ cli'.loose
  <2>1. cli \in CliRow
    BY DEF CliInv, CliTypes
  <2>2. CASE cli' = Killed
    BY <2>1, <2>2 DEF Killed, CliRow, Running
  <2>3. CASE cli' = LetLoose
    BY <2>1, <2>3 DEF LetLoose, CliRow, Running
  <2> QED BY <1>1, <2>2, <2>3
<1>5. CliTypes'
  BY <1>1, <1>2, <1>3, <1>4 DEF CliTypes
<1>6. TalkHolds'
  BY <1>1, <1>2 DEF TalkHolds, Silent
<1>7. FilesHold'
  BY <1>1, <1>4 DEF CliInv, FilesHold, Running, hostVars, workVars
<1> QED BY <1>5, <1>6, <1>7 DEF CliInv

(* The workspace comes back after the session: nothing of the talk changes.  *)
LEMMA CollectInv ==
  ASSUME CliInv, StartCollect \/ Collected \/ CollectFails \/ \E p \in Paths : CollectFile(p) PROVE CliInv'
<1>1. /\ cliAt \in {"collect", "write"} /\ cliAt' \in {"write", "over", "failed"}
      /\ UNCHANGED hostVars /\ UNCHANGED talkVars /\ remote' = remote
  BY DEF StartCollect, Collected, CollectFails, CollectFile, workVars
<1>2. UNCHANGED <<cli, stdout, taken, receiver, split, sandboxKind>>
  BY <1>1 DEF talkVars, hostVars
<1>3. CliTypes'
  BY <1>2 DEF CliInv, CliTypes
<1>4. TalkHolds'
  BY <1>1, <1>2 DEF CliInv, TalkHolds, Silent
<1>5. /\ Running' => (pinned' \/ preparedCli') /\ (resume' => config' = "whole")
      /\ cliAt' \in {"collect", "write", "over"} /\ ~cli'.loose => ~Running'
  BY <1>1, <1>2 DEF CliInv, FilesHold, Running, hostVars
<1>6. CASE StartCollect
  <2>1. cliAt' = "write" /\ unwritten' = {p \in Paths : remote[p] # 0} /\ archive' = remote /\ local' = local
    BY <1>6 DEF StartCollect, ListedFiles, Packed
  <2>2. \A p \in Paths : local[p] = 1
    BY <1>6 DEF StartCollect, CliInv, FilesHold
  <2>3. \A p \in Paths \ unwritten' : remote[p] = 0 /\ local[p] = 1
    BY <2>1, <2>2
  <2>4. FilesHold'
    BY <1>1, <1>5, <2>1, <2>3 DEF CliInv, FilesHold
  <2> QED BY <1>3, <1>4, <2>4 DEF CliInv
<1>7. CASE Collected
  <2>1. cliAt = "write" /\ unwritten = {} /\ cliAt' = "over" /\ UNCHANGED workVars
    BY <1>7 DEF Collected
  <2>2. FilesHold'
    BY <1>2, <1>5, <2>1 DEF CliInv, FilesHold, workVars
  <2> QED BY <1>3, <1>4, <2>2 DEF CliInv
<1>8. CASE CollectFails
  <2>1. cliAt' = "failed" /\ UNCHANGED <<local, remote, archive>>
    BY <1>8 DEF CollectFails
  <2>2. FilesHold'
    BY <1>5, <2>1 DEF CliInv, FilesHold
  <2> QED BY <1>3, <1>4, <2>2 DEF CliInv
<1>9. ASSUME NEW p \in Paths, CollectFile(p) PROVE CliInv'
  <2>1. cliAt = "write" /\ cliAt' = "write" /\ unwritten' = unwritten \ {p} /\ archive' = archive
    BY <1>9 DEF CollectFile
  <2>2. \/ local' = [local EXCEPT ![p] = archive[p]]
        \/ local' = [local EXCEPT ![p] = remote[p]]
    BY <1>9 DEF CollectFile, DaytonaExtract, KubernetesExtract, E2BDownload
  <2>3. local' \in [Paths -> Nat]
    BY <2>2 DEF CliInv, FilesHold
  <2>4. ~cli.loose => archive = remote
    BY <2>1 DEF CliInv, FilesHold
  <2>5. ~cli.loose => local'[p] = remote[p] /\ \A o \in Paths \ {p} : local'[o] = local[o]
    BY <2>2, <2>4 DEF CliInv, FilesHold
  <2>6. FilesHold'
    BY <1>1, <1>2, <1>5, <2>1, <2>3, <2>4, <2>5 DEF CliInv, FilesHold
  <2> QED BY <1>3, <1>4, <2>6 DEF CliInv
<1> QED BY <1>6, <1>7, <1>8, <1>9

LEMMA CliStepInv == ASSUME CliInv, CliNext \/ UNCHANGED cliVars PROVE CliInv'
<1>1. CASE UNCHANGED cliVars
  <2>1. UNCHANGED <<sandboxKind, cliAt, pinned, preparedCli, config, resume, cli, stdout, taken, receiver, split, local,
                    remote, archive, unwritten>>
    BY <1>1 DEF cliVars
  <2>2. CliTypes' /\ FilesHold'
    BY <2>1 DEF CliInv, CliTypes, FilesHold, Running
  <2>3. Talks => Talks'
    BY <2>1, TalksStay
  <2>4. TalkHolds'
    BY <2>1, <2>3 DEF CliInv, TalkHolds, Silent, Running
  <2> QED BY <2>2, <2>4 DEF CliInv
<1>2. CASE CliNext
  BY <1>2, PrepareInv, ConnectInv, StartSessionInv, WriteMessageInv, PrintJunkInv, CliAnswerInv, LogEndsInv,
     ReadExitCodeInv, CloseInv, EditFileInv, CliExitsInv, ReadChunkInv, CollectInv DEF CliNext
<1> QED BY <1>1, <1>2

LEMMA CliInvImplies == CliInv => CliHeard /\ MirrorAsRemote
<1> SUFFICES ASSUME CliInv PROVE CliHeard /\ MirrorAsRemote
  OBVIOUS
<1>0. CliTypes
  BY DEF CliInv
<1>1. MirrorAsRemote
  BY DEF CliInv, FilesHold, MirrorAsRemote
<1>2. DOMAIN receiver.got = 1 .. Len(receiver.got)
  BY <1>0 DEF CliTypes
<1>3. CASE receiver.state = "idle"
  <2>1. Len(receiver.got) = 0
    BY <1>3 DEF CliInv, TalkHolds, Silent
  <2>2. 0 <= cli.wrote
    BY <1>0 DEF CliTypes, CliRow
  <2>3. CliHeard
    BY <1>2, <1>3, <2>1, <2>2 DEF CliHeard
  <2> QED BY <1>1, <2>3
<1>4. CASE receiver.state # "idle"
  <2>1. Talks
    BY <1>4 DEF CliInv, TalkHolds
  <2>2. \A k \in DOMAIN receiver.got : receiver.got[k].of = k /\ (receiver.got[k].intact \/ split)
    BY <1>2, <2>1 DEF Talks, GotAll
  <2>3. Len(receiver.got) <= cli.wrote
    BY <1>0, <2>1, AllGot DEF Talks
  <2>4. ASSUME taken = Readable PROVE Len(receiver.got) = cli.wrote
    <3>1. ASSUME NEW i, ClosesAt(i) PROVE i <= taken
      <4>1. i \in 1 .. Len(stdout) /\ Len(stdout) \in Nat
        BY <1>0, <3>1 DEF ClosesAt, CliTypes
      <4>2. CASE sandboxKind = "daytona"
        <5>1. i + 4 <= Len(stdout)
          BY <2>1, <3>1, <4>2 DEF Talks, LinesEnd
        <5>2. taken \in 0 .. Len(stdout) /\ Len(stdout) - taken <= 4
          BY <1>0, <2>4, ReadableIs
        <5>3. \A l \in Nat : \A j \in 1 .. l : \A t \in 0 .. l : j + 4 <= l /\ l - t <= 4 => j <= t
          OBVIOUS
        <5> QED BY <4>1, <5>1, <5>2, <5>3
      <4>3. CASE sandboxKind # "daytona"
        BY <2>4, <4>1, <4>3 DEF Readable
      <4> QED BY <4>2, <4>3
    <3> QED BY <1>0, <2>1, <3>1, AllGot DEF Talks
  <2>5. /\ receiver.state = "done" => Len(receiver.got) = cli.wrote
        /\ receiver.state \in {"done", "short"} => cli.state = "exited" /\ cli.code = 0
        /\ receiver.state = "short" => sandboxKind = "daytona"
    BY DEF CliInv, TalkHolds
  <2>6. CliHeard
    BY <2>2, <2>3, <2>4, <2>5 DEF CliHeard
  <2> QED BY <1>1, <2>6
<1> QED BY <1>3, <1>4

-----------------------------------------------------------------------------
(* What a thread shows of its edits and regenerations.                       *)

(* Induction, for a set of numbers.                                         *)
LEMMA AllNumbers ==
  ASSUME NEW ns \in SUBSET Nat, 0 \in ns, \A n \in ns : n + 1 \in ns
  PROVE  ns = Nat
<1> DEFINE rest == Nat \ ns
<1> SUFFICES ASSUME rest # {} PROVE FALSE
  OBVIOUS
<1>1. PICK x \in rest : \A y \in rest : ~(<<y, x>> \in OpToRel(<, Nat))
  BY WFMin, NatLessThanWellFounded
<1>2. \A y \in rest : ~(y < x)
  BY <1>1 DEF OpToRel
<1>3. x # 0 /\ x - 1 \in Nat /\ x - 1 \notin rest
  BY <1>2
<1> QED BY <1>3
(* Rows of a thread's Runs, and the Run that each message has.               *)
ThreadRun == [prompt : Prompt, prompts : Seq(Prompt), key : Nat,
              status : {"running", "waiting", "ended"}, answered : BOOLEAN, updated : Nat]
ThreadPost == [run : Nat, prompt : Prompt]
HistoryTypes ==
  /\ history \in Seq(ThreadRun) /\ posts \in Seq(ThreadPost) /\ branch \in Seq(Nat) /\ folded \in BOOLEAN

(* Runs are made in the order of the messages they are keyed by, and a        *)
(* message's Run has its prompt.                                             *)
KeysGrow ==
  \A i \in 1 .. Len(history) :
    /\ history[i].key \in 1 .. Len(posts)
    /\ \A j \in 1 .. Len(history) : i < j => history[i].key < history[j].key
PostsAnswered ==
  \A p \in 1 .. Len(posts) : /\ posts[p].run \in 1 .. Len(history)
                             /\ history[posts[p].run].prompt = posts[p].prompt
BranchGrows ==
  \A k \in 1 .. Len(branch) :
    /\ branch[k] \in 1 .. Len(posts)
    /\ \A l \in 1 .. Len(branch) : k < l => branch[k] < branch[l]

(* While no message of the branch shares a Run, each has its own, and the last *)
(* one's Run is the latest and stores the prompts of the branch.             *)
OwnRuns ==
  posts # << >> /\ ~folded =>
    /\ Len(branch) > 0 /\ posts[branch[Len(branch)]].run = Len(history)
    /\ \A k \in 1 .. Len(branch) : history[posts[branch[k]].run].key = branch[k]
    /\ Len(history[Len(history)].prompts) = Len(branch)
    /\ \A k \in 1 .. Len(branch) : history[Len(history)].prompts[k] = posts[branch[k]].prompt

HistInv == HistoryTypes /\ KeysGrow /\ PostsAnswered /\ BranchGrows /\ OwnRuns

LEMMA HistLengths == HistInv => Len(history) \in Nat /\ Len(posts) \in Nat /\ Len(branch) \in Nat
BY DEF HistInv, HistoryTypes

LEMMA HistInitInv == HistoryInit => HistInv
<1> SUFFICES ASSUME HistoryInit PROVE HistInv
  OBVIOUS
<1>1. history = << >> /\ posts = << >> /\ branch = << >> /\ folded = FALSE
  BY DEF HistoryInit
<1>2. Len(history) = 0 /\ Len(posts) = 0 /\ Len(branch) = 0
  BY <1>1
<1>3. HistoryTypes
  <2>1. << >> \in Seq(ThreadRun) /\ << >> \in Seq(ThreadPost) /\ << >> \in Seq(Nat)
    OBVIOUS
  <2> QED BY <1>1, <2>1 DEF HistoryTypes
<1> QED BY <1>1, <1>2, <1>3 DEF HistInv, KeysGrow, PostsAnswered, BranchGrows, OwnRuns

(* Times of change are ranked anew without touching anything else of a row.  *)
SameRun(x, y) == x.prompt = y.prompt /\ x.prompts = y.prompts /\ x.key = y.key

LEMMA RankedIs ==
  ASSUME NEW rows \in Seq(ThreadRun)
  PROVE  /\ Ranked(rows) \in Seq(ThreadRun) /\ Len(Ranked(rows)) = Len(rows)
         /\ \A i \in 1 .. Len(rows) : SameRun(Ranked(rows)[i], rows[i])
<1>1. PICK len \in Nat : len = Len(rows) /\ DOMAIN rows = 1 .. len
  OBVIOUS
<1> DEFINE rank(i) == Cardinality({j \in DOMAIN rows : rows[j].updated < rows[i].updated})
<1>2. \A i \in 1 .. len : rank(i) \in Nat
  <2> SUFFICES ASSUME NEW i \in 1 .. len PROVE rank(i) \in Nat
    OBVIOUS
  <2>1. IsFiniteSet(1 .. len)
    BY FS_Interval
  <2>2. IsFiniteSet({j \in DOMAIN rows : rows[j].updated < rows[i].updated})
    BY <1>1, <2>1, FS_Subset
  <2> QED BY <2>2, FS_CardinalityType
<1>3. Ranked(rows) = [i \in 1 .. len |-> [rows[i] EXCEPT !.updated = rank(i)]]
  BY <1>1 DEF Ranked
<1> HIDE DEF rank
<1>4. ASSUME NEW one \in ThreadRun, NEW r \in Nat
      PROVE  [one EXCEPT !.updated = r] \in ThreadRun /\ SameRun([one EXCEPT !.updated = r], one)
  <2>1. one = [prompt |-> one.prompt, prompts |-> one.prompts, key |-> one.key, status |-> one.status,
               answered |-> one.answered, updated |-> one.updated]
    BY DEF ThreadRun
  <2>2. [one EXCEPT !.updated = r] =
          [prompt |-> one.prompt, prompts |-> one.prompts, key |-> one.key, status |-> one.status,
           answered |-> one.answered, updated |-> r]
    BY <2>1
  <2> QED BY <2>2 DEF ThreadRun, SameRun
<1>5. \A i \in 1 .. len : Ranked(rows)[i] \in ThreadRun /\ SameRun(Ranked(rows)[i], rows[i])
  <2> SUFFICES ASSUME NEW i \in 1 .. len
      PROVE  Ranked(rows)[i] \in ThreadRun /\ SameRun(Ranked(rows)[i], rows[i])
    OBVIOUS
  <2>1. rows[i] \in ThreadRun
    BY <1>1
  <2>2. Ranked(rows)[i] = [rows[i] EXCEPT !.updated = rank(i)]
    BY <1>3
  <2> QED BY <1>2, <1>4, <2>1, <2>2
<1>6. Ranked(rows) \in [1 .. len -> ThreadRun]
  <2>1. DOMAIN Ranked(rows) = 1 .. len /\ Ranked(rows) = [i \in 1 .. len |-> Ranked(rows)[i]]
    BY <1>3
  <2> QED BY <1>5, <2>1
<1> QED BY <1>1, <1>5, <1>6, IsSequence

(* The rows go on: they keep their prompts and their messages.               *)
RowsStay ==
  /\ history' \in Seq(ThreadRun) /\ Len(history') = Len(history)
  /\ \A i \in 1 .. Len(history) : SameRun(history'[i], history[i])

LEMMA RowsStayInv == ASSUME HistInv, RowsStay, UNCHANGED <<posts, branch, folded>> PROVE HistInv'
<1>1. /\ Len(history') = Len(history)
      /\ \A i \in 1 .. Len(history) : /\ history'[i].prompt = history[i].prompt
                                      /\ history'[i].prompts = history[i].prompts
                                      /\ history'[i].key = history[i].key
  BY DEF RowsStay, SameRun
<1>2. HistoryTypes'
  BY DEF HistInv, HistoryTypes, RowsStay
<1>3. KeysGrow'
  BY <1>1 DEF HistInv, KeysGrow
<1>4. PostsAnswered'
  BY <1>1 DEF HistInv, PostsAnswered
<1>5. BranchGrows'
  BY DEF HistInv, BranchGrows
<1>6. OwnRuns'
  <2> SUFFICES ASSUME posts # << >>, ~folded
      PROVE /\ Len(branch) > 0 /\ posts[branch[Len(branch)]].run = Len(history)
            /\ \A k \in 1 .. Len(branch) : history'[posts[branch[k]].run].key = branch[k]
            /\ Len(history'[Len(history)].prompts) = Len(branch)
            /\ \A k \in 1 .. Len(branch) : history'[Len(history)].prompts[k] = posts[branch[k]].prompt
    BY <1>1 DEF OwnRuns
  <2>1. OwnRuns /\ PostsAnswered /\ BranchGrows
    BY DEF HistInv
  <2>2. \A k \in 1 .. Len(branch) : posts[branch[k]].run \in 1 .. Len(history)
    BY <2>1 DEF PostsAnswered, BranchGrows
  <2>3. Len(branch) > 0 /\ posts[branch[Len(branch)]].run = Len(history)
    BY <2>1 DEF OwnRuns
  <2>4. Len(branch) \in Nat
    BY DEF HistInv, HistoryTypes
  <2>5. Len(history) \in 1 .. Len(history)
    <3>1. Len(branch) \in 1 .. Len(branch)
      BY <2>3, <2>4
    <3> QED BY <2>2, <2>3, <3>1
  <2> QED BY <1>1, <2>1, <2>2, <2>3, <2>5 DEF OwnRuns
<1> QED BY <1>2, <1>3, <1>4, <1>5, <1>6 DEF HistInv

LEMMA ChangeStays ==
  ASSUME HistInv, NEW i \in 1 .. Len(history), NEW one \in ThreadRun, SameRun(one, history[i]), Change(i, one)
  PROVE  RowsStay
<1>1. history \in Seq(ThreadRun)
  BY DEF HistInv, HistoryTypes
<1>a. PICK stamped : stamped = [one EXCEPT !.updated = Stamp]
  OBVIOUS
<1>2. stamped \in ThreadRun /\ SameRun(stamped, history[i])
  <2>1. Stamp \in Nat
    BY <1>1 DEF Stamp
  <2>2. one = [prompt |-> one.prompt, prompts |-> one.prompts, key |-> one.key, status |-> one.status,
               answered |-> one.answered, updated |-> one.updated]
    BY DEF ThreadRun
  <2>3. stamped = [prompt |-> one.prompt, prompts |-> one.prompts, key |-> one.key, status |-> one.status,
                   answered |-> one.answered, updated |-> Stamp]
    BY <1>a, <2>2
  <2> QED BY <2>1, <2>3 DEF ThreadRun, SameRun
<1>b. PICK rows : rows = [history EXCEPT ![i] = stamped]
  OBVIOUS
<1>3. /\ rows \in Seq(ThreadRun) /\ Len(rows) = Len(history)
      /\ \A j \in 1 .. Len(history) : rows[j] = IF j = i THEN stamped ELSE history[j]
  BY <1>1, <1>2, <1>b
<1>4. history' = Ranked(rows)
  BY <1>a, <1>b DEF Change
<1>5. /\ Ranked(rows) \in Seq(ThreadRun) /\ Len(Ranked(rows)) = Len(rows)
      /\ \A j \in 1 .. Len(rows) : SameRun(Ranked(rows)[j], rows[j])
  BY <1>3, RankedIs
<1>6. \A j \in 1 .. Len(history) : SameRun(rows[j], history[j])
  BY <1>2, <1>3 DEF SameRun
<1> QED BY <1>3, <1>4, <1>5, <1>6 DEF RowsStay, SameRun

LEMMA StreamEventInv ==
  ASSUME HistInv, NEW i \in RunIndex, NEW text \in BOOLEAN, StreamEvent(i, text) PROVE HistInv'
<1>1. /\ history' = [history EXCEPT ![i].answered = text] /\ history \in Seq(ThreadRun)
      /\ i \in 1 .. Len(history)
  BY DEF StreamEvent, HistInv, HistoryTypes, RunIndex
<1>a. PICK one : one = [history[i] EXCEPT !.answered = text]
  OBVIOUS
<1>2. one \in ThreadRun /\ SameRun(one, history[i])
  <2>1. history[i] \in ThreadRun
    BY <1>1
  <2>2. history[i] = [prompt |-> history[i].prompt, prompts |-> history[i].prompts, key |-> history[i].key,
                      status |-> history[i].status, answered |-> history[i].answered,
                      updated |-> history[i].updated]
    BY <2>1 DEF ThreadRun
  <2>3. one = [prompt |-> history[i].prompt, prompts |-> history[i].prompts, key |-> history[i].key,
               status |-> history[i].status, answered |-> text, updated |-> history[i].updated]
    BY <1>a, <2>2
  <2> QED BY <2>1, <2>3 DEF ThreadRun, SameRun
<1>3. history' = [history EXCEPT ![i] = one]
  BY <1>1, <1>a
<1>4. RowsStay
  <2>1. /\ history' \in Seq(ThreadRun) /\ Len(history') = Len(history)
        /\ \A j \in 1 .. Len(history) : history'[j] = IF j = i THEN one ELSE history[j]
    BY <1>1, <1>2, <1>3
  <2> QED BY <1>2, <2>1 DEF RowsStay, SameRun
<1> QED BY <1>4, RowsStayInv DEF StreamEvent

LEMMA StatusSet ==
  ASSUME NEW one \in ThreadRun, NEW status \in {"running", "waiting", "ended"}
  PROVE  [one EXCEPT !.status = status] \in ThreadRun /\ SameRun([one EXCEPT !.status = status], one)
<1>1. one = [prompt |-> one.prompt, prompts |-> one.prompts, key |-> one.key, status |-> one.status,
             answered |-> one.answered, updated |-> one.updated]
  BY DEF ThreadRun
<1>2. [one EXCEPT !.status = status] =
        [prompt |-> one.prompt, prompts |-> one.prompts, key |-> one.key, status |-> status,
         answered |-> one.answered, updated |-> one.updated]
  BY <1>1
<1> QED BY <1>2 DEF ThreadRun, SameRun

LEMMA MoveTurnInv ==
  ASSUME HistInv, NEW i \in RunIndex, NEW status \in {"running", "waiting", "ended"}, MoveTurn(i, status)
  PROVE  HistInv'
<1>1. history \in Seq(ThreadRun) /\ i \in 1 .. Len(history)
  BY DEF HistInv, HistoryTypes, RunIndex
<1>a. PICK one : one = [history[i] EXCEPT !.status = status]
  OBVIOUS
<1>2. one \in ThreadRun /\ SameRun(one, history[i])
  <2>1. history[i] \in ThreadRun
    BY <1>1
  <2>2. /\ [history[i] EXCEPT !.status = status] \in ThreadRun
        /\ SameRun([history[i] EXCEPT !.status = status], history[i])
    BY <2>1, StatusSet
  <2> QED BY <1>a, <2>2
<1>3. Change(i, one)
  BY <1>a DEF MoveTurn
<1>4. RowsStay
  BY <1>1, <1>2, <1>3, ChangeStays
<1> QED BY <1>4, RowsStayInv DEF MoveTurn

LEMMA CancelTurnInv == ASSUME HistInv, NEW p \in DOMAIN posts, CancelTurn(p) PROVE HistInv'
<1>1. /\ history \in Seq(ThreadRun) /\ p \in 1 .. Len(posts) /\ DOMAIN history = 1 .. Len(history)
      /\ posts[p].run \in 1 .. Len(history)
  BY DEF HistInv, HistoryTypes, PostsAnswered
<1>2. PICK i \in 1 .. Len(history) : Change(i, [history[i] EXCEPT !.status = "ended"])
  BY <1>1 DEF CancelTurn, RunIndex, Turn
<1>a. PICK one : one = [history[i] EXCEPT !.status = "ended"]
  OBVIOUS
<1>3. one \in ThreadRun /\ SameRun(one, history[i])
  <2>1. history[i] \in ThreadRun /\ "ended" \in {"running", "waiting", "ended"}
    BY <1>1
  <2>2. /\ [history[i] EXCEPT !.status = "ended"] \in ThreadRun
        /\ SameRun([history[i] EXCEPT !.status = "ended"], history[i])
    BY <2>1, StatusSet
  <2> QED BY <1>a, <2>2
<1>4. RowsStay
  BY <1>1, <1>2, <1>3, <1>a, ChangeStays
<1> QED BY <1>4, RowsStayInv DEF CancelTurn

(* A message goes behind those of the branch that are kept.                  *)
Posted(n, prompt, r) ==
  /\ posts' \in Seq(ThreadPost) /\ Len(posts') = Len(posts) + 1
  /\ \A p \in 1 .. Len(posts) : posts'[p] = posts[p]
  /\ posts'[Len(posts) + 1].run = r /\ posts'[Len(posts) + 1].prompt = prompt
  /\ branch' \in Seq(Nat) /\ Len(branch') = n + 1
  /\ \A k \in 1 .. n : branch'[k] = branch[k]
  /\ branch'[n + 1] = Len(posts) + 1

LEMMA AppendedIs ==
  ASSUME NEW S, NEW s \in Seq(S), NEW x \in S
  PROVE  /\ Append(s, x) \in Seq(S) /\ Len(Append(s, x)) = Len(s) + 1
         /\ \A i \in 1 .. Len(s) : Append(s, x)[i] = s[i]
         /\ Append(s, x)[Len(s) + 1] = x
OBVIOUS

LEMMA KeptIs ==
  ASSUME HistInv, NEW n \in 0 .. Len(branch)
  PROVE  /\ SubSeq(branch, 1, n) \in Seq(Nat) /\ Len(SubSeq(branch, 1, n)) = n
         /\ \A k \in 1 .. n : SubSeq(branch, 1, n)[k] = branch[k]
<1>1. branch \in Seq(Nat) /\ Len(branch) \in Nat /\ n \in Nat
  BY DEF HistInv, HistoryTypes
<1>2. \A l \in Nat : \A m \in 0 .. l : 1 .. m \subseteq 1 .. l
  OBVIOUS
<1>3. SubSeq(branch, 1, n) = [k \in 1 .. n |-> branch[k]]
  <2>1. SubSeq(branch, 1, n) = [k \in 1 .. n - 1 + 1 |-> branch[k + 1 - 1]]
    BY <1>1
  <2>2. n - 1 + 1 = n /\ \A k \in 1 .. n : k + 1 - 1 = k
    BY <1>1
  <2> QED BY <2>1, <2>2
<1>4. [k \in 1 .. n |-> branch[k]] \in [1 .. n -> Nat]
  BY <1>1, <1>2
<1> QED BY <1>1, <1>3, <1>4, IsSequence

LEMMA PostedIs ==
  ASSUME HistInv, NEW n \in 0 .. Len(branch), NEW prompt \in Prompt, NEW r \in Nat,
         posts' = Append(posts, [run |-> r, prompt |-> prompt]),
         branch' = Append(SubSeq(branch, 1, n), Len(posts) + 1)
  PROVE  Posted(n, prompt, r)
<1>a. PICK sent \in ThreadPost : sent = [run |-> r, prompt |-> prompt]
  BY DEF ThreadPost
<1>b. PICK kept \in Seq(Nat) : kept = SubSeq(branch, 1, n)
  BY KeptIs
<1>1. posts \in Seq(ThreadPost) /\ posts' = Append(posts, sent) /\ sent.run = r /\ sent.prompt = prompt
  BY <1>a DEF HistInv, HistoryTypes
<1>2. Len(kept) = n /\ \A k \in 1 .. n : kept[k] = branch[k]
  BY <1>b, KeptIs
<1>3. /\ posts' \in Seq(ThreadPost) /\ Len(posts') = Len(posts) + 1
      /\ \A p \in 1 .. Len(posts) : posts'[p] = posts[p]
      /\ posts'[Len(posts) + 1] = sent
  BY <1>1
<1>c. PICK next \in Nat : next = Len(posts) + 1
  <2>1. Len(posts) + 1 \in Nat
    BY <1>1
  <2> QED BY <2>1
<1>4. branch' = Append(kept, next)
  BY <1>b, <1>c
<1>5. /\ branch' \in Seq(Nat) /\ Len(branch') = Len(kept) + 1
      /\ \A k \in 1 .. Len(kept) : branch'[k] = kept[k]
      /\ branch'[Len(kept) + 1] = next
  <2>1. /\ Append(kept, next) \in Seq(Nat) /\ Len(Append(kept, next)) = Len(kept) + 1
        /\ \A k \in 1 .. Len(kept) : Append(kept, next)[k] = kept[k]
        /\ Append(kept, next)[Len(kept) + 1] = next
    BY AppendedIs
  <2> QED BY <1>4, <2>1
<1> QED BY <1>1, <1>2, <1>3, <1>5, <1>c DEF Posted

LEMMA PostedBranch ==
  ASSUME HistInv, NEW n \in 0 .. Len(branch), NEW prompt, NEW r, Posted(n, prompt, r)
  PROVE  BranchGrows' /\ \A k \in 1 .. n : branch[k] \in 1 .. Len(posts) /\ branch'[k] = branch[k]
<1>1. Len(posts) \in Nat /\ Len(branch) \in Nat /\ n \in Nat
  BY DEF HistInv, HistoryTypes
<1>2. \A k \in 1 .. n : /\ branch[k] \in 1 .. Len(posts)
                        /\ \A l \in 1 .. n : k < l => branch[k] < branch[l]
  <2>1. 1 .. n \subseteq 1 .. Len(branch)
    BY <1>1
  <2> QED BY <2>1 DEF HistInv, BranchGrows
<1>3. \A k \in 1 .. n + 1 : k \in 1 .. n \/ k = n + 1
  BY <1>1
<1>a. PICK l \in Nat : l = Len(posts)
  BY <1>1
<1>4. \A v \in 1 .. l : v \in 1 .. l + 1 /\ v < l + 1
  OBVIOUS
<1>5. l + 1 \in 1 .. l + 1 /\ ~(n + 1 < n + 1) /\ \A k \in 1 .. n : ~(n + 1 < k)
  BY <1>1
<1>6. ASSUME NEW k \in 1 .. n + 1
      PROVE  /\ branch'[k] \in 1 .. l + 1
             /\ \A j \in 1 .. n + 1 : k < j => branch'[k] < branch'[j]
  <2>1. CASE k \in 1 .. n
    <3>1. branch'[k] = branch[k] /\ branch[k] \in 1 .. l
      BY <1>2, <1>a, <2>1 DEF Posted
    <3>2. ASSUME NEW j \in 1 .. n + 1, k < j PROVE branch'[k] < branch'[j]
      <4>1. CASE j \in 1 .. n
        BY <1>2, <2>1, <3>2, <4>1 DEF Posted
      <4>2. CASE j = n + 1
        <5>1. branch'[j] = l + 1
          BY <1>a, <4>2 DEF Posted
        <5> QED BY <1>4, <3>1, <5>1
      <4> QED BY <1>3, <4>1, <4>2
    <3> QED BY <1>4, <3>1, <3>2
  <2>2. CASE k = n + 1
    <3>1. branch'[k] = l + 1
      BY <1>a, <2>2 DEF Posted
    <3>2. \A j \in 1 .. n + 1 : ~(k < j)
      BY <1>3, <1>5, <2>2
    <3> QED BY <1>5, <3>1, <3>2
  <2> QED BY <1>3, <2>1, <2>2
<1>7. Len(branch') = n + 1 /\ Len(posts') = l + 1
  BY <1>a DEF Posted
<1>8. BranchGrows'
  BY <1>6, <1>7 DEF BranchGrows
<1> QED BY <1>2, <1>8 DEF Posted

(* A message that shares the Run of another.                                 *)
LEMMA SharedRun ==
  ASSUME HistInv, NEW n \in 0 .. Len(branch), NEW prompt \in Prompt, NEW r \in 1 .. Len(history),
         Posted(n, prompt, r), history' = history, folded' = TRUE, history[r].prompt = prompt
  PROVE  HistInv'
<1>1. HistoryTypes'
  BY DEF HistInv, HistoryTypes, Posted
<1>a. PICK l \in Nat : l = Len(posts)
  BY HistLengths
<1>0. 1 .. l \subseteq 1 .. l + 1 /\ \A p \in 1 .. l + 1 : p \in 1 .. l \/ p = l + 1
  OBVIOUS
<1>2. KeysGrow'
  BY <1>0, <1>a DEF HistInv, KeysGrow, Posted
<1>3. PostsAnswered'
  BY <1>0, <1>a DEF HistInv, PostsAnswered, Posted
<1>4. BranchGrows'
  BY PostedBranch
<1>5. OwnRuns'
  BY DEF OwnRuns
<1> QED BY <1>1, <1>2, <1>3, <1>4, <1>5 DEF HistInv

(* A message with a Run of its own.                                          *)
Added(prompt, prompts) ==
  /\ history' \in Seq(ThreadRun) /\ Len(history') = Len(history) + 1
  /\ \A i \in 1 .. Len(history) : SameRun(history'[i], history[i])
  /\ history'[Len(history) + 1].prompt = prompt
  /\ history'[Len(history) + 1].prompts = prompts
  /\ history'[Len(history) + 1].key = Len(posts) + 1

LEMMA OwnRun ==
  ASSUME HistInv, NEW n \in 0 .. Len(branch), NEW prompt \in Prompt, Posted(n, prompt, Len(history) + 1),
         NEW prompts, Added(prompt, prompts), folded' \in BOOLEAN,
         ~folded' => \A k \in 1 .. n : history[posts[branch[k]].run].key = branch[k],
         Len(prompts) = n + 1, \A k \in 1 .. n : prompts[k] = posts[branch[k]].prompt, prompts[n + 1] = prompt
  PROVE  HistInv'
<1>1. HistoryTypes'
  BY DEF HistoryTypes, Posted, Added
<1>a. PICK l \in Nat : l = Len(posts)
  BY HistLengths
<1>b. PICK h \in Nat : h = Len(history)
  BY HistLengths
<1>0. /\ 1 .. l \subseteq 1 .. l + 1 /\ (\A p \in 1 .. l + 1 : p \in 1 .. l \/ p = l + 1) /\ l + 1 \in 1 .. l + 1
      /\ \A v \in 1 .. l : v < l + 1
  OBVIOUS
<1>c. /\ 1 .. h \subseteq 1 .. h + 1 /\ (\A p \in 1 .. h + 1 : p \in 1 .. h \/ p = h + 1) /\ h + 1 \in 1 .. h + 1
      /\ \A i \in 1 .. h : ~(h + 1 < i) 
      /\ ~(h + 1 < h + 1)
  OBVIOUS
<1>2. \A i \in 1 .. h : /\ history'[i].key = history[i].key /\ history'[i].prompt = history[i].prompt
                        /\ history[i].key \in 1 .. l
                        /\ \A j \in 1 .. h : i < j => history[i].key < history[j].key
  BY <1>a, <1>b DEF HistInv, KeysGrow, Added, SameRun
<1>3. KeysGrow'
  <2>1. history'[h + 1].key = l + 1
    BY <1>a, <1>b DEF Added
  <2>2. ASSUME NEW i \in 1 .. h + 1
        PROVE  /\ history'[i].key \in 1 .. l + 1
               /\ \A j \in 1 .. h + 1 : i < j => history'[i].key < history'[j].key
    <3>1. CASE i \in 1 .. h
      <4>1. ASSUME NEW j \in 1 .. h + 1, i < j PROVE history'[i].key < history'[j].key
        <5>1. CASE j \in 1 .. h
          BY <1>2, <3>1, <4>1, <5>1
        <5>2. CASE j = h + 1
          BY <1>0, <1>2, <2>1, <3>1, <5>2
        <5> QED BY <1>c, <5>1, <5>2
      <4> QED BY <1>0, <1>2, <3>1, <4>1
    <3>2. CASE i = h + 1
      BY <1>0, <1>c, <2>1, <3>2
    <3> QED BY <1>c, <3>1, <3>2
  <2>3. Len(history') = h + 1 /\ Len(posts') = l + 1
    BY <1>a, <1>b DEF Added, Posted
  <2> QED BY <2>2, <2>3 DEF KeysGrow
<1>4. \A p \in 1 .. l : posts'[p] = posts[p] /\ posts[p].run \in 1 .. h /\ history[posts[p].run].prompt = posts[p].prompt
  BY <1>a, <1>b DEF HistInv, PostsAnswered, Posted
<1>5. /\ posts'[l + 1].run = h + 1 /\ posts'[l + 1].prompt = prompt /\ Len(posts') = l + 1
      /\ Len(history') = h + 1 /\ history'[h + 1].prompt = prompt /\ history'[h + 1].prompts = prompts
      /\ history'[h + 1].key = l + 1
  BY <1>a, <1>b DEF Posted, Added
<1>6. PostsAnswered'
  <2>1. ASSUME NEW p \in 1 .. l + 1
        PROVE  posts'[p].run \in 1 .. h + 1 /\ history'[posts'[p].run].prompt = posts'[p].prompt
    <3>1. CASE p \in 1 .. l
      BY <1>2, <1>4, <1>c, <3>1
    <3>2. CASE p = l + 1
      BY <1>5, <1>c, <3>2
    <3> QED BY <1>0, <3>1, <3>2
  <2> QED BY <1>5, <2>1 DEF PostsAnswered
<1>7. BranchGrows' /\ \A k \in 1 .. n : branch[k] \in 1 .. l /\ branch'[k] = branch[k]
  BY <1>a, PostedBranch
<1>8. OwnRuns'
  <2> SUFFICES ASSUME ~folded' PROVE OwnRuns'
    BY DEF OwnRuns
  <2>1. Len(branch') = n + 1 /\ branch'[n + 1] = l + 1
    BY <1>a DEF Posted
  <2>2. n \in Nat /\ n + 1 > 0 /\ \A k \in 1 .. n + 1 : k \in 1 .. n \/ k = n + 1
    BY DEF HistInv, HistoryTypes
  <2>3. ASSUME NEW k \in 1 .. n + 1
        PROVE  /\ history'[posts'[branch'[k]].run].key = branch'[k]
               /\ prompts[k] = posts'[branch'[k]].prompt
    <3>1. CASE k \in 1 .. n
      <4>1. branch'[k] = branch[k] /\ branch[k] \in 1 .. l /\ posts'[branch[k]] = posts[branch[k]]
        BY <1>4, <1>7, <3>1
      <4>2. history'[posts[branch[k]].run].key = history[posts[branch[k]].run].key
        BY <1>2, <1>4, <4>1
      <4> QED BY <3>1, <4>1, <4>2
    <3>2. CASE k = n + 1
      BY <1>5, <2>1, <3>2
    <3> QED BY <2>2, <3>1, <3>2
  <2>4. posts'[branch'[n + 1]].run = h + 1
    BY <1>5, <2>1
  <2> QED BY <1>5, <2>1, <2>2, <2>3, <2>4 DEF OwnRuns
<1> QED BY <1>1, <1>3, <1>6, <1>7, <1>8 DEF HistInv

LEMMA CreateRunInv ==
  ASSUME HistInv, NEW n \in 0 .. Len(branch), NEW prompt \in Prompt, CreateRun(n, prompt)
  PROVE  HistInv'
<1>a. PICK kept : kept = SubSeq(branch, 1, n)
  OBVIOUS
<1>b. PICK same : same = {i \in RunIndex : Unended(i) /\ history[i].prompt = prompt}
  OBVIOUS
<1>c. PICK h \in Nat : h = Len(history) /\ RunIndex = 1 .. h
  BY DEF HistInv, HistoryTypes, RunIndex
<1>1. /\ kept \in Seq(Nat) /\ Len(kept) = n /\ DOMAIN kept = 1 .. n
      /\ \A k \in 1 .. n : kept[k] = branch[k] /\ branch[k] \in 1 .. Len(posts)
  <2>1. 1 .. n \subseteq 1 .. Len(branch)
    BY DEF HistInv, HistoryTypes
  <2> QED BY <1>a, <2>1, KeptIs DEF HistInv, BranchGrows
<1>2. CASE same # {}
  <2>1. PICK r \in same : posts' = Append(posts, [run |-> r, prompt |-> prompt])
    <3>1. (CHOOSE i \in same : TRUE) \in same
      BY <1>2
    <3>2. posts' = Append(posts, [run |-> CHOOSE i \in same : TRUE, prompt |-> prompt])
      BY <1>2, <1>b DEF CreateRun
    <3> QED BY <3>1, <3>2
  <2>2. history' = history /\ branch' = Append(SubSeq(branch, 1, n), Len(posts) + 1)
    BY <1>2, <1>b DEF CreateRun
  <2>3. folded' = TRUE
    BY <1>2, <1>b DEF CreateRun
  <2>4. r \in 1 .. h /\ r \in Nat /\ history[r].prompt = prompt
    BY <1>b, <1>c
  <2>5. Posted(n, prompt, r)
    BY <2>1, <2>2, <2>4, PostedIs
  <2> QED BY <1>c, <2>2, <2>3, <2>4, <2>5, SharedRun
<1>3. CASE same = {}
  <2>a. PICK prompts : prompts = UserPrompts(kept, prompt)
    OBVIOUS
  <2>b. PICK one : one = [prompt |-> prompt, prompts |-> prompts, key |-> Len(posts) + 1,
                          status |-> "running", answered |-> FALSE, updated |-> Stamp]
    OBVIOUS
  <2>1. /\ history' = Ranked(Append(history, one))
        /\ posts' = Append(posts, [run |-> h + 1, prompt |-> prompt])
        /\ branch' = Append(SubSeq(branch, 1, n), Len(posts) + 1)
        /\ folded' = \E p \in {kept[i] : i \in DOMAIN kept} : history[Turn(p).run].key # p
    BY <1>3, <1>a, <1>b, <1>c, <2>a, <2>b DEF CreateRun
  <2>2. Posted(n, prompt, h + 1)
    BY <1>c, <2>1, PostedIs
  <2>3. /\ prompts \in Seq(Prompt) /\ Len(prompts) = n + 1
        /\ \A k \in 1 .. n : prompts[k] = posts[branch[k]].prompt
        /\ prompts[n + 1] = prompt
    <3>a. PICK old : old = [i \in 1 .. n |-> posts[kept[i]].prompt]
      OBVIOUS
    <3>1. prompts = Append(old, prompt)
      BY <1>1, <2>a, <3>a DEF UserPrompts, Turn
    <3>2. \A k \in 1 .. n : posts[kept[k]].prompt \in Prompt /\ posts[kept[k]].prompt = posts[branch[k]].prompt
      <4>1. \A p \in 1 .. Len(posts) : posts[p] \in ThreadPost
        BY DEF HistInv, HistoryTypes
      <4>2. \A sent \in ThreadPost : sent.prompt \in Prompt
        BY DEF ThreadPost
      <4> QED BY <1>1, <4>1, <4>2
    <3>3. old \in [1 .. n -> Prompt]
      BY <3>2, <3>a
    <3>4. old \in Seq(Prompt) /\ Len(old) = n
      <4>1. n \in Nat
        BY DEF HistInv, HistoryTypes
      <4> QED BY <3>3, <4>1, IsSequence
    <3>5. /\ Append(old, prompt) \in Seq(Prompt) /\ Len(Append(old, prompt)) = Len(old) + 1
          /\ \A i \in 1 .. Len(old) : Append(old, prompt)[i] = old[i]
          /\ Append(old, prompt)[Len(old) + 1] = prompt
      BY <3>4
    <3> QED BY <3>1, <3>2, <3>4, <3>5, <3>a
  <2>4. one \in ThreadRun
    <3>1. Len(posts) + 1 \in Nat /\ Stamp \in Nat
      BY DEF HistInv, HistoryTypes, Stamp
    <3> QED BY <2>3, <2>b, <3>1 DEF ThreadRun
  <2>5. /\ Append(history, one) \in Seq(ThreadRun) /\ Len(Append(history, one)) = h + 1
        /\ \A i \in 1 .. h : Append(history, one)[i] = history[i]
        /\ Append(history, one)[h + 1] = one
    BY <1>c, <2>4 DEF HistInv, HistoryTypes
  <2>c. PICK rows \in Seq(ThreadRun) : rows = Append(history, one)
    BY <2>5
  <2>6. /\ history' \in Seq(ThreadRun) /\ Len(history') = h + 1
        /\ \A i \in 1 .. h + 1 : SameRun(history'[i], rows[i])
    <3>1. /\ Ranked(rows) \in Seq(ThreadRun) /\ Len(Ranked(rows)) = Len(rows)
          /\ \A i \in 1 .. Len(rows) : SameRun(Ranked(rows)[i], rows[i])
      BY RankedIs
    <3> QED BY <2>1, <2>5, <2>c, <3>1
  <2>7. Added(prompt, prompts)
    <3>1. h + 1 \in 1 .. h + 1 /\ 1 .. h \subseteq 1 .. h + 1
      OBVIOUS
    <3>2. \A i \in 1 .. h : SameRun(history'[i], history[i])
      BY <2>5, <2>6, <2>c, <3>1
    <3>3. SameRun(history'[h + 1], one)
      BY <2>5, <2>6, <2>c, <3>1
    <3> QED BY <1>c, <2>6, <2>b, <3>2, <3>3 DEF Added, SameRun
  <2>8. ~folded' => \A k \in 1 .. n : history[posts[branch[k]].run].key = branch[k]
    BY <1>1, <2>1 DEF Turn
  <2>9. folded' \in BOOLEAN
    BY <2>1
  <2> QED BY <1>c, <2>2, <2>3, <2>7, <2>8, <2>9, OwnRun
<1> QED BY <1>2, <1>3

LEMMA HistStepInv == ASSUME HistInv, HistoryNext \/ UNCHANGED historyVars PROVE HistInv'
<1>1. CASE UNCHANGED <<history, posts, branch, folded>>
  BY <1>1 DEF HistInv, HistoryTypes, KeysGrow, PostsAnswered, BranchGrows, OwnRuns
<1>2. CASE HistoryNext
  <2>1. CASE RestartApi
    BY <1>1, <2>1 DEF RestartApi
  <2> QED BY <1>2, <2>1, CreateRunInv, StreamEventInv, MoveTurnInv, CancelTurnInv DEF HistoryNext
<1> QED BY <1>1, <1>2 DEF historyVars

-----------------------------------------------------------------------------
(* What the thread shows.                                                    *)

(* A thread short enough is listed whole, in its order.                      *)
LEMMA ListedWhole ==
  ASSUME HistInv, Len(history) <= MaxListed PROVE ListForSessions = 1 .. Len(history)
<1>1. /\ Len(history) \in Nat /\ DOMAIN history = 1 .. Len(history) /\ MaxListed \in Nat
      /\ \A i \in 1 .. Len(history) : history[i] \in ThreadRun
  BY ListedAssumption DEF HistInv, HistoryTypes
<1>a. PICK h \in Nat : h = Len(history)
  BY <1>1
<1>2. ASSUME NEW i \in 1 .. h PROVE Recent(i) < MaxListed
  <2> DEFINE later == {j \in RunIndex : history[j].updated > history[i].updated}
             others == (1 .. h) \ {i}
  <2>1. IsFiniteSet(1 .. h) /\ Cardinality(1 .. h) = h
    BY FS_Interval
  <2>2. IsFiniteSet(others) /\ Cardinality(others) = h - 1
    BY <2>1, FS_RemoveElement
  <2>3. history[i].updated \in Nat
    BY <1>1, <1>a DEF ThreadRun
  <2>4. later \in SUBSET others
    <3>1. i \notin later
      BY <2>3
    <3>2. later \in SUBSET (1 .. h)
      BY <1>1, <1>a DEF RunIndex
    <3> QED BY <3>1, <3>2
  <2> HIDE DEF later, others
  <2>5. IsFiniteSet(later) /\ Cardinality(later) <= Cardinality(others)
    BY <2>2, <2>4, FS_Subset
  <2>6. Cardinality(later) \in Nat
    BY <2>5, FS_CardinalityType
  <2>7. Recent(i) = Cardinality(later)
    BY DEF Recent, later
  <2>8. h <= MaxListed
    BY <1>a
  <2> QED BY <1>1, <2>2, <2>5, <2>6, <2>7, <2>8
<1> QED BY <1>1, <1>2, <1>a DEF ListForSessions, RunIndex

LEMMA OrderedIs == ASSUME NEW h \in Nat PROVE Ordered(1 .. h) = [k \in 1 .. h |-> k]
<1> DEFINE rank(i) == Cardinality({j \in 1 .. h : j < i})
<1>1. Cardinality(1 .. h) = h
  BY FS_Interval
<1>2. ASSUME NEW i \in 1 .. h PROVE rank(i) = i - 1
  <2>1. {j \in 1 .. h : j < i} = 1 .. i - 1
    OBVIOUS
  <2>2. i - 1 \in Nat
    OBVIOUS
  <2>3. Cardinality(1 .. i - 1) = IF 1 > i - 1 THEN 0 ELSE i - 1 - 1 + 1
    BY <2>2, FS_Interval
  <2>4. Cardinality(1 .. i - 1) = i - 1
    BY <2>2, <2>3
  <2> QED BY <2>1, <2>4
<1>3. Ordered(1 .. h) = [k \in 1 .. h |-> CHOOSE i \in 1 .. h : rank(i) = k - 1]
  BY <1>1 DEF Ordered
<1> HIDE DEF rank
<1>4. ASSUME NEW k \in 1 .. h PROVE (CHOOSE i \in 1 .. h : rank(i) = k - 1) = k
  <2>1. \E i \in 1 .. h : rank(i) = k - 1
    BY <1>2
  <2>a. PICK c \in 1 .. h : c = (CHOOSE i \in 1 .. h : rank(i) = k - 1) /\ rank(c) = k - 1
    BY <2>1
  <2>2. c - 1 = k - 1
    BY <1>2, <2>a
  <2> QED BY <2>2, <2>a
<1> QED BY <1>3, <1>4

(* The search does not go past a Run that has the prompt.                    *)
Findable(t, cursor, h, prompt) == cursor > 0 /\ t \in cursor .. h - 1 /\ history[t].prompt = prompt

LEMMA FirstMatchIs ==
  ASSUME NEW h \in Nat, NEW cursor \in Nat, NEW t, NEW prompt, Findable(t, cursor, h, prompt)
  PROVE  \E k \in cursor .. t : FirstMatch([i \in 1 .. h |-> i], cursor, prompt) = {k}
                                /\ history[k].prompt = prompt
<1>a. PICK ord : ord = [i \in 1 .. h |-> i]
  OBVIOUS
<1>1. Len(ord) = h /\ \A i \in 1 .. h : ord[i] = i
  <2>1. ord \in [1 .. h -> Nat]
    BY <1>a
  <2> QED BY <1>a, <2>1, IsSequence
<1> DEFINE those == {k \in cursor .. h - 1 : history[k].prompt = prompt}
<1>2. t \in those /\ those \in SUBSET Nat /\ t \in cursor .. h - 1 /\ cursor > 0
  BY DEF Findable
<1>3. PICK k \in those : \A l \in those : k <= l
  BY <1>2, LeastOf
<1>4. k \in cursor .. t /\ history[k].prompt = prompt
  BY <1>2, <1>3
<1>5. \A l \in cursor .. h - 1 : ord[l] = l
  <2>1. cursor > 0
    BY <1>2
  <2> QED BY <1>1, <2>1
<1>6. FirstMatch(ord, cursor, prompt) =
        {x \in cursor .. h - 1 : /\ history[x].prompt = prompt
                                 /\ \A l \in cursor .. x - 1 : history[l].prompt # prompt}
  BY <1>1, <1>5 DEF FirstMatch
<1>7. ASSUME NEW x \in cursor .. h - 1, history[x].prompt = prompt,
             \A l \in cursor .. x - 1 : history[l].prompt # prompt
      PROVE  x = k
  <2>1. x \in those /\ k <= x
    BY <1>3, <1>7
  <2>2. k \notin cursor .. x - 1
    BY <1>4, <1>7
  <2> QED BY <1>4, <2>1, <2>2
<1>8. \A l \in cursor .. k - 1 : history[l].prompt # prompt
  <2> SUFFICES ASSUME NEW l \in cursor .. k - 1, history[l].prompt = prompt PROVE FALSE
    OBVIOUS
  <2>1. l \in those /\ ~(k <= l)
    BY <1>4
  <2> QED BY <1>3, <2>1
<1>9. FirstMatch(ord, cursor, prompt) = {k}
  <2>1. k \in cursor .. h - 1
    BY <1>4
  <2> QED BY <1>4, <1>6, <1>7, <1>8, <2>1
<1> QED BY <1>4, <1>9, <1>a

(* The Runs f for the prompts, one behind the other; and a selection s of as  *)
(* many places, none behind that Run.                                        *)
Path(f, prompts, m, h) ==
  \A k \in 1 .. m : /\ f[k] \in 1 .. h - 1 /\ history[f[k]].prompt = prompts[k]
                    /\ \A l \in 1 .. m : k < l => f[k] < f[l]
Greedy(s, f, prompts, n) ==
  /\ s \in Seq(Nat) /\ Len(s) = n
  /\ \A k \in 1 .. n : /\ s[k] \in 1 .. f[k] /\ history[s[k]].prompt = prompts[k]
                       /\ k > 1 => s[k - 1] < s[k]

LEMMA PlacedNextIs ==
  ASSUME NEW h \in Nat, NEW f, NEW prompts, NEW m \in Nat, Path(f, prompts, m, h), NEW n \in 1 .. m, NEW s,
         Greedy(s, f, prompts, n - 1)
  PROVE  Greedy(PlacedNext(s, n, [i \in 1 .. h |-> i], prompts[n]), f, prompts, n)
<1>a. PICK ord : ord = [i \in 1 .. h |-> i]
  OBVIOUS
<1>1. n \in Nat /\ n >= 1 /\ n - 1 \in Nat /\ n \in 1 .. m
  OBVIOUS
<1>2. f[n] \in 1 .. h - 1 /\ history[f[n]].prompt = prompts[n]
  BY DEF Path
<1>3. n > 1 => /\ n - 1 \in 1 .. n - 1 /\ n - 1 \in 1 .. m /\ s[n - 1] \in 1 .. f[n - 1]
               /\ f[n - 1] \in 1 .. h - 1 /\ f[n - 1] < f[n]
  <2>1. n > 1 => n - 1 \in 1 .. n - 1 /\ n - 1 \in 1 .. m /\ n - 1 < n
    BY <1>1
  <2> QED BY <2>1 DEF Path, Greedy
<1>b. PICK cursor \in Nat : /\ cursor = IF n = 1 THEN 1 ELSE s[n - 1] + 1
                            /\ cursor > 0 /\ f[n] \in cursor .. h - 1
                            /\ n > 1 => s[n - 1] < cursor /\ s[n - 1] # 0
  <2>1. CASE n = 1
    BY <1>2, <2>1
  <2>2. CASE n # 1
    <3>1. n > 1
      BY <1>1, <2>2
    <3>2. s[n - 1] + 1 \in Nat /\ s[n - 1] + 1 > 0 /\ f[n] \in s[n - 1] + 1 .. h - 1
          /\ s[n - 1] < s[n - 1] + 1 /\ s[n - 1] # 0
      BY <1>2, <1>3, <3>1
    <3> QED BY <2>2, <3>2
  <2> QED BY <2>1, <2>2
<1>4. PICK k \in cursor .. f[n] : FirstMatch(ord, cursor, prompts[n]) = {k} /\ history[k].prompt = prompts[n]
  <2>1. cursor > 0 /\ f[n] \in cursor .. h - 1
    BY <1>b
  <2>2. Findable(f[n], cursor, h, prompts[n])
    BY <1>2, <2>1 DEF Findable
  <2>3. \E k \in cursor .. f[n] : FirstMatch([i \in 1 .. h |-> i], cursor, prompts[n]) = {k}
                                  /\ history[k].prompt = prompts[n]
    BY <2>2, FirstMatchIs
  <2> QED BY <1>a, <2>3
<1>5. PlacedNext(s, n, ord, prompts[n]) = Append(s, k)
  <2>1. ~(n > 1 /\ s[n - 1] = 0)
    BY <1>b
  <2>2. {k} # {} /\ (CHOOSE x \in {k} : TRUE) = k
    OBVIOUS
  <2> QED BY <1>4, <1>b, <2>1, <2>2 DEF PlacedNext
<1>6. k \in Nat /\ k \in 1 .. f[n] /\ (n > 1 => s[n - 1] < k)
  <2>1. n > 1 => s[n - 1] \in Nat
    BY <1>3
  <2> QED BY <1>2, <1>b, <2>1
<1>c. PICK t : t = Append(s, k)
  OBVIOUS
<1>7. t \in Seq(Nat) /\ Len(t) = n /\ t[n] = k /\ \A j \in 1 .. n - 1 : t[j] = s[j]
  <2>1. s \in Seq(Nat) /\ Len(s) = n - 1
    BY DEF Greedy
  <2>2. /\ Append(s, k) \in Seq(Nat) /\ Len(Append(s, k)) = Len(s) + 1
        /\ \A i \in 1 .. Len(s) : Append(s, k)[i] = s[i]
        /\ Append(s, k)[Len(s) + 1] = k
    BY <1>6, <2>1
  <2>3. Len(s) + 1 = n
    BY <1>1, <2>1
  <2> QED BY <1>c, <2>1, <2>2, <2>3
<1>8. ASSUME NEW j \in 1 .. n
      PROVE  /\ t[j] \in 1 .. f[j] /\ history[t[j]].prompt = prompts[j]
             /\ j > 1 => t[j - 1] < t[j]
  <2>1. CASE j = n
    <3>1. n > 1 => t[n - 1] = s[n - 1]
      BY <1>3, <1>7
    <3> QED BY <1>4, <1>6, <1>7, <2>1, <3>1
  <2>2. CASE j # n
    <3>1. j \in 1 .. n - 1 /\ (j > 1 => j - 1 \in 1 .. n - 1)
      BY <1>1, <2>2
    <3>2. /\ s[j] \in 1 .. f[j] /\ history[s[j]].prompt = prompts[j]
          /\ j > 1 => s[j - 1] < s[j]
      BY <3>1 DEF Greedy
    <3> QED BY <1>7, <3>1, <3>2
  <2> QED BY <2>1, <2>2
<1>9. Greedy(t, f, prompts, n)
  BY <1>7, <1>8 DEF Greedy
<1> QED BY <1>5, <1>9, <1>a, <1>c

(* The function that MatchedPlaces defines along the prompts.                *)
IsMatching(ord, prompts, g, m) ==
  g = [n \in 0 .. m |-> IF n = 0 THEN << >> ELSE PlacedNext(g[n - 1], n, ord, prompts[n])]

LEMMA MatchingExists == ASSUME NEW ord, NEW prompts, NEW m \in Nat PROVE \E g : IsMatching(ord, prompts, g, m)
<1> DEFINE ns == {n \in Nat : \E g : IsMatching(ord, prompts, g, n)}
<1>1. 0 \in ns
  <2> DEFINE g == [n \in 0 .. 0 |-> << >>]
  <2>1. IsMatching(ord, prompts, g, 0)
    BY DEF IsMatching
  <2> QED BY <2>1
<1>2. ASSUME NEW n \in ns PROVE n + 1 \in ns
  <2>1. PICK g : IsMatching(ord, prompts, g, n)
    OBVIOUS
  <2> DEFINE h == [i \in 0 .. n + 1 |-> IF i <= n THEN g[i] ELSE PlacedNext(g[n], n + 1, ord, prompts[n + 1])]
  <2>2. ASSUME NEW i \in 0 .. n + 1
        PROVE h[i] = IF i = 0 THEN << >> ELSE PlacedNext(h[i - 1], i, ord, prompts[i])
    <3>1. CASE i = 0
      BY <2>1, <3>1 DEF IsMatching
    <3>2. CASE i # 0 /\ i <= n
      <4>1. h[i] = g[i] /\ h[i - 1] = g[i - 1] /\ i \in 0 .. n
        BY <3>2
      <4>2. g[i] = PlacedNext(g[i - 1], i, ord, prompts[i])
        BY <2>1, <3>2, <4>1 DEF IsMatching
      <4> QED BY <3>2, <4>1, <4>2
    <3>3. CASE i = n + 1
      <4>1. h[i] = PlacedNext(g[n], n + 1, ord, prompts[n + 1]) /\ h[i - 1] = g[n] /\ i # 0
        BY <3>3
      <4> QED BY <3>3, <4>1
    <3> QED BY <3>1, <3>2, <3>3
  <2>3. IsMatching(ord, prompts, h, n + 1)
    <3> HIDE DEF h
    <3>1. h = [i \in 0 .. n + 1 |-> h[i]]
      BY DEF h
    <3> QED BY <2>2, <3>1 DEF IsMatching
  <2> QED BY <2>3
<1> HIDE DEF ns
<1>3. ns = Nat
  BY <1>1, <1>2, AllNumbers DEF ns
<1> QED BY <1>3 DEF ns

LEMMA MatchedIs ==
  ASSUME NEW ord, NEW prompts, Len(prompts) - 1 \in Nat
  PROVE  \E g : /\ IsMatching(ord, prompts, g, Len(prompts) - 1)
                /\ MatchedPlaces(ord, prompts) = g[Len(prompts) - 1]
<1> DEFINE g == CHOOSE f : IsMatching(ord, prompts, f, Len(prompts) - 1)
<1>1. IsMatching(ord, prompts, g, Len(prompts) - 1)
  BY MatchingExists
<1>2. MatchedPlaces(ord, prompts) = g[Len(prompts) - 1]
  BY DEF MatchedPlaces, IsMatching
<1> QED BY <1>1, <1>2

LEMMA MatchedGreedily ==
  ASSUME NEW h \in Nat, NEW f, NEW prompts, NEW m \in Nat, m = Len(prompts) - 1, Path(f, prompts, m, h)
  PROVE  Greedy(MatchedPlaces([i \in 1 .. h |-> i], prompts), f, prompts, m)
<1>a. PICK ord : ord = [i \in 1 .. h |-> i]
  OBVIOUS
<1>1. PICK g : IsMatching(ord, prompts, g, m) /\ MatchedPlaces(ord, prompts) = g[m]
  BY MatchedIs
<1> DEFINE ns == {n \in Nat : n <= m => Greedy(g[n], f, prompts, n)}
<1>2. 0 \in ns
  <2>1. g[0] = << >>
    BY <1>1 DEF IsMatching
  <2>2. Greedy(<< >>, f, prompts, 0)
    BY DEF Greedy
  <2> QED BY <2>1, <2>2
<1>3. ASSUME NEW n \in ns PROVE n + 1 \in ns
  <2> SUFFICES ASSUME n + 1 <= m PROVE Greedy(g[n + 1], f, prompts, n + 1)
    OBVIOUS
  <2>1. n + 1 \in 1 .. m /\ n + 1 \in 0 .. m /\ n + 1 - 1 = n /\ n + 1 # 0 /\ n <= m
    OBVIOUS
  <2>2. Greedy(g[n], f, prompts, n)
    BY <2>1
  <2>3. g[n + 1] = PlacedNext(g[n], n + 1, ord, prompts[n + 1])
    BY <1>1, <2>1 DEF IsMatching
  <2>4. Greedy(PlacedNext(g[n], n + 1, [i \in 1 .. h |-> i], prompts[n + 1]), f, prompts, n + 1)
    BY <2>1, <2>2, PlacedNextIs
  <2> QED BY <1>a, <2>3, <2>4
<1> HIDE DEF ns
<1>4. ns = Nat
  BY <1>2, <1>3, AllNumbers DEF ns
<1>5. Greedy(g[m], f, prompts, m)
  BY <1>4 DEF ns
<1> QED BY <1>1, <1>5, <1>a

(* The Runs of the branch are such a path, so each of its prompts has a Run,  *)
(* and the last is the latest.                                               *)
LEMMA BranchIsPath ==
  ASSUME HistInv, posts # << >>, ~folded, NEW f, f = [k \in 1 .. Len(branch) |-> posts[branch[k]].run],
         NEW prompts, prompts = history[Len(history)].prompts
  PROVE  /\ Len(branch) - 1 \in Nat /\ Len(prompts) = Len(branch) /\ f[Len(branch)] = Len(history)
         /\ Len(history) \in Nat /\ Len(history) > 0
         /\ \A k \in 1 .. Len(branch) : history[f[k]].prompt = prompts[k] /\ prompts[k] = posts[branch[k]].prompt
         /\ Path(f, prompts, Len(branch) - 1, Len(history))
<1>a. PICK b \in Nat : b = Len(branch)
  BY HistLengths
<1>b. PICK h \in Nat : h = Len(history)
  BY HistLengths
<1>1. /\ b > 0 /\ posts[branch[b]].run = h
      /\ \A k \in 1 .. b : history[posts[branch[k]].run].key = branch[k]
      /\ Len(prompts) = b /\ \A k \in 1 .. b : prompts[k] = posts[branch[k]].prompt
  BY <1>a, <1>b DEF HistInv, OwnRuns
<1>2. b - 1 \in Nat /\ b \in 1 .. b /\ 1 .. b - 1 \subseteq 1 .. b /\ \A k \in 1 .. b - 1 : k < b
  BY <1>1
<1>3. \A k \in 1 .. b : /\ branch[k] \in 1 .. Len(posts)
                        /\ \A l \in 1 .. b : k < l => branch[k] < branch[l]
  BY <1>a DEF HistInv, BranchGrows
<1>4. \A k \in 1 .. b : /\ f[k] = posts[branch[k]].run /\ f[k] \in 1 .. h
                        /\ history[f[k]].prompt = prompts[k] /\ history[f[k]].key = branch[k]
  BY <1>1, <1>3, <1>a, <1>b DEF HistInv, PostsAnswered
<1>5. ASSUME NEW k \in 1 .. b, NEW l \in 1 .. b, k < l PROVE f[k] < f[l]
  <2>1. f[k] \in 1 .. h /\ f[l] \in 1 .. h /\ branch[k] < branch[l]
    BY <1>3, <1>4, <1>5
  <2>7. branch[k] \in Nat /\ branch[l] \in Nat
    BY <1>3
  <2>a. PICK x, y \in Nat : x = branch[k] /\ y = branch[l] /\ x < y
    BY <2>1, <2>7
  <2>2. history[f[k]].key = x /\ history[f[l]].key = y
    BY <1>4, <2>a
  <2>3. f[l] < f[k] => y < x
    BY <1>b, <2>1, <2>2 DEF HistInv, KeysGrow
  <2>4. f[k] = f[l] => x = y
    BY <2>2
  <2>5. ~(f[l] < f[k]) /\ f[k] # f[l]
    BY <2>3, <2>4, <2>a
  <2>6. \A u, v \in 1 .. h : ~(v < u) /\ u # v => u < v
    OBVIOUS
  <2> QED BY <2>1, <2>5, <2>6
<1>6. \A k \in 1 .. b - 1 : f[k] \in 1 .. h - 1
  <2> SUFFICES ASSUME NEW k \in 1 .. b - 1 PROVE f[k] \in 1 .. h - 1
    OBVIOUS
  <2>1. f[k] \in 1 .. h /\ f[k] < f[b] /\ f[b] = h
    BY <1>1, <1>2, <1>4, <1>5
  <2> QED BY <2>1
<1>7. Path(f, prompts, b - 1, h)
  BY <1>2, <1>4, <1>5, <1>6 DEF Path
<1>8. h > 0
  <2>1. \A x \in 1 .. h : h > 0
    OBVIOUS
  <2> QED BY <1>2, <1>4, <2>1
<1> QED BY <1>1, <1>2, <1>4, <1>7, <1>8, <1>a, <1>b

LEMMA VisibleIs ==
  ASSUME HistInv, posts # << >>, ~folded, Len(history) <= MaxListed
  PROVE  LET shown == VisibleThreadRuns(ListForSessions)
         IN /\ DOMAIN shown = 1 .. Len(branch) /\ Len(shown) = Len(branch)
            /\ \A k \in 1 .. Len(branch) :
                 /\ shown[k] \in 1 .. Len(history)
                 /\ history[shown[k]].prompt = posts[branch[k]].prompt
                 /\ k > 1 => shown[k - 1] < shown[k]
<1>a. PICK h \in Nat : h = Len(history)
  BY HistLengths
<1>b. PICK b \in Nat : b = Len(branch)
  BY HistLengths
<1>f. PICK f : f = [k \in 1 .. Len(branch) |-> posts[branch[k]].run]
  OBVIOUS
<1>p. PICK prompts : prompts = history[Len(history)].prompts
  OBVIOUS
<1>1. /\ b - 1 \in Nat /\ Len(prompts) = b /\ f[b] = h /\ h > 0
      /\ \A k \in 1 .. b : history[f[k]].prompt = prompts[k] /\ prompts[k] = posts[branch[k]].prompt
      /\ Path(f, prompts, b - 1, h)
  <2>1. /\ Len(branch) - 1 \in Nat /\ Len(prompts) = Len(branch) /\ f[Len(branch)] = Len(history)
        /\ Len(history) \in Nat /\ Len(history) > 0
        /\ \A k \in 1 .. Len(branch) : history[f[k]].prompt = prompts[k] /\ prompts[k] = posts[branch[k]].prompt
        /\ Path(f, prompts, Len(branch) - 1, Len(history))
    BY <1>f, <1>p, BranchIsPath
  <2> QED BY <1>a, <1>b, <2>1
<1>o. PICK ord : ord = [i \in 1 .. h |-> i]
  OBVIOUS
<1>2. Len(ord) = h /\ \A i \in 1 .. h : ord[i] = i
  <2>1. ord \in [1 .. h -> Nat]
    BY <1>o
  <2> QED BY <1>o, <2>1, IsSequence
<1>s. PICK s : s = MatchedPlaces(ord, prompts)
  OBVIOUS
<1>3. Greedy(s, f, prompts, b - 1)
  <2>1. Greedy(MatchedPlaces([i \in 1 .. h |-> i], prompts), f, prompts, b - 1)
    BY <1>1, MatchedGreedily
  <2> QED BY <1>o, <1>s, <2>1
<1>4. /\ s \in Seq(Nat) /\ Len(s) = b - 1 /\ DOMAIN s = 1 .. b - 1
      /\ \A k \in 1 .. b - 1 : /\ s[k] \in 1 .. f[k] /\ history[s[k]].prompt = prompts[k]
                               /\ k > 1 => s[k - 1] < s[k]
  BY <1>3 DEF Greedy
<1>5. \A k \in 1 .. b - 1 : f[k] \in 1 .. h - 1
  BY <1>1 DEF Path
<1>6. \A k \in 1 .. b - 1 : s[k] \in 1 .. h - 1 /\ s[k] \in 1 .. h /\ s[k] # 0
  <2>1. \A x \in 1 .. h - 1 : 1 .. x \subseteq 1 .. h - 1 /\ 1 .. x \subseteq 1 .. h /\ 0 \notin 1 .. x
    OBVIOUS
  <2> QED BY <1>4, <1>5, <2>1
<1>7. VisibleThreadRuns(ListForSessions) = Append(s, h)
  <2>1. ListForSessions = 1 .. h /\ 1 .. h # {}
    <3>1. 1 \in 1 .. h
      BY <1>1
    <3> QED BY <1>a, <3>1, ListedWhole
  <2>2. Ordered(1 .. h) = ord
    BY <1>o, OrderedIs
  <2>3. h \in 1 .. h /\ ord[Len(ord)] = h
    BY <1>1, <1>2
  <2>4. MatchedPlaces(ord, history[ord[Len(ord)]].prompts) = s
    BY <1>a, <1>p, <1>s, <2>3
  <2>5. ~\E k \in DOMAIN s : s[k] = 0
    BY <1>4, <1>6
  <2>6. [k \in DOMAIN s |-> ord[s[k]]] = s
    <3>1. \A k \in DOMAIN s : ord[s[k]] = s[k]
      BY <1>2, <1>4, <1>6
    <3>2. s = [k \in DOMAIN s |-> s[k]]
      BY <1>4
    <3> QED BY <3>1, <3>2
  <2> QED BY <2>1, <2>2, <2>3, <2>4, <2>5, <2>6 DEF VisibleThreadRuns
<1>t. PICK t : t = Append(s, h)
  OBVIOUS
<1>8. /\ DOMAIN t = 1 .. b /\ Len(t) = b /\ t[b] = h
      /\ \A k \in 1 .. b - 1 : t[k] = s[k]
  <2>1. /\ Append(s, h) \in Seq(Nat) /\ Len(Append(s, h)) = Len(s) + 1
        /\ \A i \in 1 .. Len(s) : Append(s, h)[i] = s[i]
        /\ Append(s, h)[Len(s) + 1] = h
    BY <1>4
  <2>2. Len(s) = b - 1 /\ Len(s) + 1 = b
    BY <1>1, <1>4
  <2>3. DOMAIN Append(s, h) = 1 .. Len(Append(s, h))
    BY <2>1
  <2> QED BY <1>t, <2>1, <2>2, <2>3
<1>9. ASSUME NEW k \in 1 .. b
      PROVE  /\ t[k] \in 1 .. h /\ history[t[k]].prompt = posts[branch[k]].prompt
             /\ k > 1 => t[k - 1] < t[k]
  <2>1. CASE k = b
    <3>1. h \in 1 .. h /\ history[h].prompt = posts[branch[b]].prompt
      BY <1>1, <2>1
    <3>2. ASSUME b > 1 PROVE t[b - 1] < h
      <4>1. b - 1 \in 1 .. b - 1
        BY <1>1, <3>2
      <4>2. t[b - 1] \in 1 .. h - 1
        BY <1>6, <1>8, <4>1
      <4> QED BY <4>2
    <3> QED BY <1>8, <2>1, <3>1, <3>2
  <2>2. CASE k # b
    <3>1. k \in 1 .. b - 1 /\ (k > 1 => k - 1 \in 1 .. b - 1)
      BY <2>2
    <3> QED BY <1>1, <1>4, <1>6, <1>8, <3>1
  <2> QED BY <2>1, <2>2
<1> QED BY <1>7, <1>8, <1>9, <1>a, <1>b, <1>t

LEMMA HistInvImplies == HistInv => HistoryIsBranch
<1> SUFFICES ASSUME HistInv, posts # << >>, ~folded, Len(history) <= MaxListed
    PROVE LET shown    == ThreadMessages
              owner(k) == Turn(branch[k]).run
              unique(k) == \A i \in RunIndex \ {owner(k)} :
                              history[i].prompt # Turn(branch[k]).prompt
          IN /\ Len(shown) = Len(branch)
             /\ \A k \in DOMAIN shown :
                  /\ shown[k].prompt = Turn(branch[k]).prompt
                  /\ k > 1 => shown[k - 1].run < shown[k].run
                  /\ unique(k) => shown[k].run = owner(k)
                  /\ unique(k) /\ history[owner(k)].status = "waiting"
                       => ThreadStatus = "waiting_approval"
  BY DEF HistoryIsBranch
<1>a. PICK runs : runs = VisibleThreadRuns(ListForSessions)
  OBVIOUS
<1>b. PICK b \in Nat : b = Len(branch)
  BY HistLengths
<1>1. /\ DOMAIN runs = 1 .. b
      /\ \A k \in 1 .. b : /\ runs[k] \in RunIndex
                           /\ history[runs[k]].prompt = posts[branch[k]].prompt
                           /\ k > 1 => runs[k - 1] < runs[k]
  <2>1. RunIndex = 1 .. Len(history)
    BY DEF HistInv, HistoryTypes, RunIndex
  <2> QED BY <1>a, <1>b, <2>1, VisibleIs
<1>m. PICK shown : shown = ThreadMessages
  OBVIOUS
<1>2. shown = [k \in 1 .. b |-> [run |-> runs[k], prompt |-> history[runs[k]].prompt,
                                 answer |-> history[runs[k]].answered]]
  BY <1>1, <1>a, <1>m DEF ThreadMessages
<1>3. Len(shown) = b /\ DOMAIN shown = 1 .. b
  BY <1>2
<1>4. \A k \in 1 .. b : shown[k].run = runs[k] /\ shown[k].prompt = history[runs[k]].prompt
  BY <1>2
<1>5. ASSUME NEW k \in 1 .. b,
             \A i \in RunIndex \ {posts[branch[k]].run} : history[i].prompt # posts[branch[k]].prompt
      PROVE  runs[k] = posts[branch[k]].run
  BY <1>1, <1>5
<1>6. ASSUME NEW k \in 1 .. b, history[runs[k]].status = "waiting" PROVE ThreadStatus = "waiting_approval"
  <2>1. runs[k] \in {runs[j] : j \in DOMAIN runs}
    BY <1>1
  <2> QED BY <1>6, <1>a, <2>1 DEF ThreadStatus
<1>7. ASSUME NEW k \in 1 .. b, k > 1 PROVE shown[k - 1].run < shown[k].run
  <2>1. k - 1 \in 1 .. b
    BY <1>7
  <2> QED BY <1>1, <1>4, <1>7, <2>1
<1> QED BY <1>1, <1>3, <1>4, <1>5, <1>6, <1>7, <1>b, <1>m DEF Turn
===============================================================================
