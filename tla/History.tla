-------------------------------- MODULE History --------------------------------
(***************************************************************************)
(* What an AG-UI thread shows of its Runs (agui/routes.py).  The client sends *)
(* its whole branch of the conversation with every message; each Run stores   *)
(* its prompt and the prompts of that branch.  Edited and regenerated         *)
(* messages leave Runs of abandoned branches in the thread, and the server    *)
(* finds the Runs of the current branch again by the text of their prompts    *)
(* alone.  A message whose prompt is that of an active Run makes no Run of    *)
(* its own (application/runs.py).                                             *)
(***************************************************************************)
EXTENDS Naturals, Sequences, FiniteSets

CONSTANTS Prompt,      \* texts a user may send
          MaxPosts,    \* messages of the thread
          MaxListed    \* Runs list_for_sessions returns

ASSUME ListedAssumption == MaxListed \in Nat

VARIABLES history,     \* Runs of the thread, in the order of their creation
          posts,       \* for each message the client sent, the Run that answers it
          branch,      \* the client's branch: the messages it is made of
          known,       \* messages _run_bindings of the API process knows the Run of
          folded       \* a message of the branch was given a Run of another message

historyVars == <<history, posts, branch, known, folded>>

HistoryInit == history = << >> /\ posts = << >> /\ branch = << >> /\ known = {} /\ folded = FALSE

Turn(p) == posts[p]
RunIndex == DOMAIN history
Unended(i) == history[i].status \in {"running", "waiting"}

(* _user_prompts and _latest_user_input of a request                         *)
UserPrompts(kept, prompt) == Append([i \in DOMAIN kept |-> Turn(kept[i]).prompt], prompt)

Recent(i) == Cardinality({j \in RunIndex : history[j].updated > history[i].updated})

(* list_for_sessions: the Runs that changed last.                            *)
ListForSessions == {i \in RunIndex : Recent(i) < MaxListed}

Stamp == Len(history) + 1      \* later than every rank

(* Times of change as ranks, so that equal orders are equal states.          *)
Ranked(rows) ==
  [i \in DOMAIN rows |->
     [rows[i] EXCEPT !.updated =
        Cardinality({j \in DOMAIN rows : rows[j].updated < rows[i].updated})]]

Change(i, row) == history' = Ranked([history EXCEPT ![i] = [row EXCEPT !.updated = Stamp]])

-----------------------------------------------------------------------------
(* create_run_with_result for a message that keeps the first n messages of    *)
(* the branch: n = Len(branch) goes on, a smaller n edits or regenerates.     *)
CreateRun(n, prompt) ==
  LET kept == SubSeq(branch, 1, n)
      same == {i \in RunIndex : Unended(i) /\ history[i].prompt = prompt}
      run  == IF same = {} THEN Len(history) + 1 ELSE CHOOSE i \in same : TRUE
  IN /\ Len(posts) < MaxPosts
     /\ history' = IF same # {} THEN history
                   ELSE Ranked(Append(history,
                          [prompt |-> prompt, prompts |-> UserPrompts(kept, prompt),
                           key |-> Len(posts) + 1, status |-> "running", answered |-> FALSE,
                           updated |-> Stamp]))
     /\ posts' = Append(posts, [run |-> run, prompt |-> prompt])
     /\ branch' = Append(kept, Len(posts) + 1)
     /\ known' = known \cup {Len(posts) + 1}
     /\ folded' = (same # {} \/ (\E p \in {kept[i] : i \in DOMAIN kept} :
                                   history[Turn(p).run].key # p))

(* Text of the model, or a tool, subagent or approval event after it          *)
StreamEvent(i, text) ==
  /\ history[i].status = "running" /\ history[i].answered # text
  /\ history' = [history EXCEPT ![i].answered = text]
  /\ UNCHANGED <<posts, branch, known, folded>>

(* The worker pauses the Run for an approval, goes on, or ends it.            *)
MoveTurn(i, status) ==
  /\ Unended(i) /\ history[i].status # status
  /\ Change(i, [history[i] EXCEPT !.status = status])
  /\ UNCHANGED <<posts, branch, known, folded>>

RestartApi == known # {} /\ known' = {} /\ UNCHANGED <<history, posts, branch, folded>>

(* cancel_run with _resolve_bound_run: the Run this process gave the message, *)
(* or else the one that has the message's key; a message that was folded into *)
(* another one is not found after a restart.                                  *)
CancelTurn(p) ==
  LET keyed == {i \in RunIndex : history[i].key = p}
  IN \E i \in IF p \in known THEN {Turn(p).run} ELSE keyed :
       /\ Unended(i)
       /\ Change(i, [history[i] EXCEPT !.status = "ended"])
       /\ known' = known \cup {p}
       /\ UNCHANGED <<posts, branch, folded>>

HistoryNext ==
  \/ \E n \in 0 .. Len(branch), prompt \in Prompt : CreateRun(n, prompt)
  \/ \E i \in RunIndex, text \in BOOLEAN : StreamEvent(i, text)
  \/ \E i \in RunIndex, status \in {"running", "waiting", "ended"} : MoveTurn(i, status)
  \/ RestartApi
  \/ \E p \in DOMAIN posts : CancelTurn(p)

-----------------------------------------------------------------------------
(* sorted by creation                                                        *)
Ordered(rows) ==
  LET place(i) == Cardinality({j \in rows : j < i})
  IN [k \in 1 .. Cardinality(rows) |-> CHOOSE i \in rows : place(i) = k - 1]

(* Mutant of FirstMatch: the search starts over for every prompt.            *)
FirstMatchAnywhere(ordered, cursor, prompt) ==
  {k \in 1 .. Len(ordered) - 1 :
     /\ history[ordered[k]].prompt = prompt
     /\ \A l \in 1 .. k - 1 : history[ordered[l]].prompt # prompt}

(* The first Run from the cursor on, but the last, that has the prompt        *)
FirstMatch(ordered, cursor, prompt) ==
  {k \in cursor .. Len(ordered) - 1 :
     /\ history[ordered[k]].prompt = prompt
     /\ \A l \in cursor .. k - 1 : history[ordered[l]].prompt # prompt}

(* One more place: of the Run for the n-th prompt, or 0 when it has none, or  *)
(* when an earlier prompt has none.                                          *)
PlacedNext(earlier, n, ordered, prompt) ==
  LET found == IF n > 1 /\ earlier[n - 1] = 0 THEN {}
               ELSE FirstMatch(ordered, IF n = 1 THEN 1 ELSE earlier[n - 1] + 1, prompt)
  IN Append(earlier, IF found = {} THEN 0 ELSE CHOOSE k \in found : TRUE)

(* The places of the Runs for all prompts but the last                       *)
MatchedPlaces(ordered, prompts) ==
  LET matched[n \in 0 .. Len(prompts) - 1] ==
        IF n = 0 THEN << >> ELSE PlacedNext(matched[n - 1], n, ordered, prompts[n])
  IN matched[Len(prompts) - 1]

(* _visible_thread_runs: one Run for each prompt the latest Run stores, or    *)
(* every Run when one has none.                                              *)
VisibleThreadRuns(rows) ==
  LET ordered == Ordered(rows)
      last    == ordered[Len(ordered)]
      places  == MatchedPlaces(ordered, history[last].prompts)
  IN IF rows = {} THEN << >>
     ELSE IF \E k \in DOMAIN places : places[k] = 0 THEN ordered
     ELSE Append([k \in DOMAIN places |-> ordered[places[k]]], last)

(* list_agui_threads: the approval a visible Run waits for, else the status   *)
(* of the visible Run that changed last.                                     *)
ThreadStatus ==
  LET shown  == VisibleThreadRuns(ListForSessions)
      seen   == {shown[k] : k \in DOMAIN shown}
      latest == {i \in seen : \A j \in seen : history[j].updated <= history[i].updated}
  IN IF seen = {} THEN "idle"
     ELSE IF \E i \in seen : history[i].status = "waiting" THEN "waiting_approval"
     ELSE history[CHOOSE i \in latest : TRUE].status

(* get_agui_thread_history: each visible Run's prompt and, when there is text *)
(* after its last action (final_response_text), its answer.                  *)
ThreadMessages ==
  LET shown == VisibleThreadRuns(ListForSessions)
  IN [k \in DOMAIN shown |-> [run |-> shown[k], prompt |-> history[shown[k]].prompt,
                              answer |-> history[shown[k]].answered]]

-----------------------------------------------------------------------------
(* A thread short enough to be listed whole shows the client's branch: its    *)
(* prompts one by one, each with a Run of its own in the order they were      *)
(* made, and with the very Run that answered it when no other message had the *)
(* same text; an approval that such a Run waits for is shown.  Messages that  *)
(* shared a Run are the exception.                                           *)
HistoryIsBranch ==
  LET shown    == ThreadMessages
      current  == posts # << >> /\ ~folded /\ Len(history) <= MaxListed
      answer(k) == Turn(branch[k]).run
      unique(k) == \A i \in RunIndex \ {answer(k)} :
                      history[i].prompt # Turn(branch[k]).prompt
  IN current =>
       /\ Len(shown) = Len(branch)
       /\ \A k \in DOMAIN shown :
            /\ shown[k].prompt = Turn(branch[k]).prompt
            /\ k > 1 => shown[k - 1].run < shown[k].run
            /\ unique(k) => shown[k].run = answer(k)
            /\ unique(k) /\ history[answer(k)].status = "waiting"
                 => ThreadStatus = "waiting_approval"
===============================================================================
