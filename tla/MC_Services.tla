------------------------------ MODULE MC_Services ------------------------------
(***************************************************************************)
(* Small instances of every service: two requests or processes that meet,    *)
(* one row or two, and one failure.                                          *)
(***************************************************************************)
EXTENDS Services, TLC

CONSTANTS r1, r2, s1, s2, q1, q2

(* Two Runs of one session, and one of another.                             *)
McSessionOf == <<s1, s1, s2>>

(* An external store, one that needs no index, and the index itself.        *)
McAdapters == <<"object-store", "langfuse", "postgresql">>

(* Searches are for a person who does not own the sources.                  *)
McPersonOf == [r \in Reader |-> CHOOSE p \in Person : p # Creator]

(* All connections belong to one principal.                                 *)
McRank == [c \in Connection |-> 1]

Ask4(tool, file, command, declared) ==
  [tool |-> tool, file |-> file, command |-> command, declared |-> declared]

(* Memory, results trusted or not, a file that is written, replaced by a   *)
(* command and run, and a delegation.                                       *)
McToolRequest ==
  {Ask4("propose_memory", "none", "none", TRUE), Ask4("tavily_search", "none", "none", TRUE),
   Ask4("Write", "f", "none", FALSE),
   Ask4("Bash", "f", "script", FALSE),
   Ask4("Task", "none", "none", TRUE)}

(* Two windows of one thread, each with an API process and a version.       *)
McHostOf == q1 :> "h1" @@ q2 :> "h2"
McVersionOf == q1 :> 1 @@ q2 :> 2

(* A Lead with two MCP servers, a subagent with one of them.                *)
McUses == [a \in {"lead", "child"} |-> IF a = "lead" THEN {"search", "files"} ELSE {"files"}]

(* A case that is over once an approval is asked for, and one whose Run has *)
(* to end after a search, with one subagent at a time.                      *)
McExpect ==
  << [statuses |-> {"waiting"}, required |-> {}, forbidden |-> {"search"}, least |-> 0,
      most |-> 1, approval |-> TRUE],
     [statuses |-> {"ended"}, required |-> {"search"}, forbidden |-> {}, least |-> 0,
      most |-> 1, approval |-> FALSE] >>

(* One Run whose session has pinned knowledge, and one without.              *)
McPinsOf == r1 :> {"k1"} @@ r2 :> {}

Deed2(type, name) == [type |-> type, name |-> name]
McDeeds ==
  {Deed2("tool", "search"), Deed2("approval", "tool"), Deed2("started", "x"),
   Deed2("started", "y"), Deed2("completed", "x")}

(* Bounds on combinations whose parts do not meet: one subagent where they    *)
(* work in the background, two where they do not; in the log a face shows, one *)
(* event that is blank or a file and one end of a message; an Agent without a  *)
(* published directory on one host, and not both of them; a warm sandbox for a *)
(* new session only; one search and one memory among the calls of a Run; no   *)
(* operator loses the role once a CLI has ended, as tokens of the two are apart. *)
LogsOf(types) == Cardinality({i \in DOMAIN taskLog : taskLog[i] \in types})
CallsOf(tool) == Cardinality({c \in Call : calls[c].request.tool = tool})
McBound ==
  /\ background => Cardinality({t \in Subagent : tasks[t] # "none"}) <= 1
  /\ LogsOf({"blank", "artifact"}) <= 1 /\ LogsOf({"completed"}) <= 1
  /\ \E a \in Agent : directory[a].kind = "published"
  /\ \A a \in Agent : directory[a].kind = "published" \/ host = CHOOSE h \in Hosts : TRUE
  /\ preparedCli => ~resume
  /\ CallsOf("tavily_search") <= 1 /\ CallsOf("propose_memory") <= 1
  /\ (\E u \in Operator : lostRole[u] # 0) => \A r \in CliRun : attempt[r] \in {"none", "running"}
===============================================================================
