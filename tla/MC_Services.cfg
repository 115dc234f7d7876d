SPECIFICATION ServicesSpec
CONSTANTS
 r1 = r1
 r2 = r2
 s1 = s1
 s2 = s2
 q1 = q1
 q2 = q2
 Run = {1, 2, 3}
 Session = {s1, s2}
 SessionOf <- McSessionOf
 Loop = Loop
 Modes = {"remote", "deferred"}
 Concurrency = 2
 Slots = 1
 WarmMax = 1
 Lock = {l1, l2, l3}
 NoLock = NoLock
 NoSession = NoSession
 MaxFaults = 1
 Laborer = {w1, w2}
 Fenced = TRUE
 Providers = {"kubernetes", "e2b"}
 MaxClaims = 2
 Caller = {c1, c2}
 Dispatcher = {d1, d2}
 Admin = {a1}
 MaxSlot = 1
 MaxRoute = 2
 MaxFailed = 1
 Request = {q1, q2, q3}
 Member = {u1, u2}
 FirstUser = u1
 MaxToken = 3
 Job = {j1}
 Keeper = {k1, k2}
 Kinds = {"delete", "retention", "export"}
 Adapters <- McAdapters
 Officer = {o1}
 Item = {i1}
 MaxErrors = 1
 MaxHolds = 1
 Memory = {m1}
 Editor = {q1, q2}
 Reaper = {w1}
 MaxPolicy = 1
 MaxEdits = 2
 Person = {u1, u2}
 Creator = u1
 Manager = {g1}
 Base = {b1}
 Source = {x1}
 Syncer = {q1, q2}
 Reader = {y1}
 PersonOf <- McPersonOf
 Config = {g1, g2}
 Content = {x}
 MaxRevision = 3
 MaxAsked = 2
 Connection = {c1, c2}
 Rank <- McRank
 Steward = {q1, q2}
 Borrower = {b1}
 SecretOf = "secret"
 NoConnection = "none"
 MaxIssue = 2
 Publisher = {q1, q2}
 MaxDraft = 3
 Subagent = {t1, t2}
 MaxTasks = 2
 MaxConcurrent = 1
 MaxFragments = 2
 MaxResults = 1
 Calls = 3
 ToolRequest <- McToolRequest
 File = {"f", "in"}
 Input = {"in"}
 Isolated = FALSE
 MaxSubagents = 1
 MaxMcp = 2
 Window = {w1, w2}
 Text = {"t1"}
 Skill = {"k1", "k2"}
 MaxVersion = 2
 MaxEdit = 2
 Clerk = {w1, w2}
 Visitor = {v1}
 Entry = {"e1", "e2"}
 MaxCatalog = 2
 Stages = 4
 MaxAttach = 2
 MaxGlitches = 1
 MaxLog = 4
 MaxCuts = 1
 Task = {1, 2, 3}
 PageSize = 1
 Millisecond = 2
 MaxTick = 3
 Poster = {q1, q2}
 Host = {"h1", "h2"}
 HostOf <- McHostOf
 VersionOf <- McVersionOf
 Reference = {"search", "files"}
 ToolName = {1, 2}
 Uses <- McUses
 MaxChanges = 1
 Output = {"f"}
 MaxRuns = 2
 MaxWrites = 1
 MaxMishaps = 1
 Paths = {"a", "b"}
 ReadOnly = {"a"}
 Withheld = 2
 MaxMessages = 2
 MaxJunk = 1
 MaxTouches = 1
 Repairer = {1, 2}
 Measured = {"queue"}
 MaxBreaks = 2
 Prompt = {"a", "b"}
 MaxPosts = 3
 MaxListed = 3
 Expect <- McExpect
 Deed <- McDeeds
 MaxDeeds = 3
 MaxOutages = 2
 Maker = {m1}
 Promoter = {p1}
 MaxRevisions = 2
 MaxDatasets = 2
 CliRun = {r1, r2}
 PinsOf <- McPinsOf
 Operator = {u1}
 Rpc = {1, 2}
 MaxClients = 2
 TokenLife = 1
 MaxClock = 2
 Attempts = 2
 Bundles = 2
 MaxHiccups = 1
 Profile = {"isolated-default", "egress"}
 DefaultProfile = "isolated-default"
 MaxOffer = 1
INVARIANTS
 SandboxesHeld TriggerRunsOnce ErasedInOrder AccessIsCurrent StreamToldOnce GateRemembers
 ReleasedAsShown ReadyMeansChecked A2AFaithful ThreadKeepsRuns ToolsAsPublished OutputsKept
 RemoteFaithful HalfDoneIsRecorded HistoryIsBranch SuiteAccounted PromotionsHold
PROPERTIES
 NoEditLost RevokedForGood
CONSTRAINT McBound
CHECK_DEADLOCK FALSE
