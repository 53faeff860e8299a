------------------------------ MODULE AiActions -------------------------------
(***************************************************************************)
(* What the AI assistant and MCP clients do for a user.  In a conversation *)
(* read-only tools run at once and every other call becomes a row of       *)
(* ai_assistant_actions, which its owner or a superadmin executes or       *)
(* cancels on the page until it expires.  An execution reads the row,      *)
(* claims it in a statement of its own, runs the tool as the user who      *)
(* confirmed it, and notes the outcome in a third statement; the server    *)
(* may stop between any two.  An MCP client calls the tools itself, as far *)
(* as the settings and its token allow; every user has one token here.     *)
(* A user of the assistant and a token of MCP are each limited to a number *)
(* of requests in windows of a minute, counted in memory by the process.   *)
(***************************************************************************)
EXTENDS Naturals, Sequences, FiniteSets

CONSTANTS
  AiUsers, AiAdmins, AiRoots,  \* who asks: everyone, administrators, superadmins
  WriteTokens,       \* users whose access token may write
  Tools,             \* the tools
  ReadOnly, ForAdmins, AsksFirst, \* those that only read, those of administrators, those MCP confirms
  AiRequests,        \* requests under way
  AiIds,             \* the ids of the rows, 1 .. n: the bound on rows
  McpBodies,         \* what clients post: [batch, hdr, calls]
  AssistantMaxSteps, \* ai.assistant_max_steps
  MaxCalls,          \* bound: calls in one answer of the model
  RateMax,           \* requests of a user or a token in a window
  Minute,            \* ticks of the clock in a window
  ActionTTL,         \* ai.assistant_action_ttl in ticks
  MaxNow,            \* bound: ticks of the clock
  MaxAiEvents        \* bound: changes of the settings and stops of the server

ASSUME AiAssumption ==
  /\ AiAdmins \subseteq AiUsers /\ AiRoots \subseteq AiAdmins /\ WriteTokens \subseteq AiUsers
  /\ ReadOnly \cup ForAdmins \cup AsksFirst \subseteq Tools /\ ReadOnly \cap AsksFirst = {}
  /\ AiIds \subseteq Nat \ {0}
  /\ {AssistantMaxSteps, MaxCalls, RateMax, Minute} \subseteq Nat \ {0} /\ ActionTTL \in Nat
  /\ \A body \in McpBodies : body.hdr \in [ver : STRING, same : BOOLEAN]

VARIABLES
  kSet,      \* the settings: [on, write, mcp, mcpWrite, confirm]
  kAction,   \* ai_assistant_actions
  kReq,      \* what each request is at
  kBucket,   \* the window of each user of the chat and each token: [count, start]
  kNow,      \* the clock
  kRuns,     \* history: who ran the tool of each action, one after another
  kPosts,    \* history: the messages of MCP clients that ran a tool that writes
  kAllowed,  \* history: when this process let in requests of a user or a token
  kAnswered, \* history: actions whose cancellation was answered
  kEvents    \* bound

kVars == << kSet, kAction, kReq, kBucket, kNow, kRuns, kPosts, kAllowed, kAnswered, kEvents >>

Unused == [state |-> "unused"]
Buckets == {"chat", "mcp"} \X AiUsers
NoBucket == [count |-> 0, start |-> 0]
AiIdle == [pc |-> "idle"]

AiInit ==
  /\ kSet = [on |-> TRUE, write |-> TRUE, mcp |-> TRUE, mcpWrite |-> TRUE, confirm |-> TRUE]
  /\ kAction = [i \in AiIds |-> Unused]
  /\ kReq = [r \in AiRequests |-> AiIdle]
  /\ kBucket = [k \in Buckets |-> NoBucket]
  /\ kNow = 0
  /\ kRuns = [i \in AiIds |-> << >>]
  /\ kPosts = {}
  /\ kAllowed = [k \in Buckets |-> << >>]
  /\ kAnswered = {}
  /\ kEvents = 0
-----------------------------------------------------------------------------
(* Who may use which tool *)

\* With a channel and a snapshot of the settings.
writeAllowed(channel, u, set) ==
  CASE channel = "mcp" -> set.mcpWrite /\ u \in WriteTokens
    [] channel = "assistant" -> set.write

tools(channel, u, set) ==
  {t \in Tools : (t \in ForAdmins => u \in AiAdmins) /\ (t \in ReadOnly \/ writeAllowed(channel, u, set))}

-----------------------------------------------------------------------------
(* The limit of requests, a window that opens with the first request *)

WindowOver(k) == kBucket[k].count = 0 \/ kNow - kBucket[k].start >= Minute

allow(k) == WindowOver(k) \/ kBucket[k].count < RateMax

\* A request that is let in opens a window or is counted in the one that is
\* open.  With a new window goes what is older than two, where tokens ask only
\* when there are a thousand.
Counted(k) ==
  /\ kAllowed' = [kAllowed EXCEPT ![k] = Append(@, kNow)]
  /\ kBucket' = IF WindowOver(k)
                THEN [j \in Buckets |-> IF j = k THEN [count |-> 1, start |-> kNow]
                                        ELSE IF k[1] = "chat" /\ j[1] = "chat" /\ kNow - kBucket[j].start > 2 * Minute
                                        THEN NoBucket ELSE kBucket[j]]
                ELSE [kBucket EXCEPT ![k].count = @ + 1]
-----------------------------------------------------------------------------
(* A conversation *)

\* The settings of the conversation are those read at its start.
AIChat(r, u) ==
  /\ kReq[r].pc = "idle" /\ kSet.on
  /\ allow(<< "chat", u >>) /\ Counted(<< "chat", u >>)
  /\ kReq' = [kReq EXCEPT ![r] = [pc |-> "asked", user |-> u, set |-> kSet, step |-> 0]]
  /\ UNCHANGED << kSet, kAction, kNow, kRuns, kPosts, kAnswered, kEvents >>

\* The model answers, with calls or without, or the request fails.
ModelAnswers(r) ==
  /\ kReq[r].pc = "asked"
  /\ \/ kReq' = [kReq EXCEPT ![r] = AiIdle]
     \/ \E n \in 1 .. MaxCalls :
          kReq' = [kReq EXCEPT ![r] = [pc |-> "calls", user |-> kReq[r].user, set |-> kReq[r].set,
                                       step |-> kReq[r].step + 1, left |-> n]]
  /\ UNCHANGED << kSet, kAction, kBucket, kNow, kRuns, kPosts, kAllowed, kAnswered, kEvents >>

\* After a call: the next one, the model again, or the limit of steps.
NextCall(r) ==
  LET c == kReq[r]
  IN  kReq' = [kReq EXCEPT ![r] =
                 IF c.left > 1 THEN [c EXCEPT !.left = @ - 1]
                 ELSE IF c.step < AssistantMaxSteps
                 THEN [pc |-> "asked", user |-> c.user, set |-> c.set, step |-> c.step] ELSE AiIdle]

\* A write waits for its user; its row may fail to be inserted.
savePendingAction(u, t) ==
  \/ UNCHANGED kAction
  \/ \E i \in AiIds : /\ kAction[i] = Unused /\ \A j \in AiIds : j < i => kAction[j] # Unused
                      /\ kAction' = [kAction EXCEPT ![i] = [state |-> "open", user |-> u, tool |-> t,
                                        expires |-> kNow + ActionTTL, at |-> 0, by |-> u, noted |-> FALSE]]

\* One call of the answer: a tool that is not there, one that reads, one that writes.
runAssistant(r) ==
  /\ kReq[r].pc = "calls"
  /\ \E t \in Tools :
       \/ t \notin tools("assistant", kReq[r].user, kReq[r].set) /\ UNCHANGED kAction
       \/ /\ t \in tools("assistant", kReq[r].user, kReq[r].set) \cap ReadOnly
          /\ UNCHANGED kAction
       \/ /\ t \in tools("assistant", kReq[r].user, kReq[r].set) \ ReadOnly
          /\ savePendingAction(kReq[r].user, t)
  /\ NextCall(r)
  /\ UNCHANGED << kSet, kBucket, kNow, kRuns, kPosts, kAllowed, kAnswered, kEvents >>
-----------------------------------------------------------------------------
(* Executing and cancelling what waits *)

\* Read by a request of u: its own or anybody's for a superadmin, still open
\* and not expired.
loadOwnAction(i, u) ==
  /\ kAction[i].state = "open"
  /\ kAction[i].user = u \/ u \in AiRoots
  /\ kNow <= kAction[i].expires

AIExecuteAction(r, u, i) ==
  /\ kReq[r].pc = "idle" /\ kSet.on /\ kSet.write
  /\ loadOwnAction(i, u)
  /\ kReq' = [kReq EXCEPT ![r] = [pc |-> "claim", user |-> u, id |-> i, tool |-> kAction[i].tool]]
  /\ UNCHANGED << kSet, kAction, kBucket, kNow, kRuns, kPosts, kAllowed, kAnswered, kEvents >>

\* The condition of the claim, in the statement that makes it.
Claimable(i) == kAction[i].state = "open" /\ kAction[i].expires > kNow

\* The claim takes the row, or another request or the clock was first.
ClaimAction(r) ==
  /\ kReq[r].pc = "claim"
  /\ LET i == kReq[r].id
     IN  \/ /\ Claimable(i)
            /\ kAction' = [kAction EXCEPT ![i].state = "taken", ![i].at = kNow, ![i].by = kReq[r].user]
            /\ kReq' = [kReq EXCEPT ![r].pc = "run"]
         \/ ~Claimable(i) /\ kReq' = [kReq EXCEPT ![r] = AiIdle] /\ UNCHANGED kAction
  /\ UNCHANGED << kSet, kBucket, kNow, kRuns, kPosts, kAllowed, kAnswered, kEvents >>

\* The tool runs with the settings of this moment and the rights of the user
\* who confirmed: it may have gone from what this user sees.
RunAction(r) ==
  /\ kReq[r].pc = "run"
  /\ \/ /\ kReq[r].tool \in tools("assistant", kReq[r].user, kSet)
        /\ kRuns' = [kRuns EXCEPT ![kReq[r].id] = Append(@, kReq[r].user)]
     \/ /\ kReq[r].tool \notin tools("assistant", kReq[r].user, kSet)
        /\ UNCHANGED kRuns
  /\ kReq' = [kReq EXCEPT ![r] = [pc |-> "note", id |-> @.id]]
  /\ UNCHANGED << kSet, kAction, kBucket, kNow, kPosts, kAllowed, kAnswered, kEvents >>

\* Its result or error is noted in the row.
NoteOutcome(r) ==
  /\ kReq[r].pc = "note"
  /\ kReq' = [kReq EXCEPT ![r] = AiIdle]
  /\ kAction' = [kAction EXCEPT ![kReq[r].id].noted = TRUE]
  /\ UNCHANGED << kSet, kBucket, kNow, kRuns, kPosts, kAllowed, kAnswered, kEvents >>

AICancelAction(r, u, i) ==
  /\ kReq[r].pc = "idle" /\ loadOwnAction(i, u)
  /\ kReq' = [kReq EXCEPT ![r] = [pc |-> "cancel", id |-> i]]
  /\ UNCHANGED << kSet, kAction, kBucket, kNow, kRuns, kPosts, kAllowed, kAnswered, kEvents >>

\* Cancels what is still open, and answers the same when nothing was.
CancelAction(r) ==
  /\ kReq[r].pc = "cancel"
  /\ kAction' = [kAction EXCEPT ![kReq[r].id] = IF @.state = "open" THEN [@ EXCEPT !.state = "canceled"] ELSE @]
  /\ kAnswered' = kAnswered \cup {kReq[r].id}
  /\ kReq' = [kReq EXCEPT ![r] = AiIdle]
  /\ UNCHANGED << kSet, kBucket, kNow, kRuns, kPosts, kAllowed, kEvents >>
-----------------------------------------------------------------------------
(* MCP *)

\* The versions a message is read with: that of the body, else that of the
\* header, else the oldest one without a header.
VersionOf(msg, hdr) == IF msg.meta # "" THEN msg.meta ELSE IF hdr.ver # "" THEN hdr.ver ELSE "old"

NoHeader == [ver |-> "", same |-> FALSE]

\* The headers of a modern message say what its body says.
validateHeaders(msg, hdr) == hdr.ver # "" /\ (msg.meta # "" => hdr.ver = msg.meta) /\ hdr.same

\* A message that gets as far as its method; a message of a batch has no headers.
handle(msg, hdr, batch) ==
  LET modern == "modern" \in {VersionOf(msg, hdr), hdr.ver}
  IN  /\ VersionOf(msg, hdr) \in {"modern", "old"}
      /\ modern => msg.meta # "" /\ (batch \/ validateHeaders(msg, hdr))

\* A call of a tool, confirmed where the settings demand it.
CallTool(msg, u, set) ==
  msg.tool \in tools("mcp", u, set) /\ (msg.tool \in AsksFirst /\ set.confirm => msg.confirm)

\* A post of a client: its token is valid and within the limit.
MCPServer(r, u, body) ==
  /\ kReq[r].pc = "idle" /\ kSet.mcp
  /\ allow(<< "mcp", u >>) /\ Counted(<< "mcp", u >>)
  /\ kReq' = [kReq EXCEPT ![r] =
                IF body.batch /\ body.hdr.ver = "modern" THEN AiIdle
                ELSE [pc |-> "serve", user |-> u, set |-> kSet, batch |-> body.batch,
                      hdr |-> IF body.batch THEN NoHeader ELSE body.hdr, calls |-> body.calls]]
  /\ UNCHANGED << kSet, kAction, kNow, kRuns, kPosts, kAnswered, kEvents >>

\* Its messages one after another.
ServeHTTP(r) ==
  /\ kReq[r].pc = "serve"
  /\ LET q == kReq[r]
         msg == Head(q.calls)
     IN  /\ kPosts' = IF handle(msg, q.hdr, q.batch) /\ CallTool(msg, q.user, q.set) /\ msg.tool \notin ReadOnly
                      THEN kPosts \cup {[msg |-> msg, hdr |-> q.hdr, batch |-> q.batch]} ELSE kPosts
         /\ kReq' = [kReq EXCEPT ![r] = IF Len(q.calls) > 1 THEN [q EXCEPT !.calls = Tail(@)] ELSE AiIdle]
  /\ UNCHANGED << kSet, kAction, kBucket, kNow, kRuns, kAllowed, kAnswered, kEvents >>
-----------------------------------------------------------------------------
(* What goes on around them *)

\* The administrator switches one of the settings on or off.
SwitchAi(fields) ==
  /\ kEvents < MaxAiEvents /\ kEvents' = kEvents + 1
  /\ \E f \in fields : kSet' = [kSet EXCEPT ![f] = ~@]
  /\ UNCHANGED << kAction, kReq, kBucket, kNow, kRuns, kPosts, kAllowed, kAnswered >>

AiTick ==
  /\ kNow < MaxNow /\ kNow' = kNow + 1
  /\ UNCHANGED << kSet, kAction, kReq, kBucket, kRuns, kPosts, kAllowed, kAnswered, kEvents >>

\* The maintenance of the night deletes what expired unanswered; what was
\* answered goes days later, when no request is about it.
CleanupAIActions ==
  /\ \E old \in BOOLEAN :
       LET gone == {i \in AiIds : \/ kAction[i].state = "open" /\ kAction[i].expires < kNow
                                  \/ /\ old /\ kAction[i].state \in {"taken", "canceled"}
                                     /\ \A r \in AiRequests : kReq[r] = AiIdle}
       IN  /\ gone # {}
           /\ kAction' = [i \in AiIds |-> IF i \in gone THEN [kAction[i] EXCEPT !.state = "gone"] ELSE kAction[i]]
  /\ UNCHANGED << kSet, kReq, kBucket, kNow, kRuns, kPosts, kAllowed, kAnswered, kEvents >>

\* The server stops and starts: requests and windows are lost.
AiCrash ==
  /\ kEvents < MaxAiEvents /\ kEvents' = kEvents + 1
  /\ kReq' = [r \in AiRequests |-> AiIdle]
  /\ kBucket' = [k \in Buckets |-> NoBucket]
  /\ kAllowed' = [k \in Buckets |-> << >>]
  /\ UNCHANGED << kSet, kAction, kNow, kRuns, kPosts, kAnswered >>

\* The conversations and what comes of them.
AssistantNext ==
  \/ \E r \in AiRequests :
       \/ \E u \in AiUsers : \/ AIChat(r, u)
                             \/ \E i \in AiIds : AIExecuteAction(r, u, i) \/ AICancelAction(r, u, i)
       \/ ModelAnswers(r) \/ runAssistant(r)
       \/ ClaimAction(r) \/ RunAction(r) \/ NoteOutcome(r) \/ CancelAction(r)
  \/ SwitchAi({"on", "write"}) \/ AiTick \/ CleanupAIActions \/ AiCrash

\* The clients of MCP.
McpNext ==
  \/ \E r \in AiRequests : (\E u \in AiUsers, body \in McpBodies : MCPServer(r, u, body)) \/ ServeHTTP(r)
  \/ SwitchAi({"mcp", "mcpWrite", "confirm"}) \/ AiTick \/ AiCrash

AiNext == AssistantNext \/ McpNext

AiSpec == AiInit /\ [][AiNext]_kVars
-----------------------------------------------------------------------------
\* Whatever two requests, a stop of the server or the clock do, the tool of an
\* action that waits is run at most once, by its owner or a superadmin, when the
\* action had not expired, and never once a cancellation took it
\* ("先原子占用（executed_at 置值）再执行，避免双击或多副本并发导致重复执行").
ActionRunsOnce ==
  \A i \in AiIds :
    /\ Len(kRuns[i]) <= 1
    /\ kRuns[i] # << >> =>
         /\ kAction[i].state \in {"taken", "gone"} /\ kAction[i].at < kAction[i].expires
         /\ kRuns[i][1] = kAction[i].by /\ kAction[i].by \in {kAction[i].user} \cup AiRoots
    /\ i \in kAnswered => kAction[i].state # "open"

\* A tool that writes runs for a modern message that was posted alone only when
\* its headers agree with its body ("HTTP 头必须存在且与请求体一致").
HeadersAgree ==
  \A p \in kPosts :
    ~p.batch /\ VersionOf(p.msg, p.hdr) = "modern" => p.hdr = [ver |-> p.msg.meta, same |-> TRUE]

\* In any span of a minute a process lets in at most twice the limit of a user
\* of the chat or of a token (allow).
RateIsLimited ==
  \A k \in Buckets : \A n \in DOMAIN kAllowed[k] :
    Cardinality({m \in DOMAIN kAllowed[k] : m >= n /\ kAllowed[k][m] - kAllowed[k][n] < Minute}) <= 2 * RateMax

AssistantInv == ActionRunsOnce /\ HeadersAgree /\ RateIsLimited
=============================================================================
