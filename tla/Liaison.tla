------------------------------- MODULE Liaison -------------------------------
(***************************************************************************)
(* Remote management through the server: who may do what, kept in a table  *)
(* and in the memory of each server; one terminal or desktop session,      *)
(* carried between a browser and a host by several goroutines; and the     *)
(* connections to outside databases, whose pools are cached by id.         *)
(***************************************************************************)
EXTENDS Naturals

CONSTANTS
  LServers,         \* server processes
  Policies,         \* policies, each for one role
  PolicyRole,       \* the role a policy is for
  PolicyRights,     \* what it allows: "ssh", "desktop", "db"
  DefaultPolicies,  \* written when a server finds none
  PolicyAdmins,     \* superadmins at work on policies
  SessionKinds,     \* of "ssh", "vnc", "rdp"
  DSNs,             \* outside databases
  MaxPolicyCalls, MaxLiaisonStarts, MaxChunks, MaxConnections   \* bounds

ASSUME LiaisonAssumption ==
  /\ DefaultPolicies \subseteq Policies /\ SessionKinds \subseteq {"ssh", "vnc", "rdp"}
  /\ {MaxPolicyCalls, MaxLiaisonStarts, MaxChunks, MaxConnections} \subseteq Nat

VARIABLES
  lRows,    \* liaison_policies: how often each policy is in it
  lMem,     \* each server's enforcer: the lines it holds and those its index knows
  lBoot,    \* each server: "down", "load", "defaults" or "up"
  lCalls,   \* what each superadmin's call is at
  lCount,   \* bounds: calls and starts so far
  lGiven,   \* history: <<server, policy>> that was answered or loaded, never asked to go
  lAsked,   \* history: policies somebody asked to remove
  lSess,    \* the session
  lConns,   \* liaison_db_connections
  lLastId,  \* the id given last
  lPools    \* each server's cache of open pools

policyVars == << lRows, lMem, lBoot, lCalls, lCount, lGiven, lAsked >>
dbVars == << lConns, lLastId, lPools >>
lVars == << lRows, lMem, lBoot, lCalls, lCount, lGiven, lAsked, lSess, lConns, lLastId, lPools >>

NoCall == [pc |-> "idle"]
Pumps == {"stdout", "stderr"}
NoLines == [lines |-> [p \in Policies |-> 0], known |-> {}]
NoSession ==
  [kind |-> "none", at |-> "none", main |-> "none", ws |-> "open", remote |-> "none", stop |-> FALSE,
   pump |-> [u \in Pumps |-> "none"], pipe |-> [u \in Pumps |-> 0], inp |-> "none",
   back |-> "none", asked |-> FALSE, sync |-> TRUE, sent |-> 0,
   pressed |-> {}, held |-> {}]

LiaisonInit ==
  /\ lRows = [p \in Policies |-> 0]
  /\ lMem = [s \in LServers |-> NoLines]
  /\ lBoot = [s \in LServers |-> "down"]
  /\ lCalls = [a \in PolicyAdmins |-> NoCall]
  /\ lCount = [calls |-> 0, starts |-> 0]
  /\ lGiven = {} /\ lAsked = {}
  /\ lSess = NoSession
  /\ lConns = {} /\ lLastId = 0
  /\ lPools = [s \in LServers |-> {}]
-----------------------------------------------------------------------------
(* Policies *)

\* A role may do what one line in the server's memory allows it.
Allow(s, role, right) ==
  \E p \in Policies : lMem[s].lines[p] > 0 /\ PolicyRole[p] = role /\ right \in PolicyRights[p]

AllowRoles(s, roles, right) == \E role \in roles : Allow(s, role, right)

\* A process starts, or dies and its callers get no answer.
Restart(s) ==
  /\ lCount.starts < MaxLiaisonStarts
  /\ lCount' = [lCount EXCEPT !.starts = @ + 1]
  /\ lBoot' = [lBoot EXCEPT ![s] = "load"]
  /\ lMem' = [lMem EXCEPT ![s] = NoLines]
  /\ lCalls' = [a \in PolicyAdmins |-> IF lCalls[a] # NoCall /\ lCalls[a].at = s THEN NoCall ELSE lCalls[a]]
  /\ lPools' = [lPools EXCEPT ![s] = {}]
  /\ lSess' = IF lSess.at = s THEN [NoSession EXCEPT !.main = "returned", !.ws = "closed"] ELSE lSess
  /\ UNCHANGED << lRows, lGiven, lAsked, lConns, lLastId >>

\* Every row becomes a line, but the index of the enforcer does not learn of it.
Loaded == [lines |-> lRows, known |-> {}]

LoadPolicy(s) ==
  /\ lBoot[s] = "load"
  /\ lMem' = [lMem EXCEPT ![s] = Loaded]
  /\ lGiven' = lGiven \cup ({s} \X {g[2] : g \in lGiven})
  /\ lBoot' = [lBoot EXCEPT ![s] = IF \A p \in Policies : lRows[p] = 0 THEN "defaults" ELSE "up"]
  /\ UNCHANGED << lRows, lCalls, lCount, lAsked, lSess, dbVars >>

\* One line more, which the index learns of.
WithLine(mem, p) == [lines |-> [mem.lines EXCEPT ![p] = @ + 1], known |-> mem.known \cup {p}]

\* The defaults one after the other; the server serves nobody yet.
ensureDefaults(s) ==
  /\ lBoot[s] = "defaults"
  /\ LET missing == DefaultPolicies \ lMem[s].known IN
     \/ \E p \in missing :
          /\ lRows' = [lRows EXCEPT ![p] = @ + 1]
          /\ lMem' = [lMem EXCEPT ![s] = WithLine(lMem[s], p)]
          /\ UNCHANGED lBoot
     \/ missing = {} /\ lBoot' = [lBoot EXCEPT ![s] = "up"] /\ UNCHANGED << lRows, lMem >>
  /\ UNCHANGED << lCalls, lCount, lGiven, lAsked, lSess, dbVars >>

\* The database fails: the server goes on without remote management.
NewRBACFails(s) ==
  /\ lBoot[s] \in {"load", "defaults"} /\ lBoot' = [lBoot EXCEPT ![s] = "down"]
  /\ UNCHANGED << lRows, lMem, lCalls, lCount, lGiven, lAsked, lSess, dbVars >>

Answered(s, p) == lGiven' = IF p \in lAsked THEN lGiven ELSE lGiven \cup {<< s, p >>}

\* A policy the index knows is not added again.
handlePolicyAdd(a, s, p) ==
  /\ lCalls[a] = NoCall /\ lBoot[s] = "up" /\ lCount.calls < MaxPolicyCalls
  /\ lCount' = [lCount EXCEPT !.calls = @ + 1]
  /\ \/ p \in lMem[s].known /\ Answered(s, p) /\ UNCHANGED lCalls
     \/ p \notin lMem[s].known /\ lCalls' = [lCalls EXCEPT ![a] = [pc |-> "insert", at |-> s, p |-> p]] /\ UNCHANGED lGiven
  /\ UNCHANGED << lRows, lMem, lBoot, lAsked, lSess, dbVars >>

\* First the table.
AddPolicy(a) ==
  /\ lCalls[a].pc = "insert"
  /\ lRows' = [lRows EXCEPT ![lCalls[a].p] = @ + 1]
  /\ lCalls' = [lCalls EXCEPT ![a].pc = "keep"]
  /\ UNCHANGED << lMem, lBoot, lCount, lGiven, lAsked, lSess, dbVars >>

\* Then the memory of this server; the others learn of it when they start.
KeepPolicy(a) ==
  LET c == lCalls[a] IN
  /\ c.pc = "keep"
  /\ lMem' = [lMem EXCEPT ![c.at] = WithLine(lMem[c.at], c.p)]
  /\ Answered(c.at, c.p)
  /\ lCalls' = [lCalls EXCEPT ![a] = NoCall]
  /\ UNCHANGED << lRows, lBoot, lCount, lAsked, lSess, dbVars >>

handlePolicyRemove(a, s, p) ==
  /\ lCalls[a] = NoCall /\ lBoot[s] = "up" /\ lCount.calls < MaxPolicyCalls
  /\ lCount' = [lCount EXCEPT !.calls = @ + 1]
  /\ lCalls' = [lCalls EXCEPT ![a] = [pc |-> "erase", at |-> s, p |-> p]]
  /\ lAsked' = lAsked \cup {p}
  /\ lGiven' = {g \in lGiven : g[2] # p}
  /\ UNCHANGED << lRows, lMem, lBoot, lSess, dbVars >>

\* Every row that agrees with the policy in all its columns.
RemovePolicy(a) ==
  /\ lCalls[a].pc = "erase"
  /\ lRows' = [lRows EXCEPT ![lCalls[a].p] = 0]
  /\ lCalls' = [lCalls EXCEPT ![a].pc = "forget"]
  /\ UNCHANGED << lMem, lBoot, lCount, lGiven, lAsked, lSess, dbVars >>

\* One line goes, of a policy the index knows; lines that move into its place
\* become known, a second one of the same policy too.
ForgetPolicy(a) ==
  LET c == lCalls[a]
      old == lMem[c.at]
      left == [old.lines EXCEPT ![c.p] = @ - 1]
      others == old.known \ {c.p} IN
  /\ c.pc = "forget"
  /\ \/ c.p \notin old.known /\ UNCHANGED lMem
     \/ /\ c.p \in old.known
        /\ \E moved \in SUBSET {q \in Policies : left[q] > 0} :
             lMem' = [lMem EXCEPT ![c.at] = [lines |-> left, known |-> others \cup moved]]
  /\ lCalls' = [lCalls EXCEPT ![a] = NoCall]
  /\ UNCHANGED << lRows, lBoot, lCount, lGiven, lAsked, lSess, dbVars >>

\* The statement of a call fails: an error, and memory as it was.
PolicyFails(a) ==
  /\ lCalls[a].pc \in {"insert", "erase"} /\ lCalls' = [lCalls EXCEPT ![a] = NoCall]
  /\ UNCHANGED << lRows, lMem, lBoot, lCount, lGiven, lAsked, lSess, dbVars >>
-----------------------------------------------------------------------------
(* Sessions *)

Session(new) == lSess' = new /\ UNCHANGED << policyVars, dbVars >>

\* A context that was cancelled, or a browser that is gone, fails what waits for it.
Cut(t) == t.stop \/ t.ws = "closed"

\* A write to the browser ends, with an error or without.
WriteReturns(t) == Cut(t) \/ t.ws = "open"

\* The handler returns: its deferred calls cancel the context and close the
\* browser's connection and the host's; that of RDP has nobody to close it.
Returned(t) ==
  [t EXCEPT !.main = "returned", !.ws = "closed", !.stop = TRUE,
            !.remote = IF @ = "open" /\ t.kind # "rdp" THEN "closed" ELSE @]

\* A browser opens the channel and names what it wants within ten seconds.
handleWS(s, kind) ==
  /\ lSess.main = "none" /\ lBoot[s] = "up"
  /\ Session([lSess EXCEPT !.kind = kind, !.at = s, !.main = "greet"])

\* It does not: or the policies of the moment do not allow it.
Greeting(roles) ==
  /\ lSess.main = "greet"
  /\ LET right == IF lSess.kind = "ssh" THEN "ssh" ELSE "desktop" IN
     IF AllowRoles(lSess.at, roles, right) /\ lSess.ws # "closed"
     THEN Session([lSess EXCEPT !.main = IF lSess.kind = "rdp" THEN "input" ELSE "dial",
                                !.back = IF lSess.kind = "rdp" THEN "login" ELSE "none"])
     ELSE Session(Returned(lSess))

GreetingTimesOut == lSess.main = "greet" /\ Session(Returned(lSess))

\* The host is reached, or the browser is told that it is not.
Dial ==
  /\ lSess.main = "dial"
  /\ \/ Session([lSess EXCEPT !.main = IF lSess.kind = "ssh" THEN "ready" ELSE "handshake", !.remote = "open"])
     \/ Session(Returned(lSess))

\* Version, security and screen of a VNC server, read one by one without a
\* deadline; then the first update is asked for.
vncHandshake ==
  /\ lSess.main = "handshake"
  /\ \/ lSess.remote = "open" /\ Session([lSess EXCEPT !.main = "ready", !.asked = TRUE])
     \/ Session(Returned(lSess))

\* The browser is told; then the goroutines start.
Ready ==
  /\ lSess.main = "ready" /\ lSess.ws # "stalled"
  /\ IF lSess.ws = "closed" THEN Session(Returned(lSess))
     ELSE Session([lSess EXCEPT !.main = IF lSess.kind = "ssh" THEN "wait" ELSE "read", !.inp = "read",
                                !.pump = [u \in Pumps |-> IF lSess.kind = "ssh" THEN "read" ELSE "none"]])

\* What comes from the browser, for the host; an SSH host that is gone ends it.
ForwardInput ==
  /\ lSess.inp = "read" /\ (Cut(lSess) \/ (lSess.kind = "ssh" /\ lSess.remote = "gone"))
  /\ Session([lSess EXCEPT !.inp = "done", !.stop = TRUE])

\* The buttons the host takes to be down once it is told which ones are.  VNC is
\* told them all; RDP is told of each one that is down and of none that is up.
sendInput(held, pressed) == pressed
rdpHandleInput(held, pressed) == held \cup pressed

Pointer(pressed) ==
  /\ ~Cut(lSess) /\ lSess.remote = "open" /\ lSess.kind # "ssh"
  /\ lSess.inp = "read" \/ lSess.main = "input"
  /\ Session([lSess EXCEPT !.pressed = pressed,
                           !.held = IF lSess.kind = "vnc" THEN sendInput(@, pressed) ELSE rdpHandleInput(@, pressed)])

\* SSH: one goroutine each for what the shell writes to stdout and stderr.
PumpReads(u) ==
  /\ lSess.pump[u] = "read" /\ (lSess.pipe[u] > 0 \/ lSess.remote # "open")
  /\ IF lSess.pipe[u] > 0 THEN Session([lSess EXCEPT !.pipe[u] = @ - 1, !.pump[u] = "write"])
     ELSE Session([lSess EXCEPT !.pump[u] = "done", !.stop = TRUE])

PumpWrites(u) ==
  /\ lSess.pump[u] = "write" /\ WriteReturns(lSess)
  /\ Session(IF Cut(lSess) THEN [lSess EXCEPT !.pump[u] = "done", !.stop = TRUE] ELSE [lSess EXCEPT !.pump[u] = "read"])

\* Only the end of the shell ends the handler.
Wait == lSess.main = "wait" /\ lSess.remote # "open" /\ Session(Returned(lSess))

\* VNC: a message of the host.  The entries of a colour map are left unread, so
\* that whatever follows is taken for a message.
readServerMessage ==
  /\ lSess.main = "read"
  /\ \/ lSess.pipe["stdout"] > 0 /\ lSess.sync
        /\ Session([lSess EXCEPT !.pipe["stdout"] = @ - 1, !.main = "write"])
     \/ lSess.pipe["stderr"] > 0
        /\ Session([lSess EXCEPT !.pipe["stderr"] = @ - 1, !.sync = FALSE])
     \/ /\ ~lSess.sync \/ lSess.remote # "open"
        /\ Session(Returned(lSess))

\* The whole screen for the browser; then the next update is asked for.
WriteFramebuffer ==
  /\ lSess.main = "write" /\ WriteReturns(lSess)
  /\ Session(IF Cut(lSess) THEN Returned(lSess) ELSE [lSess EXCEPT !.main = "read", !.asked = TRUE])

\* RDP: the login runs beside the handler; failing, it closes the channel.
Login ==
  /\ lSess.back = "login"
  /\ \/ Session([lSess EXCEPT !.back = "idle", !.remote = "open"])
     \/ Session([lSess EXCEPT !.back = "close", !.ws = "closed"])

\* A part of the screen is written under the mutex.
OnBitmap ==
  \/ /\ lSess.back = "idle" /\ lSess.pipe["stdout"] > 0
     /\ Session([lSess EXCEPT !.pipe["stdout"] = @ - 1, !.back = "write"])
  \/ /\ lSess.back = "write" /\ WriteReturns(lSess)
     /\ Session([lSess EXCEPT !.back = IF Cut(lSess) THEN "close" ELSE "idle"])

\* The host closes the connection, or it breaks.  What closes a session needs
\* the mutex that a write to the browser holds.
OnClose(t) == t.kind = "rdp" /\ t.remote = "gone" /\ ~t.stop /\ t.back # "write"

closeOnce ==
  /\ lSess.back = "close" \/ OnClose(lSess)
  /\ Session([lSess EXCEPT !.stop = TRUE, !.back = "idle"])

InputLoop == lSess.main = "input" /\ Cut(lSess) /\ Session(Returned(lSess))

ServerSide ==
  \/ (\E roles \in {{PolicyRole[p]} : p \in Policies} : Greeting(roles)) \/ GreetingTimesOut
  \/ Dial \/ vncHandshake \/ Ready \/ ForwardInput
  \/ (\E u \in Pumps : PumpReads(u) \/ PumpWrites(u)) \/ Wait
  \/ readServerMessage \/ WriteFramebuffer \/ Login \/ OnBitmap \/ closeOnce \/ InputLoop

\* The host writes: to a terminal when it likes, a screen when asked for it; a
\* VNC host may also send a colour map ("stderr" here).
HostWrites(u) ==
  /\ lSess.remote = "open" /\ lSess.sent < MaxChunks
  /\ lSess.kind = "vnc" /\ u = "stdout" => lSess.asked
  /\ lSess.kind = "vnc" => lSess.main \notin {"handshake", "ready"}
  /\ lSess.kind = "rdp" => u = "stdout"
  /\ Session([lSess EXCEPT !.pipe[u] = @ + 1, !.sent = @ + 1, !.asked = FALSE])

HostEnds == lSess.remote = "open" /\ Session([lSess EXCEPT !.remote = "gone"])

\* The browser stops reading, reads on, or goes.
Browser ==
  /\ lSess.main # "none"
  /\ \/ lSess.ws = "open" /\ Session([lSess EXCEPT !.ws = "stalled"])
     \/ lSess.ws = "stalled" /\ Session([lSess EXCEPT !.ws = "open"])
     \/ lSess.ws # "closed" /\ Session([lSess EXCEPT !.ws = "closed"])
-----------------------------------------------------------------------------
(* Outside databases *)

\* Ids are never given twice, whatever rows go (AUTOINCREMENT, a sequence).
NextId == lLastId + 1

MayUse(s, right) == lBoot[s] = "up" /\ AllowRoles(s, {PolicyRole[p] : p \in Policies}, right)

handleDBCreate(s, dsn) ==
  /\ MayUse(s, "db") /\ lLastId < MaxConnections
  /\ lConns' = lConns \cup {[id |-> NextId, dsn |-> dsn]}
  /\ lLastId' = lLastId + 1
  /\ UNCHANGED << policyVars, lSess, lPools >>

\* Only the row goes: pools stay.
handleDBDelete(s, row) ==
  /\ MayUse(s, "db") /\ lConns' = lConns \ {row}
  /\ UNCHANGED << policyVars, lSess, lLastId, lPools >>

OpenPool(s, id) == {c \in lPools[s] : c.id = id}

\* A query runs on the pool of its id; without one the row is read and a pool opened.
handleDBQuery(s, id) ==
  /\ MayUse(s, "db") /\ OpenPool(s, id) = {}
  /\ \E row \in lConns : row.id = id /\ lPools' = [lPools EXCEPT ![s] = @ \cup {row}]
  /\ UNCHANGED << policyVars, lSess, lConns, lLastId >>

NewRBAC == \E s \in LServers : Restart(s) \/ LoadPolicy(s) \/ ensureDefaults(s) \/ NewRBACFails(s)

PolicyNext ==
  \/ NewRBAC
  \/ \E a \in PolicyAdmins, s \in LServers, p \in Policies : handlePolicyAdd(a, s, p) \/ handlePolicyRemove(a, s, p)
  \/ \E a \in PolicyAdmins : AddPolicy(a) \/ KeepPolicy(a) \/ RemovePolicy(a) \/ ForgetPolicy(a) \/ PolicyFails(a)

SessionNext ==
  \/ NewRBAC
  \/ \E s \in LServers, kind \in SessionKinds : handleWS(s, kind)
  \/ (\E pressed \in {{}, {"left"}} : Pointer(pressed))
  \/ ServerSide \/ (\E u \in Pumps : HostWrites(u)) \/ HostEnds \/ Browser

WebDbNext ==
  \/ NewRBAC
  \/ \E s \in LServers :
       \/ \E dsn \in DSNs : handleDBCreate(s, dsn)
       \/ \E row \in lConns : handleDBDelete(s, row)
       \/ \E id \in 1..MaxConnections : handleDBQuery(s, id)
-----------------------------------------------------------------------------
(* Properties *)

\* A policy whose addition was answered, and which nobody asked to remove, is in
\* the table and allows what it says, on the server that answered and on every
\* one that started since, whatever other policies went (AddPolicy, RemovePolicy).
GivenPoliciesHold ==
  \A g \in lGiven :
    /\ lRows[g[2]] > 0
    /\ lBoot[g[1]] = "up" => \A right \in PolicyRights[g[2]] : Allow(g[1], PolicyRole[g[2]], right)

\* A goroutine has something to do: the guards of ServerSide.
Busy(t) ==
  \/ t.main \in {"greet", "dial", "handshake"}
  \/ t.main = "ready" /\ t.ws # "stalled"
  \/ t.main = "wait" /\ t.remote # "open"
  \/ t.main = "read" /\ ((\E u \in Pumps : t.pipe[u] > 0) \/ ~t.sync \/ t.remote # "open")
  \/ t.main = "write" /\ WriteReturns(t)
  \/ t.main = "input" /\ Cut(t)
  \/ t.inp = "read" /\ (Cut(t) \/ (t.kind = "ssh" /\ t.remote = "gone"))
  \/ \E u \in Pumps : t.pump[u] = "read" /\ (t.pipe[u] > 0 \/ t.remote # "open")
  \/ (\E u \in Pumps : t.pump[u] = "write") /\ WriteReturns(t)
  \/ t.back \in {"login", "close"} \/ (t.back = "write" /\ WriteReturns(t))
  \/ t.back = "idle" /\ t.pipe["stdout"] > 0
  \/ OnClose(t)

\* When the host is gone and no goroutine has anything left to do, the handler
\* has returned, unless the browser does not take what is written to it.
HostEndsSession ==
  lSess.remote = "gone" /\ lSess.ws # "stalled" /\ ~Busy(lSess) => lSess.main = "returned"

\* A handler that returned leaves no goroutine behind, and no open connection
\* but that of RDP.
NothingLeftBehind ==
  lSess.main = "returned" /\ ~Busy(lSess) =>
    /\ lSess.inp # "read" /\ \A u \in Pumps : lSess.pump[u] \in {"none", "done"}
    /\ lSess.back \in {"none", "idle"}
    /\ lSess.kind # "rdp" => lSess.remote # "open"

\* A query reaches the database of the connection the user sees under its id,
\* although pools are cached by id and outlive their rows (dbRegistry.get).
QueriesReachTheirRow ==
  \A s \in LServers : \A c \in lPools[s], row \in lConns : c.id = row.id => c = row

LiaisonInv == GivenPoliciesHold /\ HostEndsSession /\ NothingLeftBehind /\ QueriesReachTheirRow

\* Deliberately not checked, the code does not keep them.  A removed policy
\* allows nothing on a server without calls: one loaded from the table stays.
RemovedPoliciesEnd ==
  \A s \in LServers, p \in Policies :
    lBoot[s] = "up" /\ lRows[p] = 0 /\ (\A a \in PolicyAdmins : lCalls[a] = NoCall) => lMem[s].lines[p] = 0
\* A session ends with its browser: a shell and an idle VNC host keep theirs.
BrowserEndsSession == lSess.ws = "closed" /\ ~Busy(lSess) => lSess.main = "returned"
\* A button the user let go is up: an RDP host is never told.
ButtonsAreReleased == lSess.remote = "open" => lSess.held = lSess.pressed
\* A connection that was deleted answers no more.
DeletedConnectionsEnd == \A s \in LServers : lPools[s] \subseteq lConns
=============================================================================
