---------------------------- MODULE TunnelCheck -----------------------------
(***************************************************************************)
(* The connection address of one host and the verdict on it: the override  *)
(* an administrator sets on the host, in bulk or by import, the external   *)
(* URL that settings push to hosts without a manual override, the probe    *)
(* the platform starts, the check the agent makes from its side and brings *)
(* with a heartbeat, and the test an administrator asks for, of the saved  *)
(* address or of a candidate.  The probes run beside everything else and   *)
(* none of the writes asks which address it was about.                     *)
(***************************************************************************)
EXTENDS Integers

CONSTANTS
  TunnelAddrs,    \* addresses
  Unresolvable,   \* addresses that ResolveServerURL turns into nothing
  Testers,        \* administrators who test an address, one at a time each
  MaxActs         \* bound: edits, changes of the settings and tests

NoAddr == ""      \* an empty column

ASSUME TunnelAssumption ==
  /\ Unresolvable \subseteq TunnelAddrs /\ NoAddr \notin TunnelAddrs
  /\ MaxActs \in Nat

AddrOrNone == TunnelAddrs \cup {NoAddr}
NoTest == [addr |-> NoAddr, tried |-> FALSE]
NoVerdict == [addr |-> NoAddr, source |-> "nobody", tried |-> FALSE]
NoBeat == [over |-> NoAddr, req |-> "off", check |-> NoAddr, url |-> FALSE]

VARIABLES
  tOver, tAuto,   \* server_url_override and server_url_auto
  tVerdict,       \* tunnel_check_*: the address probed and who probed it; tried
                  \* (history): it was a candidate that nobody has to save
  tReq,           \* tunnel_check_requested_at: none, within its window, or past it
  tProbes,        \* the platform's checks: the address each has read, "unread", or
                  \* "due" while the edit has not reset the verdict
  tTests,         \* the tests: the address each probes, and whether it was given
  tBeat,          \* what the heartbeat in progress read; "off" when none is
  tAgentRun,      \* the address the agent probes
  tAgentPend,     \* the address of the result the agent brings
  tAgentLast,     \* the address it probed within the last five minutes
  tExternal,      \* server.external_url
  tSync,          \* server.auto_sync_agent_url
  tActs,          \* history: what administrators have done
  tRaced          \* history: the address changed under a check, or its check was lost

tVars == << tOver, tAuto, tVerdict, tReq, tProbes, tTests, tBeat, tAgentRun, tAgentPend,
            tAgentLast, tExternal, tSync, tActs, tRaced >>

TunnelInit ==
  /\ tOver = NoAddr /\ tAuto = FALSE
  /\ tVerdict = NoVerdict
  /\ tReq = "none"
  /\ tProbes = {}
  /\ tTests = [t \in Testers |-> NoTest]
  /\ tBeat = NoBeat
  /\ tAgentRun = NoAddr /\ tAgentPend = NoAddr /\ tAgentLast = NoAddr
  /\ tExternal = NoAddr
  /\ tSync = FALSE
  /\ tActs = 0
  /\ tRaced = FALSE

\* Some check of an older address is still under way.
InFlight ==
  \/ \E p \in tProbes : p.addr \notin {"due", "unread"}
  \/ \E t \in Testers : tTests[t].addr # NoAddr /\ ~tTests[t].tried
  \/ tAgentRun # NoAddr \/ tAgentPend # NoAddr \/ tBeat.req # "off"

Change(over, checked) ==
  /\ tOver' = over
  /\ tRaced' = (tRaced \/ (over # tOver /\ (InFlight \/ ~checked)))
-----------------------------------------------------------------------------
(* Edits of the host *)

\* An override that is saved unchanged keeps its origin.  The check comes with
\* the next statement.
HostUpdate(a) ==
  /\ tActs < MaxActs
  /\ Change(a, TRUE)
  /\ tAuto' = (tAuto /\ a = tOver)
  /\ tProbes' = tProbes \cup {[id |-> tActs + 1, addr |-> "due"]}
  /\ tActs' = tActs + 1
  /\ UNCHANGED << tVerdict, tReq, tTests, tBeat, tAgentRun, tAgentPend, tAgentLast,
                  tExternal, tSync >>

\* Starts the probe and leaves the old verdict.
triggerTunnelCheckMutant(p) ==
  /\ p.addr = "due"
  /\ tReq' = "fresh"
  /\ tProbes' = (tProbes \ {p}) \cup {[p EXCEPT !.addr = "unread"]}
  /\ UNCHANGED << tOver, tAuto, tVerdict, tTests, tBeat, tAgentRun, tAgentPend,
                  tAgentLast, tExternal, tSync, tActs, tRaced >>

\* Clears the verdict, asks for the agent's check and starts the platform's.
triggerTunnelCheck(p) ==
  /\ p.addr = "due"
  /\ tVerdict' = NoVerdict
  /\ tReq' = "fresh"
  /\ tProbes' = (tProbes \ {p}) \cup {[p EXCEPT !.addr = "unread"]}
  /\ UNCHANGED << tOver, tAuto, tTests, tBeat, tAgentRun, tAgentPend, tAgentLast,
                  tExternal, tSync, tActs, tRaced >>

\* The bulk edit and the import write the override and start no check.
HostBatchUpdate(a) ==
  /\ tActs < MaxActs
  /\ Change(a, FALSE)
  /\ tAuto' = FALSE
  /\ tActs' = tActs + 1
  /\ UNCHANGED << tVerdict, tReq, tProbes, tTests, tBeat, tAgentRun, tAgentPend,
                  tAgentLast, tExternal, tSync >>

\* An import leaves an empty cell alone unless it is told to clear.
HostImportCSV(a, clearEmpty) ==
  /\ a # NoAddr \/ clearEmpty
  /\ HostBatchUpdate(a)
-----------------------------------------------------------------------------
(* Settings *)

\* Only a host without an override, or with one that came from the settings.
MaySync == tAuto \/ tOver = NoAddr

SyncExternalURLToAgents(url) ==
  IF url = NoAddr
  THEN IF tAuto
       THEN /\ Change(NoAddr, TRUE) /\ tAuto' = FALSE
            /\ tVerdict' = NoVerdict /\ tReq' = "none"
       ELSE UNCHANGED << tOver, tAuto, tVerdict, tReq, tRaced >>
  ELSE IF MaySync
       THEN /\ Change(url, TRUE) /\ tAuto' = TRUE
            /\ tVerdict' = NoVerdict /\ tReq' = "fresh"
       ELSE UNCHANGED << tOver, tAuto, tVerdict, tReq, tRaced >>

\* Saves external_url and the switch; pushes the URL when the switch is on and
\* either of them changed.
UpdateSettings(url, sync) ==
  /\ tActs < MaxActs
  /\ tExternal' = url /\ tSync' = sync
  /\ IF sync /\ (url # tExternal \/ ~tSync)
     THEN SyncExternalURLToAgents(url)
     ELSE UNCHANGED << tOver, tAuto, tVerdict, tReq, tRaced >>
  /\ tActs' = tActs + 1
  /\ UNCHANGED << tProbes, tTests, tBeat, tAgentRun, tAgentPend, tAgentLast >>
-----------------------------------------------------------------------------
(* The platform's probe *)

\* Reads the address; an empty one only clears the verdict and the request.
runPlatformTunnelCheck(p) ==
  /\ p.addr = "unread"
  /\ IF tOver = NoAddr
     THEN /\ tVerdict' = NoVerdict /\ tReq' = "none"
          /\ tProbes' = tProbes \ {p}
     ELSE /\ tProbes' = (tProbes \ {p}) \cup {[p EXCEPT !.addr = tOver]}
          /\ UNCHANGED << tVerdict, tReq >>
  /\ UNCHANGED << tOver, tAuto, tTests, tBeat, tAgentRun, tAgentPend, tAgentLast,
                  tExternal, tSync, tActs, tRaced >>

KeepsAgentVerdict == tVerdict.source = "agent"

\* The probe ends and writes, unless the agent has.
savePlatformTunnelCheck(p) ==
  /\ p.addr \notin {"due", "unread"}
  /\ tProbes' = tProbes \ {p}
  /\ tVerdict' = IF KeepsAgentVerdict THEN tVerdict
                 ELSE [addr |-> p.addr, source |-> "platform", tried |-> FALSE]
  /\ UNCHANGED << tOver, tAuto, tReq, tTests, tBeat, tAgentRun, tAgentPend, tAgentLast,
                  tExternal, tSync, tActs, tRaced >>

\* A statement of the check fails, or its replica stops: the rest is dropped.
\* When it is the first one, the edit goes without a check.
TunnelCheckLost(p) ==
  /\ tProbes' = tProbes \ {p}
  /\ tRaced' = (tRaced \/ p.addr = "due")
  /\ UNCHANGED << tOver, tAuto, tVerdict, tReq, tTests, tBeat, tAgentRun, tAgentPend,
                  tAgentLast, tExternal, tSync, tActs >>
-----------------------------------------------------------------------------
(* The test an administrator asks for *)

testFrame == << tOver, tAuto, tReq, tProbes, tBeat, tAgentRun, tAgentPend, tAgentLast,
                tExternal, tSync, tRaced >>

\* Probes the address of the request or else the saved one; one that is empty
\* or no address is refused.
HostTunnelTest(t, target) ==
  /\ tTests[t] = NoTest /\ tActs < MaxActs
  /\ LET addr == IF target = NoAddr THEN tOver ELSE target
     IN  /\ addr \notin Unresolvable \cup {NoAddr}
         /\ tTests' = [tTests EXCEPT ![t] = [addr |-> addr, tried |-> target # NoAddr]]
  /\ tActs' = tActs + 1
  /\ UNCHANGED << tVerdict, testFrame >>

\* Writes the result whatever the address and whoever spoke last; or the
\* statement fails and the result is only shown.
HostTunnelTestSaves(t) ==
  /\ tTests[t] # NoTest
  /\ tTests' = [tTests EXCEPT ![t] = NoTest]
  /\ \/ tVerdict' = [addr |-> tTests[t].addr, source |-> "platform", tried |-> tTests[t].tried]
     \/ UNCHANGED tVerdict
  /\ UNCHANGED << tActs, testFrame >>
-----------------------------------------------------------------------------
(* The heartbeat *)

\* The first statement reads the override and the request.
BeatReads ==
  /\ tBeat.req = "off"
  /\ tBeat' = [over |-> tOver, req |-> tReq, check |-> tAgentPend,
               url |-> tOver # NoAddr /\ tOver \notin Unresolvable]
  /\ UNCHANGED << tOver, tAuto, tVerdict, tReq, tProbes, tTests, tAgentRun, tAgentPend,
                  tAgentLast, tExternal, tSync, tActs, tRaced >>

\* Stores the result the agent brought.
saveAgentTunnelCheck ==
  IF tBeat.check = NoAddr THEN UNCHANGED tVerdict
  ELSE tVerdict' = [addr |-> tBeat.check, source |-> "agent", tried |-> FALSE]

\* A result ends the request, and so does a request whose window has passed
\* or that has no address.
RequestEnds == tBeat.check # NoAddr \/ tBeat.req = "stale" \/ (tBeat.req = "fresh" /\ ~tBeat.url)

\* Then the answer goes out; within the window it names the address to check.
\* The agent drops the result it brought, and probes unless it is probing or
\* has probed that address lately.
BeatAnswers ==
  /\ tBeat.req # "off"
  /\ saveAgentTunnelCheck
  /\ tReq' = IF RequestEnds THEN "none" ELSE tReq
  /\ tAgentPend' = IF tAgentPend = tBeat.check THEN NoAddr ELSE tAgentPend
  /\ IF tBeat.req = "fresh" /\ tBeat.url /\ tAgentRun = NoAddr /\ tAgentLast # tBeat.over
     THEN tAgentRun' = tBeat.over /\ tAgentLast' = tBeat.over
     ELSE UNCHANGED << tAgentRun, tAgentLast >>
  /\ tBeat' = NoBeat
  /\ UNCHANGED << tOver, tAuto, tProbes, tTests, tExternal, tSync, tActs, tRaced >>

\* The agent's probe ends.
AgentProbed ==
  /\ tAgentRun # NoAddr
  /\ tAgentPend' = tAgentRun
  /\ tAgentRun' = NoAddr
  /\ UNCHANGED << tOver, tAuto, tVerdict, tReq, tProbes, tTests, tBeat, tAgentLast,
                  tExternal, tSync, tActs, tRaced >>

\* Five minutes pass on the agent, or ten on the server.
AgentForgets ==
  /\ tAgentLast # NoAddr /\ tAgentRun = NoAddr
  /\ tAgentLast' = NoAddr
  /\ UNCHANGED << tOver, tAuto, tVerdict, tReq, tProbes, tTests, tBeat, tAgentRun,
                  tAgentPend, tExternal, tSync, tActs, tRaced >>

WindowPasses ==
  /\ tReq = "fresh"
  /\ tReq' = "stale"
  /\ UNCHANGED << tOver, tAuto, tVerdict, tProbes, tTests, tBeat, tAgentRun, tAgentPend,
                  tAgentLast, tExternal, tSync, tActs, tRaced >>
-----------------------------------------------------------------------------
TunnelBeat == BeatReads \/ BeatAnswers

TunnelNext ==
  \/ \E a \in AddrOrNone :
       \/ HostUpdate(a) \/ HostBatchUpdate(a)
       \/ \E c \in BOOLEAN : HostImportCSV(a, c)
       \/ \E s \in BOOLEAN : UpdateSettings(a, s)
  \/ \E p \in tProbes : \/ triggerTunnelCheck(p) \/ runPlatformTunnelCheck(p)
                        \/ savePlatformTunnelCheck(p) \/ TunnelCheckLost(p)
  \/ \E t \in Testers : HostTunnelTestSaves(t) \/ \E a \in AddrOrNone : HostTunnelTest(t, a)
  \/ TunnelBeat
  \/ AgentProbed \/ AgentForgets \/ WindowPasses

TunnelTypeOK ==
  /\ tOver \in AddrOrNone /\ tExternal \in AddrOrNone
  /\ tVerdict.addr \in AddrOrNone /\ tVerdict.source \in {"nobody", "platform", "agent"}
  /\ tReq \in {"none", "fresh", "stale"}
  /\ tAgentRun \in AddrOrNone /\ tAgentPend \in AddrOrNone
  /\ tActs \in 0 .. MaxActs

\* A verdict is about the address the host has now, unless a test tried a
\* candidate, the reset that goes with the edit is still to come, or the address
\* was changed under a check in progress or by an edit that starts none.
StaleVerdictNeedsRace ==
  tVerdict.source # "nobody" /\ tVerdict.addr # tOver =>
    tRaced \/ tVerdict.tried \/ \E p \in tProbes : p.addr = "due"

\* A verdict that misleads has a race or a candidate behind it.
TunnelInv == TunnelTypeOK /\ StaleVerdictNeedsRace

\* A verdict is always about the address the host has now.
VerdictIsCurrent == tVerdict.source # "nobody" => tVerdict.addr = tOver
=============================================================================
