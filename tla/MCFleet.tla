------------------------------- MODULE MCFleet -------------------------------
(***************************************************************************)
(* The fleet, for one TLC run: on the server the enrolment of machines,    *)
(* connection addresses, agent updates and the removal of hosts; on the    *)
(* host of an agent the execution of commands, the replacement of the      *)
(* agent's program under its watchdog, the state file, and the output of   *)
(* commands and the log.  They share no state; part says which of them a   *)
(* behaviour is about, so that the states add up instead of multiplying.   *)
(***************************************************************************)
EXTENDS Enrolment, TunnelCheck, AgentUpdate, HostRemoval,
        Executor, SelfUpdate, StateFile, AgentOutput

CONSTANTS
  m1, m2, lo,     \* two machines and the loopback address
  v1, v2,         \* versions of a component
  n1              \* the name of a temporary file

VARIABLE part

FleetMachines == {m1, m2}

\* A one-time token of one tenant, and an automation token of the other that
\* only admits the first machine.
FleetPolicies ==
  { [kind |-> "one_time", tenant |-> 1, max |-> 1, nets |-> Addresses],
    [kind |-> "automation", tenant |-> 2, max |-> 1, nets |-> {m1, lo}] }

HostVersions == {v1, v2}
HostTmpNames == {n1}
Plain ==
  [ver |-> v1, tmp |-> n1, mode |-> "replace", path |-> "good", url |-> TRUE,
   scriptURL |-> "none", sum |-> TRUE, svc |-> TRUE, uninstall |-> FALSE,
   ignore |-> FALSE]

\* One command of every mode, with and without a checksum, a service, and
\* errors to ignore; two of them share the name of the download.
HostJobs ==
  { Plain, [Plain EXCEPT !.ver = v2],
    [Plain EXCEPT !.mode = "replace_exec", !.sum = FALSE],
    [Plain EXCEPT !.mode = "replace_exec", !.ver = v2, !.ignore = TRUE],
    [Plain EXCEPT !.mode = "exec", !.url = FALSE, !.path = "empty"],
    [Plain EXCEPT !.mode = "exec", !.scriptURL = "http", !.sum = FALSE, !.ver = v2],
    [Plain EXCEPT !.mode = "exec", !.scriptURL = "relative", !.url = FALSE],
    [Plain EXCEPT !.mode = "script", !.path = "dots", !.uninstall = TRUE],
    [Plain EXCEPT !.path = "empty"] }

serverVars == << eVars, tVars, qVars, hVars >>
agentVars == << xVars, uVars, fVars, outVars >>
fleetVars == << serverVars, agentVars, part >>

FleetInit ==
  /\ part \in {"enrolment", "tunnel", "update", "removal",
               "executor", "swap", "state", "command", "log"}
  /\ EnrolmentInit /\ TunnelInit /\ AgentUpdateInit /\ HostRemovalInit
  /\ ExecutorInit /\ SelfUpdateInit /\ StateFileInit /\ AgentOutputInit
  /\ part # "update" => /\ qTarget = CHOOSE b \in Builds : TRUE
                        /\ \A a \in UpAgents : qRun[a] = qTarget
  /\ part # "executor" => xFile = NoFile /\ xSvc = "absent"
  /\ part # "swap" => uProg = CHOOSE v \in Images \ Broken : TRUE

ServerNext ==
  /\ UNCHANGED agentVars
  /\ \/ part = "enrolment" /\ EnrolmentNext /\ UNCHANGED << tVars, qVars, hVars >>
     \/ part = "tunnel" /\ TunnelNext /\ UNCHANGED << eVars, qVars, hVars >>
     \/ part = "update" /\ AgentUpdateNext /\ UNCHANGED << eVars, tVars, hVars >>
     \/ part = "removal" /\ HostRemovalNext /\ UNCHANGED << eVars, tVars, qVars >>

HostNext ==
  /\ UNCHANGED serverVars
  /\ \/ part = "executor" /\ ExecutorNext /\ UNCHANGED << uVars, fVars, outVars >>
     \/ part = "swap" /\ SelfUpdateNext /\ UNCHANGED << xVars, fVars, outVars >>
     \/ part = "state" /\ StateFileNext /\ UNCHANGED << xVars, uVars, outVars >>
     \/ part = "command" /\ CommandOutputNext /\ UNCHANGED << xVars, uVars, fVars >>
     \/ part = "log" /\ LogNext /\ UNCHANGED << xVars, uVars, fVars >>

FleetNext == UNCHANGED part /\ (ServerNext \/ HostNext)

\* Heartbeats and polls go on, the reaper and the nightly cleaning run, and a
\* task's command ends; on the host the watchdog's timer fires and processes
\* get the run lock.  Nothing is assumed of administrators and failures.
FleetSpec ==
  /\ FleetInit
  /\ [][FleetNext]_fleetVars
  /\ \A a \in UpAgents :
       /\ WF_qVars(part = "update" /\ markSelfUpdateSuccess(a))
       /\ WF_qVars(part = "update" /\ AutoEnqueue(a))
       /\ WF_qVars(part = "update" /\ CoolDown(a))
       /\ WF_qVars(part = "update" /\ Fetch(a))
       /\ WF_qVars(part = "update" /\ (Install(a) \/ InstallFails(a)))
       /\ WF_qVars(part = "update" /\ ReapExpired(a))
       /\ WF_qVars(part = "update" /\ cleanupExpiredData(a))
       /\ WF_qVars(part = "update" /\ qTask[a] # NoTask /\ TaskCommand(a))
  /\ WF_uVars(part = "swap" /\ WatchdogStep)
  /\ WF_uVars(part = "swap" /\ HeartbeatAges)
  /\ \A p \in Procs : WF_uVars(part = "swap" /\ waitRunLock(p))
-----------------------------------------------------------------------------
\* The program is torn only by a backup that was cut, the state file only
\* when two writers met: everything else is renamed into place.  The output of
\* a command and the log lose nothing but what they are meant to.
HostFilesInv ==
  SelfUpdateTypeOK /\ StateFileTypeOK /\ TornNeedsCut /\ TornNeedsMeeting /\ OutputInv

\* On the host: what a command leaves of the program and its service, and the
\* files.
HostInv == ExecutorInv /\ HostFilesInv

\* What the server believes of its agents: their tunnel addresses and builds.
ServerViewInv == TunnelInv /\ AgentUpdateInv
=============================================================================
