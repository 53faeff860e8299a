---------------------------- MODULE HostCommands ----------------------------
(***************************************************************************)
(* What a roll-out promises of each of its hosts, whoever calls: a host    *)
(* that waits is given one command with a number above all before it; that *)
(* command ends once; the host takes the result of this command and of no  *)
(* other, or is given up; and it waits again only by a Retry, which counts. *)
(* Several hosts may move in one step.                                     *)
(***************************************************************************)
EXTENDS Naturals

CONSTANTS Hosts, Numbers

VARIABLES
  status,    \* of each host, as everybody sees it
  issued,    \* the numbers of its commands
  active,    \* those that somebody may work on
  result,    \* what the command of a running host ended with, until the host takes it
  resets     \* how often hosts were told to start over

life == << status, issued, active, result, resets >>

Results == {"success", "failed", "timeout"}

Init ==
  /\ status = [h \in Hosts |-> "pending"]
  /\ issued = [h \in Hosts |-> {}] /\ active = [h \in Hosts |-> {}] /\ result = [h \in Hosts |-> {}]
  /\ resets = 0

\* No command is active any more and none has a result to hand over.
Alone(h) == issued'[h] = issued[h] /\ active'[h] = {} /\ result'[h] = {}

Stays(h) ==
  /\ status'[h] = status[h] /\ issued'[h] = issued[h]
  /\ active'[h] = active[h] /\ result'[h] = result[h]

\* A host that waits gets the next command.
Issue(h) ==
  /\ status[h] = "pending" /\ active[h] = {} /\ status'[h] = "running" /\ result'[h] = {}
  /\ \E n \in Numbers :
       /\ \A k \in issued[h] : k < n
       /\ issued'[h] = issued[h] \cup {n} /\ active'[h] = {n}

\* The command ends; the host does not know yet.
End(h) ==
  /\ status[h] = "running" /\ active[h] # {} /\ status'[h] = "running"
  /\ issued'[h] = issued[h] /\ active'[h] = {} /\ \E r \in Results : result'[h] = {r}

\* The host learns how its command ended.
Take(h) == status[h] = "running" /\ active[h] = {} /\ status'[h] \in result[h] /\ Alone(h)

\* The command ends and the host takes its result at once.
EndAndTake(h) ==
  status[h] = "running" /\ active[h] # {} /\ status'[h] \in Results /\ Alone(h)

\* It is skipped before it has a command, or canceled.
GiveUp(h) ==
  /\ \/ status[h] = "pending" /\ status'[h] \in {"skipped", "canceled"}
     \/ status[h] = "running" /\ status'[h] = "canceled"
  /\ Alone(h)

\* Its batch failed.
RollBack(h) == status[h] = "success" /\ status'[h] = "rolled_back" /\ Alone(h)

\* Whatever became of it, it starts over.
Restart(h) == resets' = resets + 1 /\ status'[h] = "pending" /\ Alone(h)

Next ==
  /\ DOMAIN status' = Hosts /\ DOMAIN issued' = Hosts
  /\ DOMAIN active' = Hosts /\ DOMAIN result' = Hosts
  /\ resets' \in {resets, resets + 1}
  /\ \A h \in Hosts :
       \/ Stays(h) \/ Issue(h) \/ End(h) \/ Take(h) \/ EndAndTake(h)
       \/ GiveUp(h) \/ RollBack(h) \/ Restart(h)

Spec == Init /\ [][Next]_life
=============================================================================
