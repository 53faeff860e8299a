------------------------------ MODULE Inventory ------------------------------
(***************************************************************************)
(* The hosts as two sources fill them in: services of a Consul cluster,    *)
(* and the groups of a consul_mgr service.  Each source has an advisory    *)
(* lock of its own, so one round of each may run at a time.  A round reads *)
(* the list and the field mappings, writes the hosts it saw one by one     *)
(* under its time stamp, and removes those of its source that it did not   *)
(* see.  Administrators, agents and tasks change the same rows meanwhile.  *)
(*                                                                         *)
(* One field of a host stands for the columns that mappings fill.          *)
(***************************************************************************)
EXTENDS Integers, Sequences, FiniteSets

CONSTANTS
  IPs,
  Groups,         \* groups of consul_mgr, positive numbers
  MetaKeys,       \* keys of the metadata of a service
  MappingLists,   \* the mappings an administrator sets up: key and overwrite, in order
  MaxRounds,      \* bound: rounds of synchronisation
  MaxInvEvents    \* bound: what others do

ASSUME InventoryAssumption ==
  /\ Groups \subseteq Nat \ {0} /\ MaxRounds \in Nat /\ MaxInvEvents \in Nat
  /\ \A m \in MappingLists : \A i \in DOMAIN m : m[i].key \in MetaKeys /\ m[i].overwrite \in BOOLEAN

Locks == {"consul", "consul_mgr"}
NoField == ""     \* a column that is empty, or nothing written by a human
NoHost == [source |-> "none", group |-> 0, synced |-> 0, field |-> NoField, busy |-> FALSE]
NoRound == [pc |-> "idle", seen |-> {}]

VARIABLES
  iHost,      \* hosts by address
  iListed,    \* what each source has: pairs of address and group (0 for Consul)
  iMap,       \* host_field_mappings of each source
  iRun,       \* the round under each lock
  iClock,     \* time stamps given out
  iTask,      \* hosts for which a task's transaction has inserted a record, uncommitted
  iHuman,     \* history: what a human wrote that no overwriting mapping replaced since
  iMissed,    \* history: hosts removed by a round that had seen them
  iCrossed,   \* history: hosts another source stamped while a round that had seen
              \* them was under way
  iDropped,   \* history: hosts removed while a task or an agent used them; raced, if the
              \* statement had waited for the task's transaction
  iEvents     \* bound

iVars == << iHost, iListed, iMap, iRun, iClock, iTask, iHuman, iMissed, iCrossed, iDropped,
            iEvents >>
world == << iListed, iMap, iTask, iEvents >>
notedInv == << iHuman, iMissed, iCrossed, iDropped >>

InventoryInit ==
  /\ iHost = [h \in IPs |-> [NoHost EXCEPT !.source = "consul"]]   \* from an earlier round
  /\ \E gone \in {{}, {CHOOSE h \in IPs : TRUE}} :
       iListed = [l \in Locks |-> IF l = "consul" THEN (IPs \ gone) \X {0} ELSE IPs \X Groups]
  /\ iMap \in [Locks -> MappingLists]
  /\ iRun = [l \in Locks |-> NoRound]
  /\ iClock = 0 /\ iTask = {}
  /\ iHuman = [h \in IPs |-> NoField]
  /\ iMissed = {} /\ iCrossed = {} /\ iDropped = {}
  /\ iEvents = 0

\* The first mapping whose key has a value decides, also whether it overwrites.
Resolve(mappings, meta) ==
  SelectSeq(mappings, LAMBDA m : m.key \in meta)

\* The field after a host was seen with these keys of metadata set; the value
\* written is named after the key.
Written(field, mappings, meta) ==
  LET r == Resolve(mappings, meta) IN
  IF r = << >> THEN field
  ELSE IF r[1].overwrite \/ field = NoField THEN r[1].key ELSE field

Overwrites(mappings, meta) ==
  Resolve(mappings, meta) # << >> /\ Resolve(mappings, meta)[1].overwrite
-----------------------------------------------------------------------------
(* A round *)

\* What must hold for a cleanup at all: a whole list, which for Consul is not
\* empty, and for consul_mgr is that of one group.
CleansUp(l, group, partial, cleanup, seen) ==
  /\ cleanup /\ ~partial
  /\ IF l = "consul" THEN seen # {} ELSE group > 0

\* The lock is taken, mappings and list are read, the time is noted.  A list is
\* partial when a service or a group could not be asked.  consul_mgr is asked
\* for one group or, as group 0, for all of them.
SyncStarts(l, group, partial, cleanup) ==
  LET whole == {x \in iListed[l] : group = 0 \/ x[2] = group} IN
  /\ iRun[l].pc = "idle" /\ iClock < MaxRounds
  /\ \E seen \in SUBSET whole :
       /\ partial \/ seen = whole
       /\ iRun' = [iRun EXCEPT ![l] =
            [pc |-> "write", seen |-> seen, todo |-> seen, at |-> iClock + 1, group |-> group,
             cleans |-> CleansUp(l, group, partial, cleanup, seen), map |-> iMap[l],
             cand |-> {}, waits |-> 0]]
  /\ iClock' = iClock + 1
  /\ UNCHANGED << iHost, world, notedInv >>

\* One host is written: its source stays what it was, its stamp is the round's,
\* and consul_mgr also claims it for the group.
upsert(l, x, meta) ==
  LET k == iRun[l] old == iHost[x[1]] IN
  /\ k.pc = "write" /\ x \in k.todo
  /\ iHost' = [iHost EXCEPT ![x[1]] =
       [source |-> IF old = NoHost THEN l ELSE @.source,
        group |-> IF x[2] = 0 THEN @.group ELSE x[2], synced |-> k.at, busy |-> @.busy,
        field |-> Written(@.field, k.map, meta)]]
  /\ iHuman' = IF Overwrites(k.map, meta) THEN [iHuman EXCEPT ![x[1]] = NoField] ELSE iHuman
  /\ iCrossed' = IF \E m \in Locks \ {l} : \E y \in iRun[m].seen : y[1] = x[1]
                 THEN iCrossed \cup {x[1]} ELSE iCrossed
  /\ iRun' = [iRun EXCEPT ![l].todo = @ \ {x}]
  /\ UNCHANGED << iClock, world, iMissed, iDropped >>

\* missingHostCond and missingMgrHostCond: of this source (and group), older
\* than the round ...
Stale(l, h) ==
  /\ iHost[h].source = l /\ (l = "consul_mgr" => iHost[h].group = iRun[l].group)
  /\ iHost[h].synced < iRun[l].at

\* ... and free.
Missing(l, h) == Stale(l, h) /\ ~iHost[h].busy

\* Hosts to remove are looked up without locks, or the round ends.
findMissingHosts(l) ==
  /\ iRun[l].pc = "write" /\ iRun[l].todo = {}
  /\ iRun' = [iRun EXCEPT ![l] =
       IF iRun[l].cleans /\ (\E h \in IPs : Missing(l, h))
       THEN [@ EXCEPT !.pc = "delete", !.cand = {h \in IPs : Missing(l, h)}] ELSE NoRound]
  /\ UNCHANGED << iHost, iClock, world, notedInv >>

\* Who has use for a host as it is removed.
Uses(l, h) ==
  (IF iHost[h].busy THEN {IF iRun[l].waits = h THEN "raced" ELSE "work"} ELSE {})
    \cup (IF iHost[h].source = "agent" THEN {"agent"} ELSE {})

Removes(l, h) ==
  /\ iHost' = [iHost EXCEPT ![h] = NoHost]
  /\ iHuman' = [iHuman EXCEPT ![h] = NoField]
  /\ iMissed' = IF \E x \in iRun[l].seen : x[1] = h THEN iMissed \cup {h} ELSE iMissed
  /\ iDropped' = iDropped \cup ({h} \X Uses(l, h))
  /\ iRun' = [iRun EXCEPT ![l].cand = @ \ {h}, ![l].waits = 0]

\* Trusts the list that was made without locks.
DeleteMissingMutant(l, h) ==
  /\ iRun[l].pc = "delete" /\ h \in iRun[l].cand /\ iRun[l].waits = 0 /\ h \notin iTask
  /\ Removes(l, h)
  /\ UNCHANGED << iClock, world, iCrossed >>

\* The condition is part of the statement that deletes.  While a transaction
\* holds a share of the row the statement waits, and then only looks at the
\* row's own columns again.
DeleteMissing(l, h) ==
  /\ iRun[l].pc = "delete" /\ h \in iRun[l].cand /\ iRun[l].waits = 0
  /\ IF ~Missing(l, h)
     THEN /\ iRun' = [iRun EXCEPT ![l].cand = @ \ {h}]
          /\ UNCHANGED << iHost, iHuman, iMissed, iDropped >>
     ELSE IF h \in iTask
     THEN /\ iRun' = [iRun EXCEPT ![l].waits = h]
          /\ UNCHANGED << iHost, iHuman, iMissed, iDropped >>
     ELSE Removes(l, h)
  /\ UNCHANGED << iClock, world, iCrossed >>

DeleteResumes(l) ==
  LET h == iRun[l].waits IN
  /\ iRun[l].pc = "delete" /\ h # 0 /\ h \notin iTask
  /\ IF Stale(l, h) THEN Removes(l, h)
     ELSE /\ iRun' = [iRun EXCEPT ![l].cand = @ \ {h}, ![l].waits = 0]
          /\ UNCHANGED << iHost, iHuman, iMissed, iDropped >>
  /\ UNCHANGED << iClock, world, iCrossed >>

\* All are dealt with, a statement failed, or the process died; the lock goes.
RoundEnds(l) ==
  /\ iRun[l].pc # "idle"
  /\ iRun' = [iRun EXCEPT ![l] = NoRound]
  /\ UNCHANGED << iHost, iClock, world, notedInv >>
-----------------------------------------------------------------------------
(* What others do *)

Event == iEvents < MaxInvEvents /\ iEvents' = iEvents + 1

Listed(l, s) ==
  /\ Event /\ iListed' = [iListed EXCEPT ![l] = s]
  /\ UNCHANGED << iHost, iMap, iRun, iClock, iTask, notedInv >>

MappingsEdited(l, m) ==
  /\ Event /\ iMap' = [iMap EXCEPT ![l] = m]
  /\ UNCHANGED << iHost, iListed, iRun, iClock, iTask, notedInv >>

HumanEdits(h) ==
  /\ Event
  /\ iHost[h] # NoHost
  /\ iHost' = [iHost EXCEPT ![h].field = "human"]
  /\ iHuman' = [iHuman EXCEPT ![h] = "human"]
  /\ UNCHANGED << iListed, iMap, iRun, iClock, iTask, iMissed, iCrossed, iDropped >>

\* An agent registers: the host is the agent's from now on.
AgentRegisters(h) ==
  /\ Event
  /\ iHost' = [iHost EXCEPT ![h].source = "agent"]
  /\ UNCHANGED << iListed, iMap, iRun, iClock, iTask, notedInv >>

TaskInserts(h) ==
  /\ Event /\ iHost[h] # NoHost /\ h \notin iTask
  /\ iTask' = iTask \cup {h}
  /\ UNCHANGED << iHost, iListed, iMap, iRun, iClock, notedInv >>

TaskCommits(h) ==
  /\ h \in iTask
  /\ iTask' = iTask \ {h}
  /\ iHost' = [iHost EXCEPT ![h].busy = TRUE]
  /\ UNCHANGED << iListed, iMap, iRun, iClock, iEvents, notedInv >>

TaskRollsBack(h) ==
  /\ h \in iTask
  /\ iTask' = iTask \ {h}
  /\ UNCHANGED << iHost, iListed, iMap, iRun, iClock, iEvents, notedInv >>

WorkEnds(h) ==
  /\ iHost[h].busy /\ iHost' = [iHost EXCEPT ![h].busy = FALSE]
  /\ UNCHANGED << iListed, iMap, iRun, iClock, iTask, iEvents, notedInv >>

InventoryNext ==
  \/ \E partial, cleanup \in BOOLEAN :
       \/ SyncStarts("consul", 0, partial, cleanup)
       \/ \E g \in Groups \cup {0} : SyncStarts("consul_mgr", g, partial, cleanup)
  \/ \E l \in Locks :
       \/ \E x \in iRun[l].seen, meta \in SUBSET MetaKeys : upsert(l, x, meta)
       \/ findMissingHosts(l) \/ DeleteResumes(l) \/ RoundEnds(l)
       \/ \E h \in IPs : DeleteMissing(l, h)
       \/ \E m \in MappingLists : MappingsEdited(l, m)
       \/ \E s \in SUBSET (IPs \X IF l = "consul" THEN {0} ELSE Groups) : Listed(l, s)
  \/ \E h \in IPs :
       HumanEdits(h) \/ AgentRegisters(h) \/ TaskInserts(h) \/ TaskCommits(h)
         \/ TaskRollsBack(h) \/ WorkEnds(h)
-----------------------------------------------------------------------------
(* Properties *)

InventoryTypeOK ==
  /\ \A h \in IPs : iHost[h].source \in {"none", "agent"} \cup Locks
                    /\ iHost[h].synced \in 0..MaxRounds
  /\ \A l \in Locks : iRun[l].pc \in {"idle", "write", "delete"}

\* A round removes a host it has just seen only where the other source's round
\* put an older stamp on it in between.
SeenHostsStay == iMissed \subseteq iCrossed

\* No host of an agent is removed, and none with unfinished work unless the
\* work was being committed as its row was deleted.
UsedHostsStay == \A h \in IPs : {<< h, "work" >>, << h, "agent" >>} \cap iDropped = {}

\* What a human wrote stands until a mapping that overwrites is applied.
HumanStands == \A h \in IPs : iHuman[h] # NoField => iHost[h].field = iHuman[h]

\* Hosts come and go with their sources, and not what humans wrote or what a
\* round has just seen (SyncFromConsul, SyncFromConsulMgr and their cleanup).
InventoryInv == InventoryTypeOK /\ SeenHostsStay /\ UsedHostsStay /\ HumanStands

\* The comment of cleanupMissingHosts: a host of this round has the round's
\* stamp and is not removed.
ListedHostsStay == iMissed = {}

\* Deliberately not checked, the code does not keep it: a host with unfinished
\* work is never removed.
WorkStays == \A h \in IPs : {<< h, "work" >>, << h, "raced" >>} \cap iDropped = {}
=============================================================================
