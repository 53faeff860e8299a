------------------------------- MODULE Access --------------------------------
(***************************************************************************)
(* Who may send which task to which hosts: roles, teams and their members, *)
(* service groups of components, the grants of teams on groups, the        *)
(* creation of a task by a user with those rights, and what users may do   *)
(* with each other's tasks.  All of it is in one tenant.                   *)
(*                                                                         *)
(* Every administrative call is a statement or a transaction, except that  *)
(* SetGroupPermission and DeleteRole look first and write later.  Create   *)
(* asks for the right to deploy, matches hosts, asks for the host groups   *)
(* and writes the task, each in a statement of its own.  So does a user    *)
(* who operates a task: the switch, the policy of the teams, the teams     *)
(* they share and the right to deploy are looked up one after the other.   *)
(***************************************************************************)
EXTENDS Integers, FiniteSets

CONSTANTS
  Members,        \* user names without the administrator's role
  Teams, Roles, SvcGroups, Comps,
  CompHints,      \* of each component: the systems that os_match, script, interpreter
                  \* and path point to, "" for none
  TaskHosts,      \* ids of hosts
  HostTags,       \* values of app_code or biz_group
  Strategies,     \* records mode, canary, batch
  StartRole, StartTeam, StartGroup, StartGrant, StartHost,  \* what exists at first
  GrantChoices,   \* what an administrator grants
  MaxOrgEdits,    \* bound: administrative calls
  MaxHostEdits    \* bound: edits and deletions of hosts

Perms == {"read", "deploy"}
Policies == {"on", "off", "inherit"}
NoRole == {"none"}
NoTeam == [policy |-> "none", members |-> {}]
NoGroup == {"none"}
NoGrant == [perms |-> {}, roles |-> {}, services |-> {}, hosts |-> {}]
NoOS == ""        \* a system that nothing tells
NoHostRow == [tag |-> "none", os |-> NoOS]
Idle == [pc |-> "idle"]
Refused == [pc |-> "refused"]

TeamRow == [policy : Policies \cup {"none"}, members : SUBSET Members]
Grant == [perms : SUBSET Perms, roles : SUBSET Roles, services : SUBSET (Comps \cup {"*"}),
          hosts : SUBSET HostTags]
HostRow == [tag : HostTags, os : STRING]

\* "*" and "command" stand for every component and for none; grants name roles
\* that exist.
ASSUME AccessAssumption ==
  /\ TaskHosts \subseteq Nat /\ IsFiniteSet(TaskHosts)
  /\ MaxOrgEdits \in Nat /\ MaxHostEdits \in Nat
  /\ \A s \in Strategies : s.mode \in {"canary", "count", "percent"} /\ {s.canary, s.batch} \subseteq Int
  /\ "*" \notin HostTags /\ "command" \notin Comps
  /\ StartRole \in [Roles -> (SUBSET Perms) \cup {NoRole}] /\ StartTeam \in [Teams -> TeamRow]
  /\ StartGrant \in [Teams \X SvcGroups -> Grant] /\ GrantChoices \subseteq Grant
  /\ StartHost \in [TaskHosts -> HostRow]
  /\ \A x \in Teams \X SvcGroups : \A r \in StartGrant[x].roles : StartRole[r] # NoRole

VARIABLES
  aRole,          \* roles: the permissions of each
  aTeam,          \* teams: owner_only and the members
  aGroup,         \* service groups: their components
  aGrant,         \* team_group_permissions
  aHost,          \* hosts: their group and system
  aSet, aDel,     \* a SetGroupPermission and a DeleteRole between look and write
  aNew,           \* the creation in progress
  aTask,          \* the tasks: who made them, and their batches of hosts
  aOwnerOnly,     \* agent.task_owner_only
  aEver,          \* history: user, component, group of hosts once granted
  aRaced,         \* history: roles deleted while they were being granted
  aOp,            \* an operation on a task, one in a behaviour as it changes nothing
                  \* here; policies, ownerOnly and shared (history): all that held
  aEdits, aHostEdits   \* bounds

aVars == << aRole, aTeam, aGroup, aGrant, aHost, aSet, aDel, aNew, aTask, aOwnerOnly,
            aEver, aRaced, aOp, aEdits, aHostEdits >>
orgVars == << aRole, aTeam, aGroup, aGrant, aSet, aDel, aOwnerOnly, aEver, aRaced, aEdits >>

\* By definition, the groups of hosts a user may reach.
Covered(team, group, grant) ==
  { x \in Members \X Comps \X HostTags :
    \E t \in Teams, g \in SvcGroups :
      /\ x[1] \in team[t].members /\ x[2] \in group[g]
      /\ grant[<< t, g >>].services \cap {x[2], "*"} # {}
      /\ grant[<< t, g >>].hosts = {} \/ x[3] \in grant[<< t, g >>].hosts }

AccessInit ==
  /\ aRole = StartRole /\ aTeam = StartTeam /\ aGroup = StartGroup
  /\ aGrant = StartGrant /\ aHost = StartHost
  /\ aSet = Idle /\ aDel = Idle /\ aNew = Idle
  /\ aTask = << >>
  /\ aOwnerOnly = FALSE
  /\ aEver = Covered(StartTeam, StartGroup, StartGrant) /\ aRaced = {} /\ aOp = Idle
  /\ aEdits = 0 /\ aHostEdits = 0
-----------------------------------------------------------------------------
(* What a user may do *)

\* Takes a grant for all components of the group.
AllowedMutant(p, c) == TRUE

\* A grant is about the services it lists; "*" stands for all of the group.
Allowed(p, c) == c \in p.services \/ "*" \in p.services

\* The grants of the user's teams on groups with the component.
GrantsFor(u, c) ==
  { aGrant[<< t, g >>] : t \in {x \in Teams : u \in aTeam[x].members},
                   g \in {x \in SvcGroups : c \in aGroup[x]} }

rolePermissions(p) == UNION {aRole[r] : r \in {x \in p.roles : aRole[x] # NoRole}}

EffectivePermissions(u, c) ==
  UNION {p.perms \cup rolePermissions(p) : p \in {q \in GrantsFor(u, c) : Allowed(q, c)}}

\* The union over all grants on the component, whatever they permit; one
\* without host groups lifts the limit.
HostGroupsFor(u, c) ==
  UNION { IF p.hosts = {} THEN {"*"} ELSE p.hosts :
          p \in {q \in GrantsFor(u, c) : q # NoGrant /\ Allowed(q, c)} }

checkDeploy(u, c) == u \notin Members \/ "deploy" \in EffectivePermissions(u, c)

InHostGroups(u, c, tag) ==
  \/ u \notin Members
  \/ HostGroupsFor(u, c) = {} \/ "*" \in HostGroupsFor(u, c) \/ tag \in HostGroupsFor(u, c)

\* The policies of a user's teams.
PoliciesOf(team, u) == {team[t].policy : t \in {x \in Teams : u \in team[x].members}}

\* The strictest one wins.
TeamOwnerPolicy(u) ==
  LET of == PoliciesOf(aTeam, u)
  IN  IF "on" \in of THEN "on"
      ELSE IF of = {"off"} THEN "off"
      ELSE IF of # {} THEN "inherit" ELSE "none"

\* The policy of the teams, or what the switch said before; a query that fails
\* leaves the switch alone.
ownerModeFor(u, ownerOnly, failed) ==
  IF ~failed /\ TeamOwnerPolicy(u) \in {"on", "off"} THEN TeamOwnerPolicy(u)
  ELSE IF ownerOnly THEN "on" ELSE "inherit"

SharesTeam(u, v) == \E t \in Teams : {u, v} \subseteq aTeam[t].members

CanShareTasks(team, u, v) ==
  u = v \/ \E t \in Teams : {u, v} \subseteq team[t].members /\ team[t].policy = "off"

CanViewTaskDetail(u, k) == u \notin Members \/ k.by = u \/ SharesTeam(u, k.by)

\* What the list offers: the buttons of each task, and its detail.  Without a
\* policy of their own teams "off" shows every button.
TaskListButtons(u, k, failed) ==
  [operate |-> u \notin Members \/ ownerModeFor(u, aOwnerOnly, failed) # "on" \/ k.by = u,
   view |-> CanViewTaskDetail(u, k)]

\* What holds for an operation in progress is noted.
Noted(op, team, ownerOnly) ==
  IF op.pc \in {"idle", "refused", "deployed", "done"} THEN op
  ELSE [op EXCEPT !.policies = @ \cup {PoliciesOf(team, op.by)},
                  !.ownerOnly = @ \cup {ownerOnly},
                  !.shared = @ \cup {CanShareTasks(team, op.by, op.owner)}]

\* Every administrative call; the rights it leaves are noted.
Edit ==
  /\ aEdits < MaxOrgEdits
  /\ aEdits' = aEdits + 1
  /\ aEver' = aEver \cup Covered(aTeam', aGroup', aGrant')
  /\ aOp' = Noted(aOp, aTeam', aOwnerOnly')
  /\ UNCHANGED << aHost, aNew, aTask >>
-----------------------------------------------------------------------------
(* Roles, teams and groups *)

CreateRole(r, p) ==
  /\ aRole[r] = NoRole
  /\ aRole' = [aRole EXCEPT ![r] = p]
  /\ UNCHANGED << aTeam, aGroup, aGrant, aSet, aDel, aOwnerOnly, aRaced >>

UpdateRole(r, p) ==
  /\ aRole[r] # NoRole
  /\ aRole' = [aRole EXCEPT ![r] = p]
  /\ UNCHANGED << aTeam, aGroup, aGrant, aSet, aDel, aOwnerOnly, aRaced >>

\* Refuses a role that is granted; counts before it deletes.
DeleteRole(r) ==
  /\ aDel = Idle /\ aRole[r] # NoRole
  /\ \A t \in Teams, g \in SvcGroups : r \notin aGrant[<< t, g >>].roles
  /\ aDel' = [pc |-> "delete", role |-> r]
  /\ UNCHANGED << aRole, aTeam, aGroup, aGrant, aSet, aOwnerOnly, aRaced >>

DeleteRoleRow ==
  /\ aDel # Idle
  /\ aRole' = [aRole EXCEPT ![aDel.role] = NoRole]
  /\ aRaced' = IF \/ \E t \in Teams, g \in SvcGroups : aDel.role \in aGrant[<< t, g >>].roles
                  \/ aSet # Idle /\ aDel.role \in aSet.grant.roles
               THEN aRaced \cup {aDel.role} ELSE aRaced
  /\ aDel' = Idle
  /\ UNCHANGED << aTeam, aGroup, aGrant, aHost, aSet, aNew, aTask, aOwnerOnly, aOp,
                  aEdits, aHostEdits >>
  /\ aEver' = aEver \cup Covered(aTeam', aGroup', aGrant')

CreateTeamWithPolicy(t, policy, ms) ==
  /\ aTeam[t] = NoTeam
  /\ aTeam' = [aTeam EXCEPT ![t] = [policy |-> policy, members |-> ms]]
  /\ UNCHANGED << aRole, aGroup, aGrant, aSet, aDel, aOwnerOnly, aRaced >>

UpdateTeamWithPolicy(t, policy) ==
  /\ aTeam[t] # NoTeam
  /\ aTeam' = [aTeam EXCEPT ![t].policy = policy]
  /\ UNCHANGED << aRole, aGroup, aGrant, aSet, aDel, aOwnerOnly, aRaced >>

\* Members and grants go with the team.
DeleteTeam(t) ==
  /\ aTeam[t] # NoTeam
  /\ aTeam' = [aTeam EXCEPT ![t] = NoTeam]
  /\ aGrant' = [x \in Teams \X SvcGroups |-> IF x[1] = t THEN NoGrant ELSE aGrant[x]]
  /\ UNCHANGED << aRole, aGroup, aSet, aDel, aOwnerOnly, aRaced >>

AddMembers(t, ms) ==
  /\ aTeam[t] # NoTeam
  /\ aTeam' = [aTeam EXCEPT ![t].members = @ \cup ms]
  /\ UNCHANGED << aRole, aGroup, aGrant, aSet, aDel, aOwnerOnly, aRaced >>

RemoveMember(t, u) ==
  /\ u \in aTeam[t].members
  /\ aTeam' = [aTeam EXCEPT ![t].members = @ \ {u}]
  /\ UNCHANGED << aRole, aGroup, aGrant, aSet, aDel, aOwnerOnly, aRaced >>

CreateGroup(g, cs) ==
  /\ aGroup[g] = NoGroup
  /\ aGroup' = [aGroup EXCEPT ![g] = cs]
  /\ UNCHANGED << aRole, aTeam, aGrant, aSet, aDel, aOwnerOnly, aRaced >>

\* The services that grants list stay as they are.
UpdateGroup(g, cs) ==
  /\ aGroup[g] # NoGroup
  /\ aGroup' = [aGroup EXCEPT ![g] = cs]
  /\ UNCHANGED << aRole, aTeam, aGrant, aSet, aDel, aOwnerOnly, aRaced >>

DeleteGroup(g) ==
  /\ aGroup[g] # NoGroup
  /\ aGroup' = [aGroup EXCEPT ![g] = NoGroup]
  /\ aGrant' = [x \in Teams \X SvcGroups |-> IF x[2] = g THEN NoGrant ELSE aGrant[x]]
  /\ UNCHANGED << aRole, aTeam, aSet, aDel, aOwnerOnly, aRaced >>

\* Refuses roles that are gone and drops services that are not in the group.
SetGroupPermission(t, g, p) ==
  /\ aSet = Idle /\ aTeam[t] # NoTeam /\ aGroup[g] # NoGroup
  /\ \A r \in p.roles : aRole[r] # NoRole
  /\ aSet' = [pc |-> "write", team |-> t, group |-> g,
              grant |-> [p EXCEPT !.services = @ \cap (aGroup[g] \cup {"*"})]]
  /\ UNCHANGED << aRole, aTeam, aGroup, aGrant, aDel, aOwnerOnly, aRaced >>

\* Overwrites the grant; fails when the team or the group has gone.
WriteGrant ==
  /\ aSet # Idle
  /\ aGrant' = IF aTeam[aSet.team] = NoTeam \/ aGroup[aSet.group] = NoGroup THEN aGrant
               ELSE [aGrant EXCEPT ![<< aSet.team, aSet.group >>] = aSet.grant]
  /\ aRaced' = aRaced \cup {r \in aSet.grant.roles : aRole[r] = NoRole}
  /\ aSet' = Idle
  /\ UNCHANGED << aRole, aTeam, aGroup, aHost, aDel, aNew, aTask, aOwnerOnly, aOp,
                  aEdits, aHostEdits >>
  /\ aEver' = aEver \cup Covered(aTeam', aGroup', aGrant')

DeleteGroupPermission(t, g) ==
  /\ aGrant[<< t, g >>] # NoGrant
  /\ aGrant' = [aGrant EXCEPT ![<< t, g >>] = NoGrant]
  /\ UNCHANGED << aRole, aTeam, aGroup, aSet, aDel, aOwnerOnly, aRaced >>

SetTaskOwnerOnly ==
  /\ aOwnerOnly' = ~aOwnerOnly
  /\ UNCHANGED << aRole, aTeam, aGroup, aGrant, aSet, aDel, aRaced >>

\* The host moves to another group, or it is deleted.
HostChanges(h) ==
  /\ aHostEdits < MaxHostEdits /\ aHost[h] # NoHostRow
  /\ \/ \E g \in HostTags : aHost' = [aHost EXCEPT ![h].tag = g]
     \/ /\ ~ \E i \in DOMAIN aTask : h \in DOMAIN aTask[i].batch
        /\ aHost' = [aHost EXCEPT ![h] = NoHostRow]
  /\ aHostEdits' = aHostEdits + 1
  /\ UNCHANGED << aNew, aTask, aOp >> /\ UNCHANGED orgVars
-----------------------------------------------------------------------------
(* The hosts of a task *)

\* The first hint that tells a system.
FirstKnown(hints) ==
  IF \E i \in DOMAIN hints : hints[i] # NoOS
  THEN hints[CHOOSE i \in DOMAIN hints : hints[i] # NoOS /\ \A j \in 1 .. (i - 1) : hints[j] = NoOS]
  ELSE NoOS

componentTargetOS(c) == FirstKnown(CompHints[c])

\* The interpreter decides, then the first line of the script.
commandTargetOS(interpreter, shebang) ==
  FirstKnown(<< interpreter, IF shebang THEN "linux" ELSE NoOS >>)

osMismatch(target, os) == target # NoOS /\ os # NoOS /\ os # target

\* The hosts the selector names that exist and whose system fits.
matchHosts(want, target) ==
  {h \in want : aHost[h] # NoHostRow /\ ~osMismatch(target, aHost[h].os)}

\* The size of the first batch, when it leaves something for the others.
Canary(total, s) ==
  IF s.mode = "canary" /\ s.canary > 0 /\ s.canary < total THEN s.canary ELSE 0

\* The size of the other batches; 0 or none stands for all that is left.
RegularSize(total, rest, s) ==
  IF s.mode = "percent" /\ s.batch > 0
  THEN IF (total * s.batch) \div 100 < 1 THEN 1 ELSE (total * s.batch) \div 100
  ELSE IF s.batch <= 0 THEN rest ELSE s.batch

\* As many regular batches as it takes; the last has what is left.
splitBatches(total, s) ==
  LET canary == Canary(total, s)
      first == IF canary > 0 THEN 1 ELSE 0
      rest == total - canary
      size == RegularSize(total, rest, s)
      n == first + (rest + size - 1) \div size
  IN  IF total = 0 THEN << >>
      ELSE [i \in 1 .. n |-> IF i <= first THEN canary
                             ELSE IF i < n THEN size ELSE rest - (n - first - 1) * size]

\* The hosts before a batch and those before a host, in the order of addresses.
Before(sizes) ==
  LET before[i \in DOMAIN sizes] == IF i = 1 THEN 0 ELSE before[i - 1] + sizes[i - 1]
  IN  before
Place(hs, h) == Cardinality({g \in hs : g < h})

\* Hosts in the order of their addresses fill one batch after the other.
BatchOfHost(hs, sizes) ==
  [h \in hs |-> CHOOSE i \in DOMAIN sizes :
     Before(sizes)[i] <= Place(hs, h) /\ Place(hs, h) < Before(sizes)[i] + sizes[i]]
-----------------------------------------------------------------------------
(* Creation *)

\* A task for a component needs the right to deploy it.
CreateUpgrade(u, c, want) ==
  /\ aNew = Idle /\ aTask = << >>
  /\ checkDeploy(u, c)
  /\ aNew' = [pc |-> "match", by |-> u, comp |-> c, want |-> want,
              target |-> componentTargetOS(c), hosts |-> << >>, bare |-> FALSE]
  /\ UNCHANGED << aHost, aTask, aOp, aHostEdits >> /\ UNCHANGED orgVars

\* A command is for administrators.
CreateCommand(u, interpreter, shebang, want) ==
  /\ aNew = Idle /\ aTask = << >>
  /\ u \notin Members
  /\ aNew' = [pc |-> "match", by |-> u, comp |-> "command", want |-> want,
              target |-> commandTargetOS(interpreter, shebang), hosts |-> << >>, bare |-> FALSE]
  /\ UNCHANGED << aHost, aTask, aOp, aHostEdits >> /\ UNCHANGED orgVars

\* Reads the hosts; a task without any is refused.
MatchTask ==
  /\ aNew.pc = "match"
  /\ LET hs == matchHosts(aNew.want, aNew.target)
     IN  aNew' = IF hs = {} THEN Idle
                 ELSE [aNew EXCEPT !.pc = "groups", !.hosts = [h \in hs |-> aHost[h].tag]]
  /\ UNCHANGED << aHost, aTask, aOp, aHostEdits >> /\ UNCHANGED orgVars

\* Every host has to be in a group the user may reach; a user whose last grant
\* on the component went away since the first check has no limit.
checkHostGroups ==
  /\ aNew.pc = "groups"
  /\ aNew' = IF \/ aNew.comp = "command"
                \/ \A h \in DOMAIN aNew.hosts : InHostGroups(aNew.by, aNew.comp, aNew.hosts[h])
             THEN [aNew EXCEPT !.pc = "write",
                               !.bare = HostGroupsFor(aNew.by, aNew.comp) = {}] ELSE Idle
  /\ UNCHANGED << aHost, aTask, aOp, aHostEdits >> /\ UNCHANGED orgVars

\* One transaction writes the task, its hosts and its batches by the strategy
\* of the request, used here for the first time; a host that has gone undoes it.
WriteTask(s) ==
  /\ aNew.pc = "write"
  /\ aNew' = Idle
  /\ LET hs == DOMAIN aNew.hosts
         sizes == splitBatches(Cardinality(hs), s)
     IN  aTask' = IF \E h \in hs : aHost[h] = NoHostRow THEN << >>
                  ELSE << [by |-> aNew.by, comp |-> aNew.comp, tags |-> aNew.hosts,
                           batch |-> BatchOfHost(hs, sizes), total |-> sizes,
                           bare |-> aNew.bare] >>
  /\ UNCHANGED << aHost, aOp, aHostEdits >> /\ UNCHANGED orgVars

-----------------------------------------------------------------------------
(* Operating a task *)

opFrame == << aHost, aNew, aTask, aHostEdits, orgVars >>

\* Start, retry, promote, pause, cancel and delete begin with the switch.  No
\* query keeps an administrator from any of them.
TaskAction(u) ==
  /\ aTask # << >> /\ aOp = Idle
  /\ aOp' = [pc |-> "policy", by |-> u, owner |-> aTask[1].by, switch |-> aOwnerOnly,
             failed |-> FALSE, policies |-> {PoliciesOf(aTeam, u)},
             ownerOnly |-> {aOwnerOnly}, shared |-> {CanShareTasks(aTeam, u, aTask[1].by)}]
  /\ UNCHANGED opFrame

\* Then the policy of the teams; the maker of a task never changes.
checkTaskOwner ==
  /\ aOp.pc = "policy"
  /\ \E failed \in BOOLEAN :
       LET mode == ownerModeFor(aOp.by, aOp.switch, failed)
       IN  \/ /\ mode = "inherit" \/ aOp.owner = aOp.by
              /\ aOp' = [aOp EXCEPT !.pc = "deploy", !.failed = failed]
           \/ /\ mode = "off" /\ aOp.owner # aOp.by
              /\ aOp' = [aOp EXCEPT !.pc = "share", !.failed = failed]
           \/ /\ mode = "on" /\ aOp.owner # aOp.by
              /\ aOp' = Refused
  /\ UNCHANGED opFrame

\* Under "off" the two have to share a team that says so.
shareAllowed ==
  /\ aOp.pc = "share"
  /\ CanShareTasks(aTeam, aOp.by, aOp.owner)
  /\ aOp' = [aOp EXCEPT !.pc = "deploy"]
  /\ UNCHANGED opFrame

\* Start, retry and promote ask once more for the right to deploy, and what a
\* command does is for administrators; pause, cancel and delete do not ask.
checkTaskDeploy(asks) ==
  /\ aOp.pc = "deploy"
  /\ asks => aTask[1].comp # "command" /\ checkDeploy(aOp.by, aTask[1].comp)
  /\ aOp' = [aOp EXCEPT !.pc = IF asks THEN "deployed" ELSE "done"]
  /\ UNCHANGED opFrame

\* Any other query that fails, or does not find what it needs, refuses.
OpRefused ==
  /\ aOp.pc \in {"share", "deploy"}
  /\ aOp' = Refused
  /\ UNCHANGED opFrame
-----------------------------------------------------------------------------
Users == Members \cup {"root"}

OrgEdit ==
  /\ \/ \E r \in Roles, p \in SUBSET Perms : CreateRole(r, p) \/ UpdateRole(r, p)
     \/ \E r \in Roles : DeleteRole(r)
     \/ \E t \in Teams, p \in Policies :
          UpdateTeamWithPolicy(t, p) \/ \E ms \in SUBSET Members : CreateTeamWithPolicy(t, p, ms)
     \/ \E t \in Teams : DeleteTeam(t)
     \/ \E t \in Teams, u \in Members : AddMembers(t, {u}) \/ RemoveMember(t, u)
     \/ \E g \in SvcGroups, cs \in SUBSET Comps : CreateGroup(g, cs) \/ UpdateGroup(g, cs)
     \/ \E g \in SvcGroups : DeleteGroup(g)
     \/ \E t \in Teams, g \in SvcGroups :
          DeleteGroupPermission(t, g) \/ \E p \in GrantChoices : SetGroupPermission(t, g, p)
     \/ SetTaskOwnerOnly
  /\ Edit
  /\ UNCHANGED aHostEdits

AccessNext ==
  \/ OrgEdit \/ DeleteRoleRow \/ WriteGrant
  \/ \E h \in TaskHosts : HostChanges(h)
  \/ \E u \in Users, want \in {TaskHosts} :
       \/ \E c \in Comps : CreateUpgrade(u, c, want)
       \/ \E i \in {NoOS, "windows"}, b \in BOOLEAN : CreateCommand(u, i, b, want)
  \/ MatchTask \/ checkHostGroups
  \/ \E s \in Strategies : WriteTask(s)
  \/ \E u \in Members : TaskAction(u)
  \/ checkTaskOwner \/ shareAllowed \/ OpRefused
  \/ \E asks \in BOOLEAN : checkTaskDeploy(asks)
-----------------------------------------------------------------------------
AccessTypeOK ==
  /\ \A r \in Roles : aRole[r] \subseteq Perms \/ aRole[r] = NoRole
  /\ \A t \in Teams : aTeam[t].members \subseteq Members
  /\ aNew.pc \in {"idle", "match", "groups", "write"}
  /\ aOp.pc \in {"idle", "policy", "share", "deploy", "refused", "deployed", "done"}
  /\ aEdits \in 0 .. MaxOrgEdits /\ aHostEdits \in 0 .. MaxHostEdits

\* By definition, every host of the user's task was covered, as it was when it
\* was matched, by a grant that the user had at some time.
OnceGranted(k) ==
  k.by \in Members => \A h \in DOMAIN k.tags : << k.by, k.comp, k.tags[h] >> \in aEver

\* A task reaches only hosts that grants once covered, though grants, teams and
\* groups change between the steps of its creation, unless the last grant went
\* away between the two checks.
ReachWasGranted == \A i \in DOMAIN aTask : OnceGranted(aTask[i]) \/ aTask[i].bare

\* The hosts of a task are in the host groups that were granted.
ReachStaysGranted == \A i \in DOMAIN aTask : OnceGranted(aTask[i])

\* Every host is in one batch, every batch is as large as it says, none is
\* empty, and batches follow the order of the hosts.
BatchesPartition ==
  \A i \in DOMAIN aTask :
    /\ \A b \in DOMAIN aTask[i].total :
         /\ aTask[i].total[b] > 0
         /\ aTask[i].total[b] = Cardinality({h \in DOMAIN aTask[i].batch : aTask[i].batch[h] = b})
    /\ \A g, h \in DOMAIN aTask[i].batch : g < h => aTask[i].batch[g] <= aTask[i].batch[h]

\* A grant names a role that is gone only when the role was deleted while it
\* was being granted.
LostRoleNeedsRace ==
  \A t \in Teams, g \in SvcGroups : \A r \in aGrant[<< t, g >>].roles : aRole[r] = NoRole => r \in aRaced

\* What the history of an operation has to show.
WasAllowed(op) ==
  /\ op.failed \/ \E of \in op.policies : "on" \notin of
  /\ op.failed \/ TRUE \in op.shared \/ \E of \in op.policies : of # {"off"}
  /\ FALSE \in op.ownerOnly \/ {"off"} \in op.policies

\* A user who operated the task of another was never kept from it all the time:
\* at some moment of the operation no team of theirs said "on" and, if their
\* teams said "off" throughout, a team they share said so; while the switch was
\* on, their teams said "off".  Only a policy that could not be read is no bar.
OwnersRespected == aOp.pc \in {"deployed", "done"} /\ aOp.by # aOp.owner => WasAllowed(aOp)

\* No team that says "on" all the time is passed over, whatever fails: "a
\* query that fails does not relax it" (task.go 213).
TeamPolicyHolds ==
  aOp.pc \in {"deployed", "done"} /\ aOp.by # aOp.owner =>
    \E of \in aOp.policies : "on" \notin of

\* What rights and tasks owe each other.
AccessInv ==
  AccessTypeOK /\ ReachWasGranted /\ BatchesPartition /\ LostRoleNeedsRace /\ OwnersRespected

\* Every host of a task is covered by one grant that also permits to deploy:
\* "host groups limit the hosts that can be operated" (org.go 157-160).
WithinOneGrant ==
  aNew.pc = "write" /\ aNew.by \in Members /\ aNew.comp # "command" =>
    \A h \in DOMAIN aNew.hosts : \E p \in GrantsFor(aNew.by, aNew.comp) :
      /\ Allowed(p, aNew.comp) /\ "deploy" \in p.perms \cup rolePermissions(p)
      /\ p.hosts = {} \/ aNew.hosts[h] \in p.hosts
=============================================================================
