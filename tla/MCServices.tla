------------------------------ MODULE MCServices ------------------------------
(***************************************************************************)
(* What the server offers beside the rollout, for one TLC run: the         *)
(* external files and cached answers it serves, accounts and access        *)
(* tokens, what AI does for users, remote management, the overlay network, *)
(* its clients and the edge in front of it, and the migration of its       *)
(* database.  They share no state; service says which of them a behaviour  *)
(* is about.                                                               *)
(***************************************************************************)
EXTENDS ExternalFiles, Accounts, AiTokens, ResponseCache, Overlay, MeshClient, Migrations,
  AiActions, EdgeAccess, ClientEnrol, Liaison

VARIABLE service

\* A table with two spellings of one name, and a built-in entry with a script.
FileKeys == << "Tool", "setup", "tool" >>
FileFold == [k \in {"Tool", "setup", "tool"} |-> IF k = "Tool" THEN "tool" ELSE k]
FileBuiltins == [k \in {"setup"} |-> [url |-> "u1", script |-> TRUE]]
FileSaves ==
  { [key |-> "Tool", value |-> [url |-> "u1", script |-> FALSE]],
    [key |-> "tool", value |-> [url |-> "u2", script |-> TRUE]],
    [key |-> "setup", value |-> [url |-> "u2", script |-> TRUE]] }

\* A user who is changed by an administrator, who is changed by a superadmin.
AccountRows ==
  [u \in Accounts |-> [role |-> IF u = "ann" THEN "user" ELSE IF u = "lead" THEN "admin" ELSE "superadmin",
                       tenant |-> 1]]
AccountRoles == {[role |-> "admin", tenant |-> 1]}
AccountDeeds == ({"disable", "delete"} \X {"lead"} \X {"ann"}) \cup ({"roles", "reset"} \X {"root"} \X {"ann"})
\* The clock of one replica is ahead of the database's.
ReplicaSkew == [r \in AccReplicas |-> IF r = "r1" THEN 0 ELSE 1]
TokenRanks == [u \in TokenUsers |-> 1]
TokenTenants == [u \in TokenUsers |-> 1]

CacheChoices == {[mode |-> "single", db |-> 5], [mode |-> "cluster", db |-> 5]}

\* Two addresses of one family beside the gateway, one of the other in two spellings.
NetFamilies == << 4, 6 >>
NetPool == [f \in {4, 6} |-> IF f = 4 THEN {1, 2, 3} ELSE {4, 5}]
NetAddrs == [a \in 1 .. 5 |-> IF a = 5 THEN 4 ELSE a]
NetAsks == {{}, {2, 5}}
NetNodes == [k \in NodeKinds |-> 1]
NetRoutes ==
  { { [mode |-> "active_active", allDown |-> "fail_closed", prio |-> [g \in Gateways |-> 1]],
      [mode |-> "active_passive", allDown |-> "fail_open", prio |-> [g \in Gateways |-> IF g = "g1" THEN 1 ELSE 2]] },
    { [mode |-> "active_passive", allDown |-> "blackhole", prio |-> [g \in Gateways |-> 1]] } }

\* Posts of MCP clients: modern ones with headers that agree with the body and
\* headers that do not, old ones, one call or several.
Post(meta, ver, same) ==
  [batch |-> FALSE, hdr |-> [ver |-> ver, same |-> same],
   calls |-> << [meta |-> meta, tool |-> "start", confirm |-> TRUE] >>]
Posts ==
  { Post("modern", "modern", TRUE), Post("modern", "modern", FALSE), Post("modern", "", TRUE), Post("", "modern", TRUE),
    [batch |-> TRUE, hdr |-> NoHeader,
     calls |-> << [meta |-> "", tool |-> "start", confirm |-> FALSE], [meta |-> "", tool |-> "audit", confirm |-> FALSE] >>] }

\* Two wildcards, one inside the other, a host under both, a port with two targets.
Label(x) == << << x, 0 >> >>
DomainLabels == Label("dom")
HostsUnder == [one |-> Label("b") \o DomainLabels, two |-> Label("a") \o Label("b") \o DomainLabels]
HttpService(wild, host, a) == [wild |-> wild, host |-> host, port |-> 0, target |-> [addr |-> a, port |-> 80]]
TcpService(host, a) == [wild |-> FALSE, host |-> host, port |-> 7, target |-> [addr |-> a, port |-> 22]]
EdgeServices ==
  { HttpService(TRUE, DomainLabels, 1), HttpService(TRUE, HostsUnder.one, 2), HttpService(FALSE, HostsUnder.two, 1),
    TcpService(<< >>, 1), TcpService(Label("t"), 2) }
HostsAsked == { Label("ann") \o DomainLabels, HostsUnder.one, HostsUnder.two, DomainLabels }
SameSlug == [c \in EdgeClients |-> "ann"]

\* A default policy for all, two of users that allow different things.
PolicyRoles == [p \in Policies |-> IF p = "all" THEN "admin" ELSE "user"]
PolicyGrants ==
  [p \in Policies |-> CASE p = "all" -> {"ssh", "desktop", "db"} [] p = "term" -> {"ssh"} [] OTHER -> {"db"}]

\* A rolling upgrade: one replica is of an older release.
Releases == [s \in Starters |-> IF s = "c" THEN {1} ELSE {1, 2}]

servicesVars == << xVars, uVars, tVars, hVars, oVars, mVars, gVars, kVars, eVars, nVars, lVars, service >>

ServicesInit ==
  /\ service \in {"files", "accounts", "tokens", "cache", "overlay", "client", "migrations",
                "assistant", "mcp", "access", "edge", "enrol", "policies", "session", "webdb"}
  /\ ExternalInit /\ AccountsInit /\ TokensInit /\ CacheInit /\ OverlayInit /\ MeshInit /\ MigrationsInit
  /\ AiInit /\ EdgeInit /\ EnrolInit /\ LiaisonInit
  /\ service # "client" => mRoutes = CHOOSE s \in RouteSets : TRUE
  /\ service # "migrations" => gDialect = "sqlite"

ServicesNext ==
  /\ UNCHANGED service
  /\ \/ service = "files" /\ ExternalNext /\ UNCHANGED << uVars, tVars, hVars, oVars, mVars, gVars, kVars, eVars, nVars, lVars >>
     \/ service = "accounts" /\ AccountsNext /\ UNCHANGED << xVars, tVars, hVars, oVars, mVars, gVars, kVars, eVars, nVars, lVars >>
     \/ service = "tokens" /\ TokensNext /\ UNCHANGED << xVars, uVars, hVars, oVars, mVars, gVars, kVars, eVars, nVars, lVars >>
     \/ service = "cache" /\ CacheNext /\ UNCHANGED << xVars, uVars, tVars, oVars, mVars, gVars, kVars, eVars, nVars, lVars >>
     \/ service = "overlay" /\ OverlayNext /\ UNCHANGED << xVars, uVars, tVars, hVars, mVars, gVars, kVars, eVars, nVars, lVars >>
     \/ service = "client" /\ MeshNext /\ UNCHANGED << xVars, uVars, tVars, hVars, oVars, gVars, kVars, eVars, nVars, lVars >>
     \/ service = "migrations" /\ MigrationsNext /\ UNCHANGED << xVars, uVars, tVars, hVars, oVars, mVars, kVars, eVars, nVars, lVars >>
     \/ service = "assistant" /\ AssistantNext /\ UNCHANGED << xVars, uVars, tVars, hVars, oVars, mVars, gVars, eVars, nVars, lVars >>
     \/ service = "mcp" /\ McpNext /\ UNCHANGED << xVars, uVars, tVars, hVars, oVars, mVars, gVars, eVars, nVars, lVars >>
     \/ service = "access" /\ AccessNext /\ UNCHANGED << xVars, uVars, tVars, hVars, oVars, mVars, gVars, kVars, nVars, lVars >>
     \/ service = "enrol" /\ EnrolNext /\ UNCHANGED << xVars, uVars, tVars, hVars, oVars, mVars, gVars, kVars, eVars, lVars >>
     \/ service = "edge" /\ ForwardNext /\ UNCHANGED << xVars, uVars, tVars, hVars, oVars, mVars, gVars, kVars, nVars, lVars >>
     \/ service = "policies" /\ PolicyNext /\ UNCHANGED << xVars, uVars, tVars, hVars, oVars, mVars, gVars, kVars, eVars, nVars >>
     \/ service = "session" /\ SessionNext /\ UNCHANGED << xVars, uVars, tVars, hVars, oVars, mVars, gVars, kVars, eVars, nVars >>
     \/ service = "webdb" /\ WebDbNext /\ UNCHANGED << xVars, uVars, tVars, hVars, oVars, mVars, gVars, kVars, eVars, nVars >>

ServicesSpec == ServicesInit /\ [][ServicesNext]_servicesVars

\* The overlay network alone.
OverlaySpec == ServicesInit /\ service = "overlay" /\ [][ServicesNext]_servicesVars
-----------------------------------------------------------------------------
\* What the server serves: files whose content was checked against the entry
\* they belong to, and lists as fresh as the code promises.
ServedInv == (service = "files" => ExternalInv) /\ (service = "cache" => CacheInv)

\* Whom the server lets in and for whom it acts: sessions, access tokens, the
\* assistant, the clients of MCP and remote management.
SignInInv ==
  /\ (service = "accounts" => AccountsInv) /\ (service = "tokens" => TokensInv)
  /\ service \in {"assistant", "mcp"} => AssistantInv
  /\ service \in {"policies", "session", "webdb"} => LiaisonInv

\* The overlay: addresses that are held, clients told what changed, an edge that
\* forwards what is routed.
NetworkInv ==
  /\ (service = "overlay" => OverlayInv) /\ (service = "client" => MeshInv)
  /\ (service \in {"access", "edge"} => EdgeInv) /\ (service = "enrol" => TokensSpent)
=============================================================================
