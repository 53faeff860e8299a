------------------------------ MODULE EdgeAccess ------------------------------
(***************************************************************************)
(* How the overlay is reached from outside.  The server keeps              *)
(* edge_services: what administrators enter, and the accesses that DDNSTO  *)
(* creates for a client under a name of its own.  An edge reads their      *)
(* routes from a file every ten seconds, finds the target of a request by  *)
(* its host and forwards the ports it listens on.  Nothing in the          *)
(* repository writes the file: here it is at some time a copy of what      *)
(* EdgeRoutes answers.                                                     *)
(***************************************************************************)
EXTENDS Naturals, Sequences, FiniteSets, FiniteSetsExt

CONSTANTS
  EdgeRequests,    \* requests that open accesses
  EdgeClients,     \* the clients of the network
  EdgeAddrs,       \* overlay addresses
  SlugOf,          \* the name of each client as a label, which others may share
  RandomSuffixes,    \* the random suffixes of labels
  NameTries,       \* how many names are tried
  EdgeDomain,      \* the labels of the domain of DDNSTO
  ManualServices,  \* what administrators enter: [wild, host, port, target], port 0 for http,
                   \* the host of a TCP service without meaning
  AskedHosts,      \* hosts of requests to the edge
  EdgePorts,       \* ports of the edge
  MaxServices,     \* bound: services ever inserted
  MaxEdgeEvents    \* bound: clients and ports changed by others

\* A label of a host, with its random suffix or 0.
EdgeLabels == STRING \X Nat
Targets == [addr : EdgeAddrs, port : Nat]

ASSUME EdgeAssumption ==
  /\ SlugOf \in [EdgeClients -> STRING] /\ NameTries \in Nat \ {0} /\ EdgePorts \subseteq Nat \ {0}
  /\ MaxServices \in Nat /\ MaxEdgeEvents \in Nat /\ RandomSuffixes \subseteq Nat
  /\ EdgeDomain \in Seq(EdgeLabels) /\ AskedHosts \subseteq Seq(EdgeLabels)
  /\ ManualServices \subseteq [wild : BOOLEAN, host : Seq(EdgeLabels), port : Nat, target : Targets]
  /\ \E f \in [EdgeClients -> EdgeAddrs] : \A c, d \in EdgeClients : f[c] = f[d] => c = d

NoTarget == [addr |-> 0, port |-> 0]
NoAccess == [pc |-> "idle"]

VARIABLES
  eRow,      \* edge_services, in the order of their ids
  eLast,     \* the last id
  eClient,   \* the address of each client, 0 when it is gone
  eReq,      \* what each request is at
  eFile,     \* the file of routes
  eUp,       \* the edge runs
  eRead,     \* a sequence of the list it has read and is applying
  eTable,    \* its hosts: [exact, wild], functions from hosts to targets
  eShown,    \* history: the routes its table was built from
  eRouter,   \* its ports and their targets
  eListen,   \* the ports it listens on, each with the target it forwards to
  eBusy,     \* ports other programs have taken
  eInSync,   \* the last Sync opened every port
  eEvents    \* bound

eVars == << eRow, eLast, eClient, eReq, eFile, eUp, eRead, eTable, eShown, eRouter, eListen, eBusy, eInSync, eEvents >>
eServerVars == << eRow, eLast, eClient, eReq >>
eEdgeVars == << eFile, eUp, eRead, eTable, eShown, eRouter, eListen, eBusy, eInSync >>

EmptyTable == [exact |-> << >>, wild |-> << >>]

EdgeInit ==
  /\ eRow = << >> /\ eLast = 0
  /\ eClient = CHOOSE f \in [EdgeClients -> EdgeAddrs] : \A c, d \in EdgeClients : f[c] = f[d] => c = d
  /\ eReq = [r \in EdgeRequests |-> NoAccess]
  /\ eFile = << >> /\ eUp = FALSE /\ eRead = << >>
  /\ eTable = EmptyTable /\ eShown = << >>
  /\ eRouter = << >> /\ eListen = << >> /\ eBusy = {} /\ eInSync = FALSE
  /\ eEvents = 0
-----------------------------------------------------------------------------
(* The services of the server *)

\* The host of a service is unique, that of every TCP service is empty.
HostFree(host, wild) == \A n \in DOMAIN eRow : ~(eRow[n].host = host /\ eRow[n].wild = wild)

\* Inserts a service, or refuses it for its host.
Insert(svc) ==
  /\ eLast < MaxServices
  /\ \/ /\ HostFree(svc.host, svc.wild)
        /\ eRow' = Append(eRow, [id |-> eLast + 1, wild |-> svc.wild, host |-> svc.host,
                                 port |-> svc.port, target |-> svc.target])
        /\ eLast' = eLast + 1
     \/ ~HostFree(svc.host, svc.wild) /\ UNCHANGED << eRow, eLast >>

CreateEdgeService(svc) ==
  /\ Insert(svc)
  /\ UNCHANGED << eClient, eReq, eEdgeVars, eEvents >>

\* The rows but the n-th: an id is of one row.
Without(n) == [k \in 1 .. Len(eRow) - 1 |-> IF k < n THEN eRow[k] ELSE eRow[k + 1]]

DeleteEdgeService ==
  /\ \E n \in DOMAIN eRow : eRow' = Without(n)
  /\ UNCHANGED << eLast, eClient, eReq, eEdgeVars, eEvents >>

\* Hosts DDNSTO takes for its own: those that end in its domain.
UnderDomain(host) ==
  /\ Len(host) > Len(EdgeDomain)
  /\ SubSeq(host, Len(host) - Len(EdgeDomain) + 1, Len(host)) = EdgeDomain

\* Entries of the domain only, whoever made them.
DeleteAccess ==
  /\ \E n \in DOMAIN eRow : UnderDomain(eRow[n].host) /\ eRow' = Without(n)
  /\ UNCHANGED << eLast, eClient, eReq, eEdgeVars, eEvents >>

\* Over http, or over a port of the edge; the client and its address are read once.
CreateAccess(r, c, port) ==
  /\ eReq[r].pc = "idle" /\ eClient[c] # 0
  /\ eReq' = [eReq EXCEPT ![r] = [pc |-> "name", client |-> c, addr |-> eClient[c], port |-> port,
                                  host |-> << << SlugOf[c], 0 >> >> \o EdgeDomain, tries |-> 0]]
  /\ UNCHANGED << eRow, eLast, eClient, eEdgeVars, eEvents >>

\* The label of the client, then with random suffixes, until nobody has it.
uniqueHost(r) ==
  /\ eReq[r].pc = "name"
  /\ LET q == eReq[r]
     IN  IF q.tries = NameTries THEN eReq' = [eReq EXCEPT ![r] = NoAccess]
         ELSE IF HostFree(q.host, FALSE) THEN eReq' = [eReq EXCEPT ![r].pc = "insert"]
         ELSE \E x \in RandomSuffixes :
                eReq' = [eReq EXCEPT ![r].host = << << SlugOf[q.client], x >> >> \o EdgeDomain, ![r].tries = @ + 1]
  /\ UNCHANGED << eRow, eLast, eClient, eEdgeVars, eEvents >>

\* The host may have been taken since, the client may be gone.
AccessInserts(r) ==
  /\ eReq[r].pc = "insert"
  /\ LET q == eReq[r]
     IN  Insert([wild |-> FALSE, host |-> q.host, port |-> q.port,
                 target |-> [addr |-> q.addr, port |-> IF q.port = 0 THEN 80 ELSE q.port]])
  /\ eReq' = [eReq EXCEPT ![r] = NoAccess]
  /\ UNCHANGED << eClient, eEdgeVars, eEvents >>

\* A client is deleted, or comes with an address nobody has.
ClientChanges ==
  /\ eEvents < MaxEdgeEvents /\ eEvents' = eEvents + 1
  /\ \E c \in EdgeClients :
       \/ eClient[c] # 0 /\ eClient' = [eClient EXCEPT ![c] = 0]
       \/ /\ eClient[c] = 0
          /\ \E a \in EdgeAddrs \ {eClient[d] : d \in EdgeClients} : eClient' = [eClient EXCEPT ![c] = a]
  /\ UNCHANGED << eRow, eLast, eReq, eEdgeVars >>
-----------------------------------------------------------------------------
(* The edge *)

\* The routes of the network: of a TCP service its port, of others their host.
EdgeRoutes ==
  [n \in DOMAIN eRow |->
     IF eRow[n].port # 0 THEN [wild |-> FALSE, host |-> << >>, port |-> eRow[n].port, target |-> eRow[n].target]
     ELSE [wild |-> eRow[n].wild, host |-> eRow[n].host, port |-> 0, target |-> eRow[n].target]]

RoutesWritten ==
  /\ eFile # EdgeRoutes /\ eFile' = EdgeRoutes
  /\ UNCHANGED << eServerVars, eUp, eRead, eTable, eShown, eRouter, eListen, eBusy, eInSync, eEvents >>

\* What the last of the picked routes says, for each value of a field.
addLocked(routes, picked, field) ==
  [k \in {routes[n][field] : n \in picked} |->
     routes[Max({n \in picked : routes[n][field] = k})].target]

\* The whole table, of the routes that have a host.
Set(routes) ==
  LET Hosts(wild) == {n \in DOMAIN routes : routes[n].host # << >> /\ routes[n].wild = wild}
  IN  [exact |-> addLocked(routes, Hosts(FALSE), "host"), wild |-> addLocked(routes, Hosts(TRUE), "host")]

SetRouter(routes) == addLocked(routes, {n \in DOMAIN routes : routes[n].port > 0}, "port")

\* The target of a host: its own, or that of the first wildcard met while labels
\* are taken off from the left.
TableLookup(host) ==
  IF host \in DOMAIN eTable.exact THEN eTable.exact[host]
  ELSE LET cuts == {n \in 2 .. Len(host) : SubSeq(host, n, Len(host)) \in DOMAIN eTable.wild}
       IN  IF cuts = {} THEN NoTarget ELSE eTable.wild[SubSeq(host, Min(cuts), Len(host))]

\* Closes what is no longer routed, opens what is new in some order, and stops
\* at the first port it cannot open.  A port that stays keeps its target.
Sync(want) ==
  LET kept == DOMAIN eListen \cap DOMAIN want
      new == DOMAIN want \ DOMAIN eListen
      Opened(ports) == eListen' = [k \in kept \cup ports |-> IF k \in kept THEN eListen[k] ELSE want[k]]
  IN  \/ new \cap eBusy = {} /\ Opened(new) /\ eInSync' = TRUE
      \/ /\ new \cap eBusy # {}
         /\ \E ports \in SUBSET (new \ eBusy) : Opened(ports)
         /\ eInSync' = FALSE

\* The edge starts when it can open all its ports, or ends.
startEdge ==
  /\ ~eUp /\ DOMAIN SetRouter(eFile) \cap eBusy = {}
  /\ eTable' = Set(eFile) /\ eShown' = eFile
  /\ eRouter' = SetRouter(eFile) /\ Sync(eRouter')
  /\ eUp' = TRUE
  /\ UNCHANGED << eServerVars, eFile, eRead, eBusy, eEvents >>

\* A reload replaces the hosts; a file that cannot be read changes nothing.
ReloadHosts ==
  /\ eUp /\ eRead = << >>
  /\ eTable' = Set(eFile) /\ eShown' = eFile /\ eRead' = << eFile >>
  /\ UNCHANGED << eServerVars, eFile, eUp, eRouter, eListen, eBusy, eInSync, eEvents >>

\* And then the ports.
ReloadPorts ==
  /\ eUp /\ eRead # << >>
  /\ eRouter' = SetRouter(eRead[1]) /\ Sync(eRouter')
  /\ eRead' = << >>
  /\ UNCHANGED << eServerVars, eFile, eUp, eTable, eShown, eBusy, eEvents >>

\* Another program takes a port or leaves it.
PortChanges ==
  /\ eEvents < MaxEdgeEvents /\ eEvents' = eEvents + 1
  /\ \E k \in EdgePorts \ DOMAIN eListen : eBusy' = IF k \in eBusy THEN eBusy \ {k} ELSE eBusy \cup {k}
  /\ UNCHANGED << eServerVars, eFile, eUp, eRead, eTable, eShown, eRouter, eListen, eInSync >>

EnteredNext == (\E svc \in ManualServices : CreateEdgeService(svc)) \/ DeleteEdgeService

\* What goes on at the server, and at an edge whose services are entered.
AccessNext ==
  \/ EnteredNext \/ DeleteAccess \/ ClientChanges
  \/ \E r \in EdgeRequests :
       (\E c \in EdgeClients, k \in {0} \cup EdgePorts : CreateAccess(r, c, k)) \/ uniqueHost(r) \/ AccessInserts(r)
ForwardNext == EnteredNext \/ RoutesWritten \/ startEdge \/ ReloadHosts \/ ReloadPorts \/ PortChanges

EdgeNext == AccessNext \/ ForwardNext

EdgeSpec == EdgeInit /\ [][EdgeNext]_eVars
-----------------------------------------------------------------------------
\* A route whose host is what remains when labels are taken off.
Over(x, host) == \E n \in 2 .. Len(host) : x.host = SubSeq(host, n, Len(host))

\* The edge sends a request where one list of routes says: to the target its
\* host has there, else to that of the longest wildcard over it, and to nobody
\* for a host that list does not know, whatever an earlier list said.
HostsAsShown ==
  eUp => \A host \in AskedHosts :
    LET own == {n \in DOMAIN eShown : eShown[n].host = host /\ host # << >> /\ ~eShown[n].wild}
        wild == {n \in DOMAIN eShown : eShown[n].wild /\ eShown[n].host # << >> /\ Over(eShown[n], host)}
        longest == {n \in wild : \A m \in wild : Len(eShown[m].host) <= Len(eShown[n].host)}
    IN  TableLookup(host) = IF own # {} THEN eShown[Max(own)].target
                       ELSE IF wild # {} THEN eShown[Max(longest)].target ELSE NoTarget

\* After a reload the edge listens on no port that is not routed, and on all
\* that are when nothing was in its way ("Sync 使监听端口与路由表一致").
PortsAsRouted ==
  eUp => /\ DOMAIN eListen \subseteq DOMAIN eRouter
         /\ eInSync => DOMAIN eListen = DOMAIN eRouter

\* Two accesses that were opened at the same time do not share a host, though
\* both found it free ("生成唯一子域名").
HostsDiffer ==
  \A m, n \in DOMAIN eRow : eRow[m].host = eRow[n].host /\ eRow[m].wild = eRow[n].wild => m = n

EdgeInv == HostsAsShown /\ PortsAsRouted /\ HostsDiffer

\* Not kept by the code: a port whose target has changed goes on to the old one.
PortsGoWhereRouted == eUp /\ eInSync => eListen = eRouter
=============================================================================
