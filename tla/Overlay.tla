------------------------------- MODULE Overlay --------------------------------
(***************************************************************************)
(* The nodes of an overlay network: clients and server nodes are created   *)
(* and deleted by requests that run at the same time, every statement a    *)
(* transaction of its own.  A creation takes an address of each family     *)
(* from ip_allocations, inserts the row of the node and then writes the    *)
(* id of the node into its allocations; what it took is given back when a  *)
(* later step fails, and is kept by nobody when the server stops between   *)
(* two steps.  Clients and server nodes are numbered apart, their          *)
(* allocations are not.  The table keeps addresses as they are spelled:    *)
(* an IPv6 address has many spellings, of which one is canonical, and an   *)
(* administrator may ask for any of them.                                  *)
(***************************************************************************)
EXTENDS Naturals, Sequences, FiniteSets, FiniteSetsExt

CONSTANTS
  Families,        \* the families of the network, in the order they are allocated
  Pool,            \* the spellings of the addresses of each family, numbers
  AddrOf,          \* the address of a spelling, named by its canonical spelling
  ReservedAddrs,   \* the gateway as it was entered, the first and last address
  OverlayRequests, \* requests of administrators
  NodeNames,       \* names of nodes
  Asks,            \* what requests ask for: sets of spellings of the ranges
  MaxNodes,        \* bound: nodes of each kind that are ever inserted
  MaxOverlayFaults \* bound: statements that fail and requests that are cut off

NodeKinds == {"client", "server"}
NodeIds == 1 .. Max({MaxNodes[k] : k \in NodeKinds})
PoolAddrs == UNION {Pool[f] : f \in {Families[i] : i \in DOMAIN Families}}
Canonical == {a \in PoolAddrs : AddrOf[a] = a}
Unbound == 0
Free == Max(NodeIds) + 1

ASSUME OverlayAssumption ==
  /\ MaxNodes \in [NodeKinds -> Nat \ {0}] /\ MaxOverlayFaults \in Nat
  /\ Families \in Seq(DOMAIN Pool) /\ Families # << >>
  /\ PoolAddrs \subseteq Nat \ {0} /\ ReservedAddrs \subseteq Nat
  /\ Asks \subseteq SUBSET PoolAddrs /\ AddrOf \in [PoolAddrs -> Nat]

\* A request: what it does, the step it is at, the families it still needs, the
\* addresses it regards as taken, those it has, the node it inserted or deletes.
Resting == [pc |-> "idle", kind |-> "client", name |-> "", ask |-> {}, need |-> << >>,
            seen |-> {}, got |-> {}, id |-> 0]

VARIABLES
  oAlloc,     \* ip_allocations: Free, Unbound or the id of a node
  oRow,       \* client_nodes and server_nodes
  oLast,      \* the last id of each table
  oReq,       \* what each request is at
  oReleased,  \* history: nodes that are left whose addresses are or will be released
  oFaults     \* bound

oVars == << oAlloc, oRow, oLast, oReq, oReleased, oFaults >>

OverlayInit ==
  /\ oAlloc = [a \in PoolAddrs |-> Free]
  /\ oRow = {}
  /\ oLast = [k \in NodeKinds |-> 0]
  /\ oReq = [r \in OverlayRequests |-> Resting]
  /\ oReleased = {}
  /\ oFaults = 0
-----------------------------------------------------------------------------
(* Allocation *)

\* A statement that fails, or the end of the server.
Faulty == oFaults < MaxOverlayFaults /\ oFaults' = oFaults + 1

Taken == {a \in PoolAddrs : oAlloc[a] # Free}
Wanted(r) == Pool[Head(oReq[r].need)]

\* The spelling that is asked for of the family, if one is.
Asked(r) == oReq[r].ask \cap Wanted(r)

\* The creation fails: what it has goes back.
Fails(r) == oReq' = [oReq EXCEPT ![r] = [Resting EXCEPT !.pc = "undo", !.got = oReq[r].got]]

\* Reads what is allocated, a part of it when the query fails; what is asked for
\* must not be among it, letter for letter.
Allocate(r) ==
  /\ oReq[r].pc = "allocate"
  /\ \E taken \in SUBSET Taken :
       /\ IF taken = Taken THEN UNCHANGED oFaults ELSE Faulty
       /\ LET seen == ReservedAddrs \cup taken
          IN  IF Asked(r) \cap seen # {} THEN Fails(r)
              ELSE oReq' = [oReq EXCEPT ![r].pc = "insert", ![r].seen = seen]
  /\ UNCHANGED << oAlloc, oRow, oLast, oReleased >>

\* The address to try: as it was asked for, or the first that is not taken in
\* its canonical spelling.
Candidates(r) ==
  IF Asked(r) # {} THEN Asked(r)
  ELSE LET open == (Wanted(r) \cap Canonical) \ oReq[r].seen IN IF open = {} THEN {} ELSE {Min(open)}

\* Inserts over what another request inserted meanwhile.
InsertsMutant(a) == TRUE

\* The insert takes a spelling that is still free: network and spelling are
\* unique, and a conflict inserts nothing.
Inserts(a) == oAlloc[a] = Free

Gains(r, a) ==
  /\ oAlloc' = [oAlloc EXCEPT ![a] = Unbound]
  /\ oReq' = [oReq EXCEPT ![r].got = @ \cup {a}, ![r].need = Tail(@), ![r].seen = {},
                ![r].pc = IF Len(oReq[r].need) = 1 THEN "row" ELSE "allocate"]

\* What was asked for is refused; else the next address is tried.
Misses(r, a) ==
  IF a \in oReq[r].ask THEN Fails(r) ELSE oReq' = [oReq EXCEPT ![r].seen = @ \cup {a}]

\* One address of the family, or the next one, or none is left.  An insert that
\* fails counts as a conflict, also when it took place.
insertAllocation(r) ==
  /\ oReq[r].pc = "insert"
  /\ \/ Candidates(r) = {} /\ Fails(r) /\ UNCHANGED << oAlloc, oFaults >>
     \/ \E a \in Candidates(r) :
          \/ Inserts(a) /\ Gains(r, a) /\ UNCHANGED oFaults
          \/ ~Inserts(a) /\ Misses(r, a) /\ UNCHANGED << oAlloc, oFaults >>
          \/ /\ Inserts(a) /\ Misses(r, a) /\ Faulty
             /\ UNCHANGED oAlloc \/ oAlloc' = [oAlloc EXCEPT ![a] = Unbound]
  /\ UNCHANGED << oRow, oLast, oReleased >>

\* Gives back, address by address, what the creation has taken; errors are
\* ignored.
rollbackIPs(r) ==
  /\ oReq[r].pc = "undo"
  /\ \/ oReq[r].got = {} /\ oReq' = [oReq EXCEPT ![r] = Resting] /\ UNCHANGED << oAlloc, oFaults >>
     \/ \E a \in oReq[r].got :
          /\ oReq' = [oReq EXCEPT ![r].got = @ \ {a}]
          /\ \/ oAlloc' = [oAlloc EXCEPT ![a] = Free] /\ UNCHANGED oFaults
             \/ UNCHANGED oAlloc /\ Faulty
  /\ UNCHANGED << oRow, oLast, oReleased >>
-----------------------------------------------------------------------------
(* Nodes *)

\* With an address of the request or without.
CreateNode(r, kind, name, ask) ==
  /\ oReq[r] = Resting /\ oLast[kind] < MaxNodes[kind]
  /\ oReq' = [oReq EXCEPT ![r] = [Resting EXCEPT !.pc = "allocate", !.kind = kind,
                                    !.name = name, !.ask = ask, !.need = Families]]
  /\ UNCHANGED << oAlloc, oRow, oLast, oReleased, oFaults >>

CreateClient(r, name, ask) == CreateNode(r, "client", name, ask)
CreateServerNode(r, name, ask) == CreateNode(r, "server", name, ask)

NameTaken(kind, name) == \E n \in oRow : n.kind = kind /\ n.name = name

\* Keys and the certificate are made for the addresses; the row of a name that
\* exists already is refused, and what was taken goes back, also when the insert
\* took place and only its answer is lost.
InsertNode(r) ==
  /\ oReq[r].pc = "row"
  /\ LET q == oReq[r]   id == oLast[q.kind] + 1
         Inserted == /\ ~NameTaken(q.kind, q.name) /\ id <= MaxNodes[q.kind]
                     /\ oRow' = oRow \cup {[kind |-> q.kind, id |-> id, name |-> q.name, ips |-> q.got]}
                     /\ oLast' = [oLast EXCEPT ![q.kind] = id]
     IN  \/ /\ Inserted
            /\ oReq' = [oReq EXCEPT ![r] = [Resting EXCEPT !.pc = "bind", !.kind = q.kind, !.id = id, !.got = q.got]]
            /\ UNCHANGED << oReleased, oFaults >>
         \/ /\ Inserted /\ Fails(r) /\ Faulty
            /\ oReleased' = oReleased \cup {<< q.kind, id >>}
         \/ /\ Fails(r)
            /\ IF NameTaken(q.kind, q.name) THEN UNCHANGED oFaults ELSE Faulty
            /\ UNCHANGED << oRow, oLast, oReleased >>
  /\ UNCHANGED oAlloc

\* Writes the id of the node into an allocation, whoever it is of by now; errors
\* are ignored.
BindNode(r) ==
  /\ oReq[r].pc = "bind"
  /\ \E a \in oReq[r].got :
       /\ \/ /\ oAlloc' = [oAlloc EXCEPT ![a] = IF @ = Free THEN @ ELSE oReq[r].id]
             /\ UNCHANGED oFaults
          \/ UNCHANGED oAlloc /\ Faulty
       /\ oReq' = [oReq EXCEPT ![r] = IF oReq[r].got = {a} THEN Resting
                                      ELSE [oReq[r] EXCEPT !.got = @ \ {a}]]
  /\ UNCHANGED << oRow, oLast, oReleased >>

\* The allocations that are released with a node: all that carry its number.
ReleaseNode(kind, id) == {a \in PoolAddrs : oAlloc[a] = id}

\* The nodes that listed them.
Bereft(addrs) == {n \in oRow : n.ips \cap addrs # {}}

\* First the addresses, whose errors are ignored, then the row; nobody looks
\* whether there is one.
DeleteReleases(r, kind, id) ==
  /\ oReq[r] = Resting /\ id <= oLast[kind]
  /\ \/ LET addrs == ReleaseNode(kind, id)
        IN  /\ oAlloc' = [a \in PoolAddrs |-> IF a \in addrs THEN Free ELSE oAlloc[a]]
            /\ oReleased' = oReleased \cup {<< n.kind, n.id >> : n \in Bereft(addrs)
                            \cup {n \in oRow : n.kind = kind /\ n.id = id}}
            /\ UNCHANGED oFaults
     \/ UNCHANGED << oAlloc, oReleased >> /\ Faulty
  /\ oReq' = [oReq EXCEPT ![r] = [Resting EXCEPT !.pc = "drop", !.kind = kind, !.id = id]]
  /\ UNCHANGED << oRow, oLast >>

DeleteClient(r, id) == DeleteReleases(r, "client", id)
DeleteServerNode(r, id) == DeleteReleases(r, "server", id)

DeleteRow(r) ==
  /\ oReq[r].pc = "drop"
  /\ oRow' = {n \in oRow : << n.kind, n.id >> # << oReq[r].kind, oReq[r].id >>}
  /\ oReleased' = oReleased \ {<< oReq[r].kind, oReq[r].id >>}
  /\ oReq' = [oReq EXCEPT ![r] = Resting]
  /\ UNCHANGED << oAlloc, oLast, oFaults >>

\* The server stops in the middle of a request that has changed something, or
\* the row cannot be deleted.
RequestCutOff(r) ==
  /\ oReq[r].got # {} \/ oReq[r].pc = "drop"
  /\ Faulty
  /\ oReq' = [oReq EXCEPT ![r] = Resting]
  /\ UNCHANGED << oAlloc, oRow, oLast, oReleased >>
-----------------------------------------------------------------------------
OverlayNext ==
  \/ \E r \in OverlayRequests :
       \/ \E x \in NodeNames, a \in Asks : CreateClient(r, x, a) \/ CreateServerNode(r, x, a)
       \/ Allocate(r) \/ insertAllocation(r) \/ rollbackIPs(r) \/ InsertNode(r) \/ BindNode(r)
       \/ \E i \in NodeIds : DeleteClient(r, i) \/ DeleteServerNode(r, i)
       \/ DeleteRow(r) \/ RequestCutOff(r)
-----------------------------------------------------------------------------
(* Properties *)

Settled == {n \in oRow : << n.kind, n.id >> \notin oReleased}
Gathering(r) == oReq[r].pc \in {"allocate", "insert", "row", "undo"}

\* Addresses that were not released from under a node are of one node or one
\* running creation only, as they are spelled, and ip_allocations says so,
\* whatever the requests that allocate, give back, bind and delete at the same
\* time, and whichever of their statements fail or lose their answer.  Spelled
\* canonically, as the allocator and IPv4 do, they are also different addresses.
OverlayInv ==
  /\ \A n \in Settled : \A a \in n.ips : oAlloc[a] \in {Unbound, n.id}
  /\ \A n, k \in Settled : n # k =>
       /\ n.ips \cap k.ips = {}
       /\ \A a \in n.ips \cap Canonical, b \in k.ips \cap Canonical : AddrOf[a] # AddrOf[b]
  /\ \A r \in OverlayRequests : Gathering(r) =>
       /\ \A a \in oReq[r].got : oAlloc[a] = Unbound
       /\ \A n \in Settled : oReq[r].got \cap n.ips = {}

\* Only the deletion of a node releases its addresses (ReleaseNode: "release
\* all addresses the node occupies").
OnlyOwnAddressesGo ==
  \A n \in oRow \ Settled : \E r \in OverlayRequests :
    oReq[r].pc = "drop" /\ << oReq[r].kind, oReq[r].id >> = << n.kind, n.id >>

(* Not kept by the code:                                                    *)

\* No two nodes have one address (ipam.New: allocation "based on unique
\* constraints"; "reserve addresses such as the gateway"): two spellings of an
\* IPv6 address pass the comparison and the constraint, the gateway's too.
AddressesApart == \A n, k \in Settled : n # k => \A a \in n.ips, b \in k.ips : AddrOf[a] # AddrOf[b]
GatewayIsReserved == \A n \in Settled : \A a \in n.ips, g \in ReservedAddrs \cap PoolAddrs : AddrOf[a] # AddrOf[g]

\* Every allocation is of a node or of a running creation.
NoAddressLeaks ==
  \A a \in Taken : \/ \E n \in oRow : a \in n.ips
                   \/ \E r \in OverlayRequests : a \in oReq[r].got
=============================================================================
