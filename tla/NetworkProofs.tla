---------------------------- MODULE NetworkProofs ----------------------------
(***************************************************************************)
(* Proofs about the overlay network, its clients, their enrolment and the  *)
(* edge in front of it, for any number of addresses, nodes, requests,      *)
(* machines, routes and services, and any number of failures and stops.    *)
(***************************************************************************)
EXTENDS ServicesProofs
-----------------------------------------------------------------------------
(* The overlay network *)

FamiliesOfNet == {Families[i] : i \in DOMAIN Families}
OverlayPcs == {"idle", "allocate", "insert", "undo", "row", "bind", "drop"}
OverlayRequest ==
  [pc : OverlayPcs, kind : NodeKinds, name : NodeNames \cup {""}, ask : SUBSET PoolAddrs, need : Seq(FamiliesOfNet),
   seen : SUBSET Nat, got : SUBSET PoolAddrs, id : NodeIds \cup {0}]
OverlayNode == [kind : NodeKinds, id : NodeIds, name : NodeNames \cup {""}, ips : SUBSET PoolAddrs]

OverlayTypes ==
  /\ oAlloc \in [PoolAddrs -> NodeIds \cup {Unbound, Free}]
  /\ oRow \in SUBSET OverlayNode
  /\ oLast \in [NodeKinds -> Nat]
  /\ oReq \in [OverlayRequests -> OverlayRequest]

\* What a creation has taken is bound to no node and is of no settled node but
\* the one it has inserted.
HeldByRequest(r) ==
  /\ oReq[r].pc \in {"allocate", "insert"} => oReq[r].need # << >>
  /\ oReq[r].pc = "bind" => oReq[r].id \in NodeIds
  /\ \A a \in oReq[r].got : oAlloc[a] = Unbound
  /\ \A n \in Settled : \A a \in n.ips :
       a \in oReq[r].got => oReq[r].pc = "bind" /\ n.id = oReq[r].id

HeldByNode(n) == \A a \in n.ips : oAlloc[a] \in {Unbound, n.id}

HeldApart ==
  /\ \A r, q \in OverlayRequests : \A a \in oReq[r].got : a \in oReq[q].got => r = q
  /\ \A n, k \in Settled : \A a \in n.ips : a \in k.ips => n = k

OverlayIInv ==
  /\ OverlayTypes /\ HeldApart
  /\ \A r \in OverlayRequests : HeldByRequest(r)
  /\ \A n \in Settled : HeldByNode(n)

LEMMA OverlayNumbers ==
  /\ NodeIds \in SUBSET Nat /\ 0 \notin NodeIds
  /\ Free \in Nat /\ Free \notin NodeIds /\ Free # 0
  /\ \A k \in NodeKinds : \A i \in Nat : i < MaxNodes[k] => i + 1 \in NodeIds
<1> DEFINE S == {MaxNodes[k] : k \in NodeKinds}
<1>1. S \in SUBSET (Nat \ {0}) /\ MaxNodes["client"] \in S /\ MaxNodes["server"] \in S
      /\ \A k \in S : k = MaxNodes["client"] \/ k = MaxNodes["server"]
  BY OverlayAssumption DEF NodeKinds
<1> HIDE DEF S
<1>2. PICK m \in S : \A k \in S : k <= m
  <2>1. MaxNodes["client"] \in Nat /\ MaxNodes["server"] \in Nat
    BY <1>1
  <2>2. CASE MaxNodes["client"] <= MaxNodes["server"]
    BY <1>1, <2>1, <2>2
  <2>3. CASE MaxNodes["server"] <= MaxNodes["client"]
    BY <1>1, <2>1, <2>3
  <2> QED
    BY <2>1, <2>2, <2>3
<1>3. Max(S) \in S /\ \A k \in S : k <= Max(S)
  <2>1. S \in SUBSET Nat
    BY <1>1
  <2> QED
    BY <1>2, <2>1, MaxOfNumbers
<1> DEFINE top == Max(S)
<1>4. top \in Nat /\ top # 0 /\ \A k \in NodeKinds : MaxNodes[k] \in Nat /\ MaxNodes[k] <= top
  BY <1>1, <1>3 DEF S
<1>5. NodeIds = 1 .. top
  BY DEF NodeIds, S
<1> HIDE DEF top
<1>6. \A i \in NodeIds : i <= top
  BY <1>4, <1>5
<1>7. top \in NodeIds /\ NodeIds \in SUBSET Nat
  BY <1>4, <1>5
<1>8. Max(NodeIds) \in NodeIds /\ \A k \in NodeIds : k <= Max(NodeIds)
  BY <1>6, <1>7, MaxOfNumbers
<1>9. Free \in Nat /\ Free \notin NodeIds /\ Free # 0
  <2> DEFINE t == Max(NodeIds)
  <2>1. t \in Nat /\ t # 0 /\ t \in NodeIds /\ Free = t + 1
    BY <1>4, <1>5, <1>7, <1>8 DEF Free
  <2>2. \A k \in NodeIds : k \in Nat /\ k <= t
    BY <1>7, <1>8
  <2> HIDE DEF t
  <2> QED
    BY <2>1, <2>2
<1>10. 0 \notin NodeIds /\ \A k \in NodeKinds : \A i \in Nat : i < MaxNodes[k] => i + 1 \in NodeIds
  BY <1>4, <1>5
<1> QED
  BY <1>7, <1>9, <1>10

LEMMA OverlayFamilies ==
  /\ Families \in Seq(FamiliesOfNet) /\ Families # << >>
  /\ \A f \in FamiliesOfNet : Pool[f] \subseteq PoolAddrs
  /\ PoolAddrs \in SUBSET Nat
<1>1. Families \in Seq(DOMAIN Pool)
  BY OverlayAssumption
<1>2. Families \in Seq(FamiliesOfNet)
  BY <1>1 DEF FamiliesOfNet
<1>3. \A f \in FamiliesOfNet : Pool[f] \subseteq PoolAddrs
  BY DEF FamiliesOfNet, PoolAddrs
<1> QED
  BY <1>2, <1>3, OverlayAssumption

LEMMA RestingRequestFits ==
  /\ Resting \in OverlayRequest /\ Resting.got = {} /\ Resting.pc = "idle"
BY DEF Resting, OverlayRequest, OverlayPcs, NodeKinds

LEMMA OverlayFromTheStart == OverlayInit => OverlayIInv
<1> SUFFICES ASSUME OverlayInit PROVE OverlayIInv
  OBVIOUS
<1>1. OverlayTypes
  BY RestingRequestFits DEF OverlayInit, OverlayTypes
<1>2. Settled = {} /\ \A r \in OverlayRequests : oReq[r] = Resting
  BY DEF OverlayInit, Settled
<1>3. HeldApart /\ \A r \in OverlayRequests : HeldByRequest(r)
  BY <1>2, RestingRequestFits DEF HeldApart, HeldByRequest
<1> QED
  BY <1>1, <1>2, <1>3 DEF OverlayIInv

\* A step of one request, of which no node becomes settled.
LEMMA OverlayMoves ==
  ASSUME OverlayIInv, NEW r \in OverlayRequests, NEW new \in OverlayRequest,
         oReq' = [oReq EXCEPT ![r] = new],
         oAlloc' \in [PoolAddrs -> NodeIds \cup {Unbound, Free}], oRow' \in SUBSET OverlayNode,
         oLast' \in [NodeKinds -> Nat], Settled' \subseteq Settled,
         new.pc \in {"allocate", "insert"} => new.need # << >>,
         new.pc = "bind" => new.id \in NodeIds,
         \A a \in new.got : oAlloc'[a] = Unbound,
         \A q \in OverlayRequests \ {r} : \A a \in oReq[q].got : a \notin new.got /\ oAlloc'[a] = Unbound,
         \A n \in Settled' : HeldByNode(n)',
         \A n \in Settled' : \A a \in n.ips : a \in new.got => new.pc = "bind" /\ n.id = new.id
  PROVE  OverlayIInv'
<1>1. /\ oReq' \in [OverlayRequests -> OverlayRequest] /\ oReq'[r] = new
      /\ \A q \in OverlayRequests \ {r} : oReq'[q] = oReq[q]
  BY DEF OverlayIInv, OverlayTypes
<1>2. OverlayTypes'
  BY <1>1 DEF OverlayTypes
<1>3. HeldApart'
  <2>1. \A p, q \in OverlayRequests : \A a \in oReq'[p].got : a \in oReq'[q].got => p = q
    BY <1>1 DEF OverlayIInv, HeldApart
  <2> QED
    BY <2>1 DEF OverlayIInv, HeldApart
<1>4. ASSUME NEW q \in OverlayRequests PROVE HeldByRequest(q)'
  BY <1>1 DEF OverlayIInv, HeldByRequest
<1> QED
  BY <1>2, <1>3, <1>4 DEF OverlayIInv

\* A step of one request that takes and gives back nothing.
LEMMA RequestMoves ==
  ASSUME OverlayIInv, NEW r \in OverlayRequests, NEW new \in OverlayRequest,
         oReq' = [oReq EXCEPT ![r] = new], UNCHANGED << oAlloc, oRow, oReleased >>,
         oLast' \in [NodeKinds -> Nat],
         new.pc \in {"allocate", "insert"} => new.need # << >>,
         new.pc # "bind",
         new.got = {} \/ (new.got = oReq[r].got /\ oReq[r].pc # "bind")
  PROVE  OverlayIInv'
<1>1. Settled' = Settled
  BY DEF Settled
<1>2. HeldByRequest(r) /\ OverlayTypes /\ HeldApart
  BY DEF OverlayIInv
<1>3. /\ \A a \in new.got : oAlloc'[a] = Unbound
      /\ \A n \in Settled' : \A a \in n.ips : a \notin new.got
  BY <1>1, <1>2 DEF HeldByRequest
<1>4. \A q \in OverlayRequests \ {r} : \A a \in oReq[q].got : a \notin new.got /\ oAlloc'[a] = Unbound
  BY <1>2 DEF HeldApart, OverlayIInv, HeldByRequest
<1>5. \A n \in Settled' : HeldByNode(n)'
  BY <1>1 DEF OverlayIInv, HeldByNode
<1>6. oAlloc' \in [PoolAddrs -> NodeIds \cup {Unbound, Free}] /\ oRow' \in SUBSET OverlayNode
  BY <1>2 DEF OverlayTypes
<1> QED
  BY <1>1, <1>3, <1>4, <1>5, <1>6, OverlayMoves

\* The request that gives up what it has.
LEMMA UndoneRequest ==
  ASSUME OverlayIInv, NEW r \in OverlayRequests, Fails(r)
  PROVE  \E new \in OverlayRequest :
           oReq' = [oReq EXCEPT ![r] = new] /\ new.pc = "undo" /\ new.got = oReq[r].got
<1> DEFINE b == Resting
           c == [b EXCEPT !.pc = "undo", !.got = oReq[r].got]
<1>1. oReq' = [oReq EXCEPT ![r] = c]
  BY DEF Fails
<1>2. b \in OverlayRequest /\ oReq[r].got \in SUBSET PoolAddrs
  BY RestingRequestFits DEF OverlayIInv, OverlayTypes, OverlayRequest
<1> HIDE DEF b
<1>3. c \in OverlayRequest /\ c.pc = "undo" /\ c.got = oReq[r].got
  BY <1>2 DEF OverlayRequest, OverlayPcs
<1> HIDE DEF c
<1> QED
  BY <1>1, <1>3

LEMMA UndoKeeps ==
  ASSUME OverlayIInv, NEW r \in OverlayRequests, Fails(r), oReq[r].pc # "bind",
         UNCHANGED << oAlloc, oRow, oReleased >>, oLast' \in [NodeKinds -> Nat]
  PROVE  OverlayIInv'
<1>1. PICK new \in OverlayRequest :
        oReq' = [oReq EXCEPT ![r] = new] /\ new.pc = "undo" /\ new.got = oReq[r].got
  BY UndoneRequest
<1>2. new.pc # "bind" /\ new.pc \notin {"allocate", "insert"}
  BY <1>1
<1> QED
  BY <1>1, <1>2, RequestMoves

LEMMA AllocateKeeps ==
  ASSUME OverlayIInv, NEW r \in OverlayRequests, Allocate(r)
  PROVE  OverlayIInv'
<1> DEFINE q == oReq[r]
<1>1. PICK taken \in SUBSET Taken :
        IF Asked(r) \cap (ReservedAddrs \cup taken) # {} THEN Fails(r)
        ELSE oReq' = [oReq EXCEPT ![r].pc = "insert", ![r].seen = ReservedAddrs \cup taken]
  BY DEF Allocate
<1>2. /\ q \in OverlayRequest /\ q.pc = "allocate" /\ q.need # << >>
      /\ UNCHANGED << oAlloc, oRow, oLast, oReleased >> /\ oLast \in [NodeKinds -> Nat]
  BY DEF OverlayIInv, OverlayTypes, HeldByRequest, Allocate
<1>3. CASE Fails(r)
  <2>1. q.pc # "bind" /\ oLast' \in [NodeKinds -> Nat] /\ UNCHANGED << oAlloc, oRow, oReleased >>
    BY <1>2
  <2> QED
    BY <1>3, <2>1, UndoKeeps
<1>4. CASE oReq' = [oReq EXCEPT ![r].pc = "insert", ![r].seen = ReservedAddrs \cup taken]
  <2> DEFINE seen == ReservedAddrs \cup taken
             new == [q EXCEPT !.pc = "insert", !.seen = seen]
  <2>1. seen \in SUBSET Nat
    BY OverlayAssumption DEF Taken
  <2>2. oReq' = [oReq EXCEPT ![r] = new]
    BY <1>2, <1>4 DEF OverlayIInv, OverlayTypes
  <2> HIDE DEF seen
  <2>3. new \in OverlayRequest /\ new.got = q.got /\ new.pc = "insert" /\ new.need = q.need
    BY <1>2, <2>1 DEF OverlayRequest, OverlayPcs
  <2> HIDE DEF new
  <2> QED
    BY <1>2, <2>2, <2>3, RequestMoves
<1> QED
  BY <1>1, <1>3, <1>4

LEMMA CandidatesAreOfThePool ==
  ASSUME OverlayIInv, NEW r \in OverlayRequests, oReq[r].pc = "insert"
  PROVE  Candidates(r) \subseteq PoolAddrs /\ oReq[r].need # << >>
<1>1. oReq[r].need # << >> /\ oReq[r].need \in Seq(FamiliesOfNet)
  BY DEF OverlayIInv, HeldByRequest, OverlayTypes, OverlayRequest
<1>2. Head(oReq[r].need) \in FamiliesOfNet
  BY <1>1
<1>3. Wanted(r) \subseteq PoolAddrs /\ Wanted(r) \in SUBSET Nat
  BY <1>2, OverlayFamilies DEF Wanted
<1> DEFINE open == (Wanted(r) \cap Canonical) \ oReq[r].seen
<1>4. open # {} => Min(open) \in open
  <2>1. open \in SUBSET Nat
    BY <1>3
  <2> HIDE DEF open
  <2> QED
    BY <2>1, MinOfNumbers
<1>5. Candidates(r) = IF Asked(r) # {} THEN Asked(r) ELSE IF open = {} THEN {} ELSE {Min(open)}
  BY DEF Candidates
<1>6. open \subseteq PoolAddrs /\ Asked(r) \subseteq PoolAddrs
  BY <1>3 DEF Asked
<1> HIDE DEF open
<1> QED
  BY <1>1, <1>4, <1>5, <1>6

LEMMA InsertAllocationKeeps ==
  ASSUME OverlayIInv, NEW r \in OverlayRequests, insertAllocation(r)
  PROVE  OverlayIInv'
<1> DEFINE q == oReq[r]
<1>1. /\ q \in OverlayRequest /\ q.pc = "insert" /\ q.need # << >> /\ Candidates(r) \subseteq PoolAddrs
      /\ UNCHANGED << oRow, oLast, oReleased >> /\ OverlayTypes /\ HeldApart /\ HeldByRequest(r)
      /\ Settled' = Settled
  BY CandidatesAreOfThePool DEF OverlayIInv, OverlayTypes, insertAllocation, Settled
<1>2. ASSUME Fails(r), UNCHANGED oAlloc PROVE OverlayIInv'
  <2>1. q.pc # "bind" /\ oLast' \in [NodeKinds -> Nat] /\ UNCHANGED << oAlloc, oRow, oReleased >>
    BY <1>1, <1>2 DEF OverlayTypes
  <2> QED
    BY <1>2, <2>1, UndoKeeps
\* The next address is tried, or what was asked for is refused, when the insert
\* failed and when it took place.
<1>3. ASSUME NEW a \in Candidates(r), Misses(r, a),
             UNCHANGED oAlloc \/ (Inserts(a) /\ oAlloc' = [oAlloc EXCEPT ![a] = Unbound])
      PROVE  OverlayIInv'
  <2>1. PICK new \in OverlayRequest :
          /\ oReq' = [oReq EXCEPT ![r] = new] /\ new.got = q.got
          /\ new.pc = "undo" \/ (new.pc = "insert" /\ new.need = q.need)
    <3>1. CASE Fails(r)
      BY <3>1, UndoneRequest
    <3>2. CASE oReq' = [oReq EXCEPT ![r].seen = @ \cup {a}]
      <4> DEFINE n == [q EXCEPT !.seen = @ \cup {a}]
      <4>1. a \in Nat
        BY <1>1, OverlayFamilies
      <4>2. oReq' = [oReq EXCEPT ![r] = n]
        BY <1>1, <3>2 DEF OverlayTypes
      <4>3. n \in OverlayRequest /\ n.got = q.got /\ n.pc = "insert" /\ n.need = q.need
        BY <1>1, <4>1 DEF OverlayRequest
      <4> HIDE DEF n
      <4> QED
        BY <4>2, <4>3
    <3> QED
      BY <1>3, <3>1, <3>2 DEF Misses
  <2>2. CASE UNCHANGED oAlloc
    BY <1>1, <2>1, <2>2, RequestMoves DEF OverlayTypes
  <2>3. CASE Inserts(a) /\ oAlloc' = [oAlloc EXCEPT ![a] = Unbound]
    <3>1. a \in PoolAddrs /\ oAlloc[a] = Free
      BY <1>1, <2>3 DEF Inserts
    <3>2. /\ oAlloc' \in [PoolAddrs -> NodeIds \cup {Unbound, Free}]
          /\ oAlloc'[a] = Unbound /\ \A b \in PoolAddrs \ {a} : oAlloc'[b] = oAlloc[b]
      BY <1>1, <2>3, <3>1 DEF OverlayTypes
    <3>3. \A p \in OverlayRequests : \A b \in oReq[p].got : oAlloc'[b] = Unbound
      <4>1. \A p \in OverlayRequests : \A b \in oReq[p].got : b \in PoolAddrs /\ oAlloc[b] = Unbound
        BY DEF OverlayIInv, HeldByRequest, OverlayTypes, OverlayRequest
      <4> QED
        BY <3>2, <4>1
    <3>4. ASSUME NEW n \in Settled PROVE HeldByNode(n) /\ n.ips \subseteq PoolAddrs
      BY <1>1 DEF OverlayIInv, OverlayTypes, Settled, OverlayNode
    <3>5. \A n \in Settled' : HeldByNode(n)'
      <4> SUFFICES ASSUME NEW n \in Settled, NEW b \in n.ips PROVE oAlloc'[b] \in {Unbound, n.id}
        BY <1>1 DEF HeldByNode
      <4> QED
        BY <3>2, <3>4 DEF HeldByNode
    <3>6. \A n \in Settled' : \A b \in n.ips : b \notin new.got
      BY <1>1, <2>1 DEF HeldByRequest
    <3>7. \A p \in OverlayRequests \ {r} : \A b \in oReq[p].got : b \notin new.got /\ oAlloc'[b] = Unbound
      BY <1>1, <2>1, <3>3 DEF HeldApart
    <3>8. \A b \in new.got : oAlloc'[b] = Unbound
      BY <2>1, <3>3
    <3>9. oRow' \in SUBSET OverlayNode /\ oLast' \in [NodeKinds -> Nat] /\ Settled' \subseteq Settled
      BY <1>1 DEF OverlayTypes
    <3> QED
      BY <1>1, <2>1, <3>2, <3>5, <3>6, <3>7, <3>8, <3>9, OverlayMoves
  <2> QED
    BY <1>3, <2>2, <2>3
<1>4. ASSUME NEW a \in Candidates(r), Inserts(a), Gains(r, a)
      PROVE  OverlayIInv'
  <2>1. PICK pc \in {"row", "allocate"} :
          /\ pc = IF Len(q.need) = 1 THEN "row" ELSE "allocate"
          /\ Tail(q.need) \in Seq(FamiliesOfNet)
          /\ pc = "allocate" => Tail(q.need) # << >>
    <3>1. PICK s \in Seq(FamiliesOfNet) : s = q.need /\ s # << >>
      BY <1>1 DEF OverlayRequest
    <3>2. Len(s) \in Nat /\ Len(s) # 0 /\ Tail(s) \in Seq(FamiliesOfNet) /\ Len(Tail(s)) = Len(s) - 1
      BY <3>1
    <3>3. PICK t \in Seq(FamiliesOfNet) : t = Tail(s) /\ Len(t) = Len(s) - 1
      BY <3>2
    <3>4. Len(s) # 1 => Len(t) # 0
      BY <3>2, <3>3
    <3>5. Len(s) # 1 => t # << >>
      BY <3>4
    <3> QED
      BY <3>1, <3>2, <3>3, <3>5
  <2> DEFINE new == [q EXCEPT !.got = @ \cup {a}, !.need = Tail(@), !.seen = {}, !.pc = pc]
  <2>2. oReq' = [oReq EXCEPT ![r] = new]
    BY <1>1, <1>4, <2>1 DEF OverlayTypes, Gains
  <2>3. a \in PoolAddrs /\ oAlloc[a] = Free
    BY <1>1, <1>4 DEF Inserts
  <2>4. pc \in OverlayPcs
    BY DEF OverlayPcs
  <2>5. /\ new \in OverlayRequest /\ new.got = q.got \cup {a} /\ new.pc = pc /\ new.need = Tail(q.need)
    <3>1. q.got \cup {a} \in SUBSET PoolAddrs
      BY <1>1, <2>3 DEF OverlayRequest
    <3> QED
      BY <1>1, <2>1, <2>4, <3>1 DEF OverlayRequest
  <2> HIDE DEF new
  <2>6. /\ oAlloc' \in [PoolAddrs -> NodeIds \cup {Unbound, Free}]
        /\ oAlloc'[a] = Unbound /\ \A b \in PoolAddrs \ {a} : oAlloc'[b] = oAlloc[b]
    BY <1>1, <1>4, <2>3 DEF OverlayTypes, Gains
  <2>7. ASSUME NEW n \in Settled PROVE HeldByNode(n) /\ a \notin n.ips /\ n.ips \subseteq PoolAddrs
    <3>1. HeldByNode(n) /\ n.id \in NodeIds /\ n.ips \subseteq PoolAddrs
      BY <1>1 DEF OverlayIInv, OverlayTypes, Settled, OverlayNode
    <3> QED
      BY <2>3, <3>1, OverlayNumbers DEF HeldByNode, Unbound
  <2>8. \A n \in Settled' : HeldByNode(n)'
    BY <1>1, <2>6, <2>7 DEF HeldByNode
  <2>9. \A n \in Settled' : \A b \in n.ips : b \notin new.got
    BY <1>1, <2>5, <2>7 DEF HeldByRequest
  <2>10. \A p \in OverlayRequests : \A b \in oReq[p].got : b \in PoolAddrs /\ oAlloc[b] = Unbound /\ b # a
    <3> SUFFICES ASSUME NEW p \in OverlayRequests, NEW b \in oReq[p].got
                 PROVE  b \in PoolAddrs /\ oAlloc[b] = Unbound /\ b # a
      OBVIOUS
    <3>1. oReq[p] \in OverlayRequest /\ oAlloc[b] = Unbound
      BY DEF OverlayIInv, HeldByRequest, OverlayTypes
    <3>2. b \in PoolAddrs
      BY <3>1 DEF OverlayRequest
    <3>3. Free # Unbound
      BY OverlayNumbers DEF Unbound
    <3> QED
      BY <2>3, <3>1, <3>2, <3>3
  <2>11. \A b \in new.got : oAlloc'[b] = Unbound
    BY <2>5, <2>6, <2>10
  <2>12. \A p \in OverlayRequests \ {r} : \A b \in oReq[p].got : b \notin new.got /\ oAlloc'[b] = Unbound
    BY <1>1, <2>5, <2>6, <2>10 DEF HeldApart
  <2> QED
    <3>1. oRow' \in SUBSET OverlayNode /\ oLast' \in [NodeKinds -> Nat] /\ Settled' \subseteq Settled
      BY <1>1 DEF OverlayTypes
    <3>2. (new.pc \in {"allocate", "insert"} => new.need # << >>) /\ new.pc # "bind"
      BY <2>1, <2>5
    <3> QED
      BY <2>2, <2>5, <2>6, <2>8, <2>9, <2>11, <2>12, <3>1, <3>2, OverlayMoves
<1>5. \/ Fails(r) /\ UNCHANGED oAlloc
      \/ \E a \in Candidates(r) :
           \/ Inserts(a) /\ Gains(r, a)
           \/ Misses(r, a) /\ UNCHANGED oAlloc
           \/ Misses(r, a) /\ Inserts(a) /\ oAlloc' = [oAlloc EXCEPT ![a] = Unbound]
  BY DEF insertAllocation
<1> QED
  BY <1>2, <1>3, <1>4, <1>5

LEMMA RollbackKeeps ==
  ASSUME OverlayIInv, NEW r \in OverlayRequests, rollbackIPs(r)
  PROVE  OverlayIInv'
<1> DEFINE q == oReq[r]
<1>1. /\ q \in OverlayRequest /\ q.pc = "undo" /\ UNCHANGED << oRow, oLast, oReleased >>
      /\ OverlayTypes /\ HeldApart /\ HeldByRequest(r) /\ Settled' = Settled
  BY DEF OverlayIInv, OverlayTypes, rollbackIPs, Settled
<1>2. CASE oReq' = [oReq EXCEPT ![r] = Resting] /\ UNCHANGED oAlloc
  BY <1>1, <1>2, RestingRequestFits, RequestMoves DEF OverlayTypes
<1>3. ASSUME NEW a \in q.got, oReq' = [oReq EXCEPT ![r].got = @ \ {a}],
             oAlloc' = [oAlloc EXCEPT ![a] = Free] \/ UNCHANGED oAlloc
      PROVE  OverlayIInv'
  <2> DEFINE new == [q EXCEPT !.got = @ \ {a}]
  <2>1. oReq' = [oReq EXCEPT ![r] = new]
    BY <1>1, <1>3 DEF OverlayTypes
  <2>2. new \in OverlayRequest /\ new.got = q.got \ {a} /\ new.pc = "undo" /\ a \in PoolAddrs
    BY <1>1 DEF OverlayRequest
  <2> HIDE DEF new
  <2>3. /\ oAlloc' \in [PoolAddrs -> NodeIds \cup {Unbound, Free}]
        /\ \A b \in PoolAddrs \ {a} : oAlloc'[b] = oAlloc[b]
    BY <1>1, <1>3, <2>2 DEF OverlayTypes
  <2>4. \A p \in OverlayRequests : \A b \in oReq[p].got : b \in PoolAddrs /\ oAlloc[b] = Unbound
    BY DEF OverlayIInv, HeldByRequest, OverlayTypes, OverlayRequest
  <2>5. \A b \in new.got : oAlloc'[b] = Unbound
    BY <2>2, <2>3, <2>4
  <2>6. \A p \in OverlayRequests \ {r} : \A b \in oReq[p].got : b \notin new.got /\ oAlloc'[b] = Unbound
    BY <1>1, <1>3, <2>2, <2>3, <2>4 DEF HeldApart
  <2>7. ASSUME NEW n \in Settled PROVE HeldByNode(n) /\ n.ips \subseteq PoolAddrs /\ \A b \in n.ips : b \notin q.got
    BY <1>1 DEF OverlayIInv, OverlayTypes, Settled, OverlayNode, HeldByRequest
  <2>8. \A n \in Settled' : HeldByNode(n)'
    BY <1>1, <1>3, <2>3, <2>7 DEF HeldByNode
  <2>9. \A n \in Settled' : \A b \in n.ips : b \notin new.got
    BY <1>1, <2>2, <2>7
  <2> QED
    BY <1>1, <2>1, <2>2, <2>3, <2>5, <2>6, <2>8, <2>9, OverlayMoves DEF OverlayTypes
<1> QED
  BY <1>2, <1>3 DEF rollbackIPs

LEMMA CreateNodeKeeps ==
  ASSUME OverlayIInv, NEW r \in OverlayRequests, NEW kind \in NodeKinds, NEW name \in NodeNames,
         NEW ask \in Asks, CreateNode(r, kind, name, ask)
  PROVE  OverlayIInv'
<1> DEFINE new == [Resting EXCEPT !.pc = "allocate", !.kind = kind, !.name = name, !.ask = ask, !.need = Families]
<1>1. oReq' = [oReq EXCEPT ![r] = new] /\ UNCHANGED << oAlloc, oRow, oLast, oReleased >>
  BY DEF CreateNode
<1>2. ask \in SUBSET PoolAddrs /\ "allocate" \in OverlayPcs
  BY OverlayAssumption DEF OverlayPcs
<1>3. new \in OverlayRequest /\ new.got = {} /\ new.pc = "allocate" /\ new.need # << >>
  <2> DEFINE b == Resting
  <2>1. b \in OverlayRequest /\ b.got = {}
    BY RestingRequestFits
  <2> HIDE DEF b
  <2> DEFINE c == [b EXCEPT !.pc = "allocate", !.kind = kind, !.name = name, !.ask = ask, !.need = Families]
  <2>2. c \in OverlayRequest /\ c.got = {} /\ c.pc = "allocate" /\ c.need # << >>
    BY <1>2, <2>1, OverlayFamilies DEF OverlayRequest
  <2> QED
    BY <2>2 DEF b
<1> HIDE DEF new
<1>4. oLast' \in [NodeKinds -> Nat]
  BY <1>1 DEF OverlayIInv, OverlayTypes
<1> QED
  BY <1>1, <1>3, <1>4, RequestMoves

LEMMA InsertNodeKeeps ==
  ASSUME OverlayIInv, NEW r \in OverlayRequests, InsertNode(r)
  PROVE  OverlayIInv'
<1> DEFINE q == oReq[r]
           id == oLast[q.kind] + 1
           n0 == [kind |-> q.kind, id |-> id, name |-> q.name, ips |-> q.got]
<1>1. /\ q \in OverlayRequest /\ q.pc = "row" /\ UNCHANGED oAlloc
      /\ OverlayTypes /\ HeldApart /\ HeldByRequest(r)
  BY DEF OverlayIInv, OverlayTypes, InsertNode
<1> DEFINE Inserted == /\ ~NameTaken(q.kind, q.name) /\ id <= MaxNodes[q.kind]
                       /\ oRow' = oRow \cup {n0} /\ oLast' = [oLast EXCEPT ![q.kind] = id]
           bound == [Resting EXCEPT !.pc = "bind", !.kind = q.kind, !.id = id, !.got = q.got]
<1>2. CASE Fails(r) /\ UNCHANGED << oRow, oLast, oReleased >>
  <2>1. q.pc # "bind" /\ oLast' \in [NodeKinds -> Nat] /\ UNCHANGED << oAlloc, oRow, oReleased >>
    BY <1>1, <1>2 DEF OverlayTypes
  <2> QED
    BY <1>2, <2>1, UndoKeeps
<1>3. CASE Inserted
  <2>1. q.kind \in NodeKinds /\ oLast[q.kind] \in Nat
    BY <1>1 DEF OverlayRequest, OverlayTypes
  <2>2. oLast' \in [NodeKinds -> Nat]
    BY <1>1, <1>3, <2>1 DEF OverlayTypes
  <2>3. PICK i \in NodeIds : i = id
    <3>1. MaxNodes[q.kind] \in Nat
      BY <2>1, OverlayAssumption
    <3>2. oLast[q.kind] < MaxNodes[q.kind]
      BY <1>3, <2>1, <3>1
    <3> QED
      BY <2>1, <3>2, OverlayNumbers
  <2>4. PICK n \in OverlayNode : n = n0 /\ n.id = i /\ n.ips = q.got /\ << n.kind, n.id >> = << q.kind, id >>
    <3> DEFINE m == [kind |-> q.kind, id |-> i, name |-> q.name, ips |-> q.got]
    <3>1. m \in OverlayNode /\ m.id = i /\ m.ips = q.got /\ m.kind = q.kind
      BY <1>1 DEF OverlayNode, OverlayRequest
    <3>2. m = n0
      BY <2>3
    <3> HIDE DEF m, n0
    <3> QED
      BY <2>3, <3>1, <3>2
  <2>5. oRow' = oRow \cup {n} /\ oRow' \in SUBSET OverlayNode
    BY <1>1, <1>3, <2>4 DEF OverlayTypes
  <2> HIDE DEF n0
  <2>6. \A m \in Settled : \A a \in m.ips : a \notin q.got
    BY <1>1 DEF HeldByRequest
  \* The row is there, and its addresses go back all the same.
  <2>7. CASE Fails(r) /\ oReleased' = oReleased \cup {<< q.kind, id >>}
    <3>1. PICK new \in OverlayRequest :
            oReq' = [oReq EXCEPT ![r] = new] /\ new.pc = "undo" /\ new.got = oReq[r].got
      BY <2>7, UndoneRequest
    <3>2. Settled' \subseteq Settled
      BY <2>4, <2>5, <2>7 DEF Settled
    <3>3. \A m \in Settled' : HeldByNode(m)'
      BY <1>1, <3>2 DEF OverlayIInv, HeldByNode
    <3>4. \A p \in OverlayRequests : \A a \in oReq[p].got : oAlloc'[a] = Unbound
      BY <1>1 DEF OverlayIInv, HeldByRequest
    <3>5. \A p \in OverlayRequests \ {r} : \A a \in oReq[p].got : a \notin new.got
      BY <1>1, <3>1 DEF HeldApart
    <3>6. \A m \in Settled' : \A a \in m.ips : a \notin new.got
      BY <2>6, <3>1, <3>2
    <3>7. oAlloc' \in [PoolAddrs -> NodeIds \cup {Unbound, Free}]
      BY <1>1 DEF OverlayTypes
    <3>8. new.pc \notin {"allocate", "insert"} /\ new.pc # "bind"
      BY <3>1
    <3> QED
      BY <2>2, <2>5, <3>1, <3>2, <3>3, <3>4, <3>5, <3>6, <3>7, <3>8, OverlayMoves
  <2>8. CASE oReq' = [oReq EXCEPT ![r] = bound] /\ UNCHANGED oReleased
    <3> DEFINE b == Resting
               new == [b EXCEPT !.pc = "bind", !.kind = q.kind, !.id = i, !.got = q.got]
    <3>1. oReq' = [oReq EXCEPT ![r] = new]
      BY <2>3, <2>8
    <3>2. b \in OverlayRequest
      BY RestingRequestFits
    <3> HIDE DEF b
    <3>3. new \in OverlayRequest /\ new.got = q.got /\ new.pc = "bind" /\ new.id = i
      BY <1>1, <2>1, <3>2 DEF OverlayRequest, OverlayPcs
    <3> HIDE DEF new
    <3>4. Settled' \subseteq Settled \cup {n}
      BY <1>1, <2>5, <2>8 DEF Settled
    <3>5. /\ oReq' \in [OverlayRequests -> OverlayRequest] /\ oReq'[r] = new
          /\ \A p \in OverlayRequests \ {r} : oReq'[p] = oReq[p]
      BY <1>1, <3>1, <3>3 DEF OverlayTypes
    <3>6. OverlayTypes'
      BY <1>1, <2>2, <2>5, <3>5 DEF OverlayTypes
    <3>7. HeldApart'
      <4>1. \A s, p \in OverlayRequests : \A a \in oReq'[s].got : a \in oReq'[p].got => s = p
        BY <1>1, <3>3, <3>5 DEF HeldApart
      <4>2. \A m, k \in Settled \cup {n} : \A a \in m.ips : a \in k.ips => m = k
        BY <1>1, <2>4, <2>6 DEF HeldApart
      <4> QED
        BY <3>4, <4>1, <4>2 DEF HeldApart
    <3>8. ASSUME NEW m \in Settled' PROVE HeldByNode(m)'
      BY <1>1, <2>4, <3>4 DEF HeldByNode, HeldByRequest, OverlayIInv
    <3>9. ASSUME NEW p \in OverlayRequests PROVE HeldByRequest(p)'
      <4>1. CASE p = r
        BY <1>1, <2>4, <2>6, <3>3, <3>4, <3>5, <4>1 DEF HeldByRequest
      <4>2. CASE p # r
        <5>1. HeldByRequest(p) /\ oReq'[p] = oReq[p] /\ \A a \in n.ips : a \notin oReq[p].got
          BY <1>1, <2>4, <3>5, <4>2 DEF OverlayIInv, HeldApart
        <5> QED
          BY <1>1, <3>4, <5>1 DEF HeldByRequest
      <4> QED
        BY <4>1, <4>2
    <3> QED
      BY <3>6, <3>7, <3>8, <3>9 DEF OverlayIInv
  <2>9. \/ Fails(r) /\ oReleased' = oReleased \cup {<< q.kind, id >>}
        \/ oReq' = [oReq EXCEPT ![r] = bound] /\ UNCHANGED oReleased
        \/ Fails(r) /\ UNCHANGED << oRow, oLast, oReleased >>
    BY DEF InsertNode
  <2> QED
    BY <1>2, <2>7, <2>8, <2>9
<1>4. Inserted \/ (Fails(r) /\ UNCHANGED << oRow, oLast, oReleased >>)
  BY DEF InsertNode
<1> QED
  BY <1>2, <1>3, <1>4

LEMMA BindNodeKeeps ==
  ASSUME OverlayIInv, NEW r \in OverlayRequests, BindNode(r)
  PROVE  OverlayIInv'
<1> DEFINE q == oReq[r]
<1>1. /\ q \in OverlayRequest /\ q.pc = "bind" /\ q.id \in NodeIds /\ UNCHANGED << oRow, oLast, oReleased >>
      /\ OverlayTypes /\ HeldApart /\ HeldByRequest(r) /\ Settled' = Settled
  BY DEF OverlayIInv, OverlayTypes, BindNode, Settled, HeldByRequest
<1>2. PICK a \in q.got :
        /\ oAlloc' = [oAlloc EXCEPT ![a] = IF @ = Free THEN @ ELSE q.id] \/ UNCHANGED oAlloc
        /\ oReq' = [oReq EXCEPT ![r] = IF q.got = {a} THEN Resting ELSE [q EXCEPT !.got = @ \ {a}]]
  BY DEF BindNode
<1>3. a \in PoolAddrs /\ oAlloc[a] = Unbound /\ Unbound # Free
  BY <1>1, OverlayNumbers DEF OverlayRequest, HeldByRequest, Unbound
<1>4. /\ oAlloc' \in [PoolAddrs -> NodeIds \cup {Unbound, Free}] /\ oAlloc'[a] \in {q.id, Unbound}
      /\ \A b \in PoolAddrs \ {a} : oAlloc'[b] = oAlloc[b]
  BY <1>1, <1>2, <1>3 DEF OverlayTypes
<1>5. PICK new \in OverlayRequest :
        /\ oReq' = [oReq EXCEPT ![r] = new] /\ new.got = q.got \ {a}
        /\ (new.pc = "bind" /\ new.id = q.id) \/ (new.pc = "idle" /\ new.got = {})
  <2>1. CASE q.got = {a}
    BY <1>1, <1>2, <2>1, RestingRequestFits DEF OverlayTypes
  <2>2. CASE q.got # {a}
    <3> DEFINE n == [q EXCEPT !.got = @ \ {a}]
    <3>1. oReq' = [oReq EXCEPT ![r] = n]
      <4>1. q.got # {a} /\ oReq[r] = q
        BY <2>2
      <4>2. oReq' = [oReq EXCEPT ![r] = IF q.got = {a} THEN Resting ELSE n]
        BY <1>2
      <4> HIDE DEF n
      <4> QED
        BY <4>1, <4>2
    <3>2. n \in OverlayRequest /\ n.got = q.got \ {a} /\ n.pc = "bind" /\ n.id = q.id
      BY <1>1 DEF OverlayRequest
    <3> HIDE DEF n
    <3> QED
      BY <3>1, <3>2
  <2> QED
    BY <2>1, <2>2
<1>6. \A p \in OverlayRequests : \A b \in oReq[p].got : b \in PoolAddrs /\ oAlloc[b] = Unbound
  BY DEF OverlayIInv, HeldByRequest, OverlayTypes, OverlayRequest
<1>7. \A b \in new.got : oAlloc'[b] = Unbound
  BY <1>4, <1>5, <1>6
<1>8. \A p \in OverlayRequests \ {r} : \A b \in oReq[p].got : b \notin new.got /\ oAlloc'[b] = Unbound
  BY <1>1, <1>2, <1>4, <1>5, <1>6 DEF HeldApart
<1>9. ASSUME NEW n \in Settled
      PROVE  /\ HeldByNode(n) /\ n.ips \subseteq PoolAddrs
             /\ \A b \in n.ips : b \in q.got => n.id = q.id
  BY <1>1 DEF OverlayIInv, OverlayTypes, Settled, OverlayNode, HeldByRequest
<1>10. \A n \in Settled' : HeldByNode(n)'
  BY <1>1, <1>2, <1>4, <1>9 DEF HeldByNode
<1>11. \A n \in Settled' : \A b \in n.ips : b \in new.got => new.pc = "bind" /\ n.id = new.id
  BY <1>1, <1>5, <1>9
<1> QED
  BY <1>1, <1>4, <1>5, <1>7, <1>8, <1>10, <1>11, OverlayMoves DEF OverlayTypes

LEMMA DeleteReleasesKeeps ==
  ASSUME OverlayIInv, NEW r \in OverlayRequests, NEW kind \in NodeKinds, NEW id \in NodeIds,
         DeleteReleases(r, kind, id)
  PROVE  OverlayIInv'
<1> DEFINE new == [Resting EXCEPT !.pc = "drop", !.kind = kind, !.id = id]
           addrs == ReleaseNode(kind, id)
<1>1. /\ oReq' = [oReq EXCEPT ![r] = new] /\ UNCHANGED << oRow, oLast >> /\ OverlayTypes
      /\ \/ /\ oAlloc' = [a \in PoolAddrs |-> IF a \in addrs THEN Free ELSE oAlloc[a]]
            /\ oReleased' = oReleased \cup {<< n.kind, n.id >> : n \in Bereft(addrs)
                               \cup {n \in oRow : n.kind = kind /\ n.id = id}}
         \/ UNCHANGED << oAlloc, oReleased >>
  BY DEF DeleteReleases, OverlayIInv
<1>2. new \in OverlayRequest /\ new.got = {} /\ new.pc = "drop"
  <2> DEFINE b == Resting
  <2>1. b \in OverlayRequest /\ b.got = {}
    BY RestingRequestFits
  <2> HIDE DEF b
  <2> DEFINE c == [b EXCEPT !.pc = "drop", !.kind = kind, !.id = id]
  <2>2. c \in OverlayRequest /\ c.got = {} /\ c.pc = "drop"
    BY <2>1 DEF OverlayRequest, OverlayPcs
  <2> QED
    BY <2>2 DEF b
<1> HIDE DEF new
<1>3. oAlloc' \in [PoolAddrs -> NodeIds \cup {Unbound, Free}]
  BY <1>1 DEF OverlayTypes
<1>4. ASSUME NEW n \in Settled' PROVE n \in Settled /\ HeldByNode(n) /\ \A a \in n.ips : a \in PoolAddrs /\ oAlloc'[a] = oAlloc[a]
  <2>1. n \in oRow /\ << n.kind, n.id >> \notin oReleased /\ (n \notin Bereft(addrs) \/ UNCHANGED oAlloc)
    BY <1>1 DEF Settled
  <2>2. n \in Settled /\ HeldByNode(n) /\ n \in OverlayNode
    BY <1>1, <2>1 DEF Settled, OverlayIInv, OverlayTypes
  <2>3. \A a \in n.ips : a \in PoolAddrs /\ (a \notin addrs \/ UNCHANGED oAlloc)
    BY <2>1, <2>2 DEF Bereft, OverlayNode
  <2> QED
    BY <1>1, <2>2, <2>3
<1>5. \A p \in OverlayRequests : \A b \in oReq[p].got : b \in PoolAddrs /\ oAlloc[b] = Unbound
  BY DEF OverlayIInv, HeldByRequest, OverlayTypes, OverlayRequest
<1>6. \A p \in OverlayRequests : \A b \in oReq[p].got : oAlloc'[b] = Unbound
  <2>1. \A a \in addrs : oAlloc[a] # Unbound
    BY OverlayNumbers DEF ReleaseNode, Unbound
  <2> QED
    BY <1>1, <1>5, <2>1
<1>7. \A n \in Settled' : HeldByNode(n)'
  BY <1>4 DEF HeldByNode
<1> QED
  BY <1>1, <1>2, <1>3, <1>4, <1>6, <1>7, OverlayMoves DEF OverlayTypes

LEMMA DeleteRowKeeps ==
  ASSUME OverlayIInv, NEW r \in OverlayRequests, DeleteRow(r)
  PROVE  OverlayIInv'
<1>1. /\ oReq' = [oReq EXCEPT ![r] = Resting] /\ UNCHANGED << oAlloc, oLast >> /\ OverlayTypes
      /\ oRow' = {n \in oRow : << n.kind, n.id >> # << oReq[r].kind, oReq[r].id >>}
      /\ oReleased' = oReleased \ {<< oReq[r].kind, oReq[r].id >>}
  BY DEF DeleteRow, OverlayIInv
<1>2. Settled' \subseteq Settled /\ oRow' \subseteq oRow
  BY <1>1 DEF Settled
<1>3. \A n \in Settled' : HeldByNode(n)'
  BY <1>1, <1>2 DEF OverlayIInv, HeldByNode
<1>4. \A p \in OverlayRequests : \A b \in oReq[p].got : oAlloc'[b] = Unbound
  BY <1>1 DEF OverlayIInv, HeldByRequest
<1> QED
  BY <1>1, <1>2, <1>3, <1>4, RestingRequestFits, OverlayMoves DEF OverlayTypes

LEMMA OverlayKeeps ==
  ASSUME OverlayIInv, OverlayNext
  PROVE  OverlayIInv'
<1>1. ASSUME NEW r \in OverlayRequests, RequestCutOff(r) PROVE OverlayIInv'
  <2>1. /\ oReq' = [oReq EXCEPT ![r] = Resting] /\ UNCHANGED << oAlloc, oRow, oReleased >>
        /\ oLast' \in [NodeKinds -> Nat]
    BY <1>1 DEF RequestCutOff, OverlayIInv, OverlayTypes
  <2> QED
    BY <2>1, RestingRequestFits, RequestMoves
<1>2. ASSUME NEW r \in OverlayRequests, NEW x \in NodeNames, NEW a \in Asks,
             CreateClient(r, x, a) \/ CreateServerNode(r, x, a)
      PROVE  OverlayIInv'
  BY <1>2, CreateNodeKeeps DEF CreateClient, CreateServerNode, NodeKinds
<1>3. ASSUME NEW r \in OverlayRequests, NEW i \in NodeIds, DeleteClient(r, i) \/ DeleteServerNode(r, i)
      PROVE  OverlayIInv'
  BY <1>3, DeleteReleasesKeeps DEF DeleteClient, DeleteServerNode, NodeKinds
<1> QED
  BY <1>1, <1>2, <1>3, AllocateKeeps, InsertAllocationKeeps, RollbackKeeps, InsertNodeKeeps, BindNodeKeeps,
     DeleteRowKeeps DEF OverlayNext

LEMMA OverlayStays ==
  ASSUME OverlayIInv, UNCHANGED oVars
  PROVE  OverlayIInv'
BY DEF OverlayIInv, oVars, OverlayTypes, HeldApart, HeldByRequest, HeldByNode, Settled

LEMMA OverlaySound == OverlayIInv => OverlayInv
<1> SUFFICES ASSUME OverlayIInv PROVE OverlayInv
  OBVIOUS
<1>1. \A n \in Settled : \A a \in n.ips : oAlloc[a] \in {Unbound, n.id}
  BY DEF OverlayIInv, HeldByNode
<1>2. ASSUME NEW n \in Settled, NEW k \in Settled, n # k
      PROVE  /\ n.ips \cap k.ips = {}
             /\ \A a \in n.ips \cap Canonical, b \in k.ips \cap Canonical : AddrOf[a] # AddrOf[b]
  BY <1>2 DEF OverlayIInv, HeldApart, Canonical
<1>3. ASSUME NEW r \in OverlayRequests, Gathering(r)
      PROVE  /\ \A a \in oReq[r].got : oAlloc[a] = Unbound
             /\ \A n \in Settled : oReq[r].got \cap n.ips = {}
  <2>1. HeldByRequest(r) /\ oReq[r].pc # "bind"
    BY <1>3 DEF OverlayIInv, Gathering
  <2> QED
    BY <2>1 DEF HeldByRequest
<1> QED
  BY <1>1, <1>2, <1>3 DEF OverlayInv
-----------------------------------------------------------------------------
(* Enrolment of clients *)

Registrations ==
  [pc : {"idle"}] \cup [pc : {"write"}, id : OverlayClients, token : Nat]
    \cup [pc : {"answer"}, id : OverlayClients, token : Nat, secret : Nat]

EnrolTypes ==
  /\ nRow \in [OverlayClients -> [token : Nat, secret : Nat, left : BOOLEAN]]
  /\ nTokens \in Seq(OverlayClients) /\ nSecrets \in Nat
  /\ nReg \in [Machines -> Registrations]
  /\ nState \in [Machines -> [id : OverlayClients \cup {"none"}, secret : Nat]]
  /\ \A m \in Machines : nState[m] # NoState => nState[m].id \in OverlayClients
  /\ nSpent \subseteq 1 .. Len(nTokens)
  /\ nSeen \subseteq Machines \X Nat

\* The token of a row was made for its client, and nobody has spent it.
RowTokensFit ==
  \A c \in OverlayClients : nRow[c].token # 0 =>
    nRow[c].token \in 1 .. Len(nTokens) /\ nTokens[nRow[c].token] = c /\ nRow[c].token \notin nSpent

\* A registration under way has read the row of its token before it was spent.
ReadersFit ==
  \A m \in Machines : nReg[m].pc \in {"write", "answer"} =>
    /\ nReg[m].token \in 1 .. Len(nTokens) /\ nTokens[nReg[m].token] = nReg[m].id
    /\ << m, nReg[m].token >> \in nReaders

\* The machine a secret was made for.
HasSecret(m, s) ==
  \/ nReg[m].pc = "answer" /\ nReg[m].secret = s
  \/ nState[m] # NoState /\ nState[m].secret = s
  \/ << m, s >> \in nSeen

SecretsFit ==
  /\ \A m \in Machines : \A s \in Nat : HasSecret(m, s) => s <= nSecrets
  /\ \A m, k \in Machines : \A s \in Nat : HasSecret(m, s) /\ HasSecret(k, s) => m = k

EnrolIInv == EnrolTypes /\ RowTokensFit /\ ReadersFit /\ SecretsFit

LEMMA EnrolFromTheStart == EnrolInit => EnrolIInv
<1> SUFFICES ASSUME EnrolInit PROVE EnrolIInv
  OBVIOUS
<1>1. EnrolTypes
  BY DEF EnrolInit, EnrolTypes, Registrations, NoState, NoSecret
<1>2. RowTokensFit /\ ReadersFit /\ SecretsFit
  BY DEF EnrolInit, RowTokensFit, ReadersFit, SecretsFit, HasSecret
<1> QED
  BY <1>1, <1>2 DEF EnrolIInv

LEMMA EnrollTokenKeeps ==
  ASSUME EnrolIInv, NEW c \in OverlayClients, ClientEnrollToken(c)
  PROVE  EnrolIInv'
<1> DEFINE t == Len(nTokens) + 1
<1>1. /\ nTokens' = Append(nTokens, c) /\ nRow' = [nRow EXCEPT ![c].token = t]
      /\ UNCHANGED << nSecrets, nReg, nState, nSpent, nReaders, nSeen >>
  BY DEF ClientEnrollToken
<1>2. nTokens \in Seq(OverlayClients) /\ Len(nTokens) \in Nat
  BY DEF EnrolIInv, EnrolTypes
<1>3. /\ nTokens' \in Seq(OverlayClients) /\ Len(nTokens') = t /\ t \in Nat /\ t # 0 /\ nTokens'[t] = c
      /\ \A i \in 1 .. Len(nTokens) : i \in 1 .. t /\ i # t /\ nTokens'[i] = nTokens[i]
  BY <1>1, <1>2
<1>4. /\ nRow' \in [OverlayClients -> [token : Nat, secret : Nat, left : BOOLEAN]]
      /\ nRow'[c].token = t /\ \A d \in OverlayClients \ {c} : nRow'[d] = nRow[d]
  BY <1>1, <1>3 DEF EnrolIInv, EnrolTypes
<1> HIDE DEF t
<1>5. EnrolTypes'
  BY <1>1, <1>3, <1>4 DEF EnrolIInv, EnrolTypes
<1>6. RowTokensFit'
  <2> SUFFICES ASSUME NEW d \in OverlayClients, nRow'[d].token # 0
               PROVE  /\ nRow'[d].token \in 1 .. Len(nTokens') /\ nTokens'[nRow'[d].token] = d
                      /\ nRow'[d].token \notin nSpent'
    BY DEF RowTokensFit
  <2>1. t \in 1 .. t /\ t \notin nSpent
    BY <1>3 DEF EnrolIInv, EnrolTypes
  <2>2. CASE d = c
    BY <1>1, <1>3, <1>4, <2>1, <2>2
  <2>3. CASE d # c
    BY <1>1, <1>3, <1>4, <2>3 DEF EnrolIInv, RowTokensFit
  <2> QED
    BY <2>2, <2>3
<1>7. ReadersFit'
  BY <1>1, <1>3 DEF EnrolIInv, ReadersFit
<1>8. SecretsFit'
  BY <1>1 DEF EnrolIInv, SecretsFit, HasSecret
<1> QED
  BY <1>5, <1>6, <1>7, <1>8 DEF EnrolIInv

LEMMA RegisterReadsKeeps ==
  ASSUME EnrolIInv, NEW m \in Machines, NEW t \in DOMAIN nTokens, TunnelAgentRegister(m, t)
  PROVE  EnrolIInv'
<1>1. PICK c \in RowOfToken(t) : nReg' = [nReg EXCEPT ![m] = [pc |-> "write", id |-> c, token |-> t]]
  BY DEF TunnelAgentRegister
<1>2. /\ UNCHANGED << nRow, nTokens, nSecrets, nState, nSpent, nSeen >>
      /\ nReaders' = IF t \in nSpent THEN nReaders ELSE nReaders \cup {<< m, t >>}
  BY DEF TunnelAgentRegister
<1>3. t \in Nat /\ t # 0 /\ t \in 1 .. Len(nTokens)
  BY DEF EnrolIInv, EnrolTypes
<1>4. c \in OverlayClients /\ nTokens[t] = c /\ t \notin nSpent
  BY <1>3 DEF RowOfToken, EnrolIInv, RowTokensFit
<1>5. << m, t >> \in nReaders' /\ nReaders \subseteq nReaders'
  BY <1>2, <1>4
<1> DEFINE new == [pc |-> "write", id |-> c, token |-> t]
<1>6. new \in Registrations /\ new.pc = "write" /\ new.id = c /\ new.token = t
  BY <1>3, <1>4 DEF Registrations
<1> HIDE DEF new
<1>7. /\ nReg' \in [Machines -> Registrations] /\ nReg'[m] = new
      /\ \A k \in Machines \ {m} : nReg'[k] = nReg[k]
  BY <1>1, <1>6 DEF EnrolIInv, EnrolTypes, new
<1>8. EnrolTypes' /\ RowTokensFit'
  BY <1>2, <1>7 DEF EnrolIInv, EnrolTypes, RowTokensFit
<1>9. ReadersFit'
  BY <1>2, <1>3, <1>4, <1>5, <1>6, <1>7 DEF EnrolIInv, ReadersFit
<1>10. \A k \in Machines : \A s \in Nat : HasSecret(k, s)' => HasSecret(k, s)
  BY <1>2, <1>6, <1>7 DEF HasSecret
<1>11. SecretsFit'
  BY <1>2, <1>10 DEF EnrolIInv, SecretsFit
<1> QED
  BY <1>8, <1>9, <1>11 DEF EnrolIInv

LEMMA RegisterWritesKeeps ==
  ASSUME EnrolIInv, NEW m \in Machines, RegisterWrites(m)
  PROVE  EnrolIInv'
<1> DEFINE s == nSecrets + 1
           r == nReg[m]
<1>1. /\ UNCHANGED << nTokens, nState, nReaders, nSeen >> /\ nSecrets' = s
      /\ s \in Nat /\ nSecrets <= s /\ ~(s <= nSecrets)
  BY DEF RegisterWrites, EnrolIInv, EnrolTypes
<1>2. /\ r.pc = "write" /\ r.id \in OverlayClients /\ r.token \in Nat
      /\ r.token \in 1 .. Len(nTokens) /\ nTokens[r.token] = r.id /\ << m, r.token >> \in nReaders
  <2>1. r.pc = "write" /\ r \in Registrations
    BY DEF RegisterWrites, EnrolIInv, EnrolTypes
  <2> QED
    BY <2>1 DEF EnrolIInv, ReadersFit, Registrations
<1>3. CASE nRow[r.id].left
  <2> DEFINE row == Registered(nRow[r.id], s)
             new == [pc |-> "answer", id |-> r.id, token |-> r.token, secret |-> s]
  <2>1. /\ nRow' = [nRow EXCEPT ![r.id] = row] /\ nReg' = [nReg EXCEPT ![m] = new]
        /\ nSpent' = nSpent \cup {r.token}
    BY <1>3 DEF RegisterWrites
  <2>2. row \in [token : Nat, secret : Nat, left : BOOLEAN] /\ row.token = 0
    BY <1>1, <1>2 DEF EnrolIInv, EnrolTypes, Registered
  <2>3. /\ new \in Registrations /\ new.pc = "answer" /\ new.id = r.id /\ new.token = r.token
        /\ new.secret = s
    BY <1>1, <1>2 DEF Registrations
  <2> HIDE DEF row, new, s
  <2>4. /\ nReg' \in [Machines -> Registrations] /\ nReg'[m] = new
        /\ \A k \in Machines \ {m} : nReg'[k] = nReg[k]
    BY <2>1, <2>3 DEF EnrolIInv, EnrolTypes
  <2>5. /\ nRow' \in [OverlayClients -> [token : Nat, secret : Nat, left : BOOLEAN]]
        /\ nRow'[r.id].token = 0 /\ \A d \in OverlayClients \ {r.id} : nRow'[d] = nRow[d]
    BY <1>2, <2>1, <2>2 DEF EnrolIInv, EnrolTypes
  <2>6. EnrolTypes'
    BY <1>1, <1>2, <2>1, <2>4, <2>5 DEF EnrolIInv, EnrolTypes
  <2>7. RowTokensFit'
    BY <1>1, <1>2, <2>1, <2>5 DEF EnrolIInv, RowTokensFit
  <2>8. ReadersFit'
    BY <1>1, <1>2, <2>3, <2>4 DEF EnrolIInv, ReadersFit
  <2>9. SecretsFit'
    <3>1. ASSUME NEW k \in Machines, NEW x \in Nat, HasSecret(k, x)'
          PROVE  HasSecret(k, x) \/ (k = m /\ x = s)
      BY <1>1, <2>3, <2>4, <3>1 DEF HasSecret
    <3> QED
      BY <1>1, <3>1 DEF EnrolIInv, EnrolTypes, SecretsFit
  <2> QED
    BY <2>6, <2>7, <2>8, <2>9 DEF EnrolIInv
<1>4. CASE ~nRow[r.id].left
  <2> DEFINE new == [pc |-> "idle"]
  <2>1. nReg' = [nReg EXCEPT ![m] = new] /\ UNCHANGED << nRow, nSpent >>
    BY <1>4 DEF RegisterWrites
  <2>2. new \in Registrations /\ new.pc = "idle"
    BY DEF Registrations
  <2> HIDE DEF new, s
  <2>3. /\ nReg' \in [Machines -> Registrations] /\ nReg'[m] = new
        /\ \A k \in Machines \ {m} : nReg'[k] = nReg[k]
    BY <2>1, <2>2 DEF EnrolIInv, EnrolTypes
  <2>4. EnrolTypes' /\ RowTokensFit'
    BY <1>1, <2>1, <2>3 DEF EnrolIInv, EnrolTypes, RowTokensFit
  <2>5. ReadersFit'
    BY <1>1, <2>2, <2>3 DEF EnrolIInv, ReadersFit
  <2>6. SecretsFit'
    <3>1. \A k \in Machines : \A x \in Nat : HasSecret(k, x)' => HasSecret(k, x)
      BY <1>1, <2>2, <2>3 DEF HasSecret
    <3> QED
      BY <1>1, <3>1 DEF EnrolIInv, EnrolTypes, SecretsFit
  <2> QED
    BY <2>4, <2>5, <2>6 DEF EnrolIInv
<1> QED
  BY <1>3, <1>4

\* A registration that ends, with the state it leaves behind.
LEMMA RegistrationEnds ==
  ASSUME EnrolIInv, NEW m \in Machines, NEW st \in [id : OverlayClients, secret : Nat],
         nReg[m].pc = "answer", st.secret = nReg[m].secret,
         nState' = [nState EXCEPT ![m] = st] \/ UNCHANGED nState,
         nReg' = [nReg EXCEPT ![m] = [pc |-> "idle"]],
         UNCHANGED << nRow, nTokens, nSecrets, nSpent, nReaders, nSeen >>
  PROVE  EnrolIInv'
<1> DEFINE new == [pc |-> "idle"]
<1>1. new \in Registrations /\ new.pc = "idle"
  BY DEF Registrations
<1>2. nReg' = [nReg EXCEPT ![m] = new]
  OBVIOUS
<1> HIDE DEF new
<1>3. /\ nReg' \in [Machines -> Registrations] /\ nReg'[m] = new
      /\ \A k \in Machines \ {m} : nReg'[k] = nReg[k]
  BY <1>1, <1>2 DEF EnrolIInv, EnrolTypes
<1>4. /\ nState' \in [Machines -> [id : OverlayClients \cup {"none"}, secret : Nat]]
      /\ nState'[m] = st \/ nState'[m] = nState[m]
      /\ \A k \in Machines \ {m} : nState'[k] = nState[k]
  <2>1. nState \in [Machines -> [id : OverlayClients \cup {"none"}, secret : Nat]]
    BY DEF EnrolIInv, EnrolTypes
  <2>2. st \in [id : OverlayClients \cup {"none"}, secret : Nat]
    OBVIOUS
  <2>3. CASE nState' = [nState EXCEPT ![m] = st]
    BY <2>1, <2>2, <2>3
  <2>4. CASE UNCHANGED nState
    BY <2>1, <2>4
  <2> QED
    BY <2>3, <2>4
<1>5. EnrolTypes'
  BY <1>3, <1>4 DEF EnrolIInv, EnrolTypes
<1>6. RowTokensFit' /\ ReadersFit'
  BY <1>1, <1>3 DEF EnrolIInv, RowTokensFit, ReadersFit
<1>7. \A k \in Machines : \A s \in Nat : HasSecret(k, s)' => HasSecret(k, s)
  BY <1>1, <1>3, <1>4 DEF HasSecret
<1>8. SecretsFit'
  BY <1>7 DEF EnrolIInv, SecretsFit
<1> QED
  BY <1>5, <1>6, <1>8 DEF EnrolIInv

LEMMA EnrolKeeps ==
  ASSUME EnrolIInv, EnrolNext
  PROVE  EnrolIInv'
<1>1. ASSUME NEW m \in Machines, Enrols(m) \/ EnrolFails(m) PROVE EnrolIInv'
  <2> DEFINE st == [id |-> nReg[m].id, secret |-> nReg[m].secret]
  <2>1. nReg[m].pc = "answer" /\ nReg[m] \in Registrations
    BY <1>1 DEF Enrols, EnrolFails, EnrolIInv, EnrolTypes
  <2>2. st \in [id : OverlayClients, secret : Nat] /\ st.secret = nReg[m].secret
    BY <2>1 DEF Registrations
  <2>3. /\ nState' = [nState EXCEPT ![m] = st] \/ UNCHANGED nState
        /\ nReg' = [nReg EXCEPT ![m] = [pc |-> "idle"]]
        /\ UNCHANGED << nRow, nTokens, nSecrets, nSpent, nReaders, nSeen >>
    BY <1>1 DEF Enrols, EnrolFails
  <2> HIDE DEF st
  <2> QED
    BY <2>1, <2>2, <2>3, RegistrationEnds
<1>2. ASSUME NEW m \in Machines, SeenAlive(m) PROVE EnrolIInv'
  <2>1. /\ nState[m] # NoState /\ nSeen' = nSeen \cup {<< m, nState[m].secret >>}
        /\ UNCHANGED << nRow, nTokens, nSecrets, nReg, nState, nSpent, nReaders >>
    BY <1>2 DEF SeenAlive, tunnelAgentClient
  <2>2. nState[m].secret \in Nat
    BY DEF EnrolIInv, EnrolTypes
  <2>3. EnrolTypes' /\ RowTokensFit' /\ ReadersFit'
    BY <2>1, <2>2 DEF EnrolIInv, EnrolTypes, RowTokensFit, ReadersFit
  <2>4. \A k \in Machines : \A s \in Nat : HasSecret(k, s)' => HasSecret(k, s)
    BY <2>1 DEF HasSecret
  <2> QED
    BY <2>1, <2>3, <2>4 DEF EnrolIInv, SecretsFit
<1>3. ASSUME NEW c \in OverlayClients, ClientGone(c) PROVE EnrolIInv'
  <2>1. /\ nRow' = [nRow EXCEPT ![c].left = FALSE]
        /\ UNCHANGED << nTokens, nSecrets, nReg, nState, nSpent, nReaders, nSeen >>
    BY <1>3 DEF ClientGone
  <2>2. /\ nRow' \in [OverlayClients -> [token : Nat, secret : Nat, left : BOOLEAN]]
        /\ \A d \in OverlayClients : nRow'[d].token = nRow[d].token /\ nRow'[d].secret = nRow[d].secret
    BY <2>1 DEF EnrolIInv, EnrolTypes
  <2>3. EnrolTypes'
    BY <2>1, <2>2 DEF EnrolIInv, EnrolTypes
  <2>4. RowTokensFit' /\ ReadersFit'
    BY <2>1, <2>2 DEF EnrolIInv, RowTokensFit, ReadersFit
  <2>5. SecretsFit'
    BY <2>1 DEF EnrolIInv, SecretsFit, HasSecret
  <2> QED
    BY <2>3, <2>4, <2>5 DEF EnrolIInv
<1> QED
  BY <1>1, <1>2, <1>3, EnrollTokenKeeps, RegisterReadsKeeps, RegisterWritesKeeps DEF EnrolNext

LEMMA EnrolStays ==
  ASSUME EnrolIInv, UNCHANGED nVars
  PROVE  EnrolIInv'
BY DEF EnrolIInv, nVars, EnrolTypes, RowTokensFit, ReadersFit, SecretsFit, HasSecret

LEMMA EnrolSound == EnrolIInv => TokensSpent
<1> SUFFICES ASSUME EnrolIInv PROVE TokensSpent
  OBVIOUS
<1>1. ASSUME NEW m \in Machines, NEW k \in Machines, m # k, tunnelAgentClient(m), tunnelAgentClient(k)
      PROVE  nState[m].id # nState[k].id
  <2>1. nState[m].secret \in Nat /\ nState[k].secret \in Nat
    BY DEF EnrolIInv, EnrolTypes
  <2>2. nState[m].secret # nState[k].secret
    BY <1>1, <2>1 DEF EnrolIInv, SecretsFit, HasSecret, tunnelAgentClient
  <2> QED
    BY <1>1, <2>2 DEF tunnelAgentClient
<1>2. ASSUME NEW x \in nSeen, NEW y \in nSeen, x[2] = y[2] PROVE x = y
  <2>1. x \in Machines \X Nat /\ y \in Machines \X Nat
    BY DEF EnrolIInv, EnrolTypes
  <2>2. x = << x[1], x[2] >> /\ y = << y[1], y[2] >>
    BY <2>1
  <2>3. HasSecret(x[1], x[2]) /\ HasSecret(y[1], x[2])
    BY <1>2, <2>2 DEF HasSecret
  <2>4. x[1] = y[1]
    BY <2>1, <2>3 DEF EnrolIInv, SecretsFit
  <2> QED
    BY <1>2, <2>2, <2>4
<1> QED
  BY <1>1, <1>2 DEF TokensSpent, EnrolIInv, ReadersFit
-----------------------------------------------------------------------------
(* The client of the overlay *)

KnownRoutes == UNION RouteSets
ClientFiles == [cert : Nat, block : SUBSET Fingerprints, routes : SUBSET KnownRoutes]
BundleSteps == {"content", "routes", "apply", "save"}
RouteManager ==
  [specs : SUBSET KnownRoutes, eff : SUBSET (KnownRoutes \X SUBSET Gateways), hash : BOOLEAN,
   pc : {"idle", "read", "reload"}, base : ClientFiles]

ClientTypes ==
  /\ mRow \in [rev : Nat, cert : Nat]
  /\ mRevoked \in SUBSET Fingerprints
  /\ mRoutes \in RouteSets
  /\ mOwed \in SUBSET [cert : Nat, block : SUBSET Fingerprints]
  /\ mBumped \in [cert : Nat, block : SUBSET Fingerprints]
  /\ mRev \in Nat
  /\ mDisk \in [rev : Nat, files : ClientFiles]
  /\ mLoad \in [Loaders -> [pc : {"none"} \cup BundleSteps, rev : Nat, files : ClientFiles]]
  /\ mMain \in {"down", "starting", "open", "idle", "loading", "reload"}
  /\ mHealth \in [Gateways -> BOOLEAN]
  /\ mManager \in RouteManager

\* What is counted up, or owed, has been written.
WrittenFirst ==
  /\ mBumped.cert <= mRow.cert /\ mBumped.block \subseteq mRevoked
  /\ \A o \in mOwed : o.cert <= mRow.cert /\ o.block \subseteq mRevoked

\* A revision that is not the server's, or files that lack nothing counted up.
RevisionFits(rev, cert, block) ==
  /\ rev <= mRow.rev
  /\ rev = mRow.rev => mBumped.cert <= cert /\ mBumped.block \subseteq block

DiskFits(rev) == RevisionFits(rev, mDisk.files.cert, mDisk.files.block)

\* The bundle under way is not older than what the client has, and tells as
\* much as its revision, but for the revocations that are still to be read.
BundleFits(l) ==
  LET b == mLoad[l]
  IN  b.pc \in BundleSteps =>
        /\ mRev <= b.rev /\ mDisk.rev <= b.rev
        /\ RevisionFits(b.rev, b.files.cert, IF b.pc = "content" THEN mRevoked ELSE b.files.block)
        /\ b.pc = "save" => mDisk.files = b.files

Alone == \A l, k \in Loaders : mLoad[l].pc \in BundleSteps /\ mLoad[k].pc \in BundleSteps => l = k

ManagerFits == mManager.hash => mManager.eff = EffectiveUnsafeRoutes(mManager.specs, mHealth)

ClientBase == ClientTypes /\ WrittenFirst /\ ManagerFits

\* As long as no fetch has begun within another.
FetchesFit ==
  Alone /\ (\A l \in Loaders : BundleFits(l)) /\ DiskFits(mRev) /\ DiskFits(mDisk.rev)

ClientIInv == ClientBase /\ (mMet = {} => FetchesFit)

LEMMA NoFilesTyped ==
  /\ NoFiles \in ClientFiles /\ NoFiles.cert = 0 /\ NoFiles.block = {}
  /\ \A s \in RouteSets : [NoFiles EXCEPT !.routes = s] \in ClientFiles
  /\ \A n \in Nat : [NoFiles EXCEPT !.cert = n] \in ClientFiles /\ [NoFiles EXCEPT !.cert = n].cert = n
BY DEF NoFiles, ClientFiles, KnownRoutes

LEMMA NoManagerTyped ==
  /\ NoManager \in RouteManager /\ NoManager.hash = FALSE
  /\ \A s \in SUBSET KnownRoutes :
       [NoManager EXCEPT !.specs = s] \in RouteManager /\ [NoManager EXCEPT !.specs = s].hash = FALSE
BY NoFilesTyped DEF NoManager, RouteManager

\* What works is a part of the routes that were read.
LEMMA EffectiveTyped ==
  ASSUME NEW specs \in SUBSET KnownRoutes, NEW h \in [Gateways -> BOOLEAN]
  PROVE  EffectiveUnsafeRoutes(specs, h) \in SUBSET (KnownRoutes \X SUBSET Gateways)
<1> SUFFICES ASSUME NEW x \in EffectiveUnsafeRoutes(specs, h) PROVE x \in KnownRoutes \X SUBSET Gateways
  OBVIOUS
<1>1. PICK t \in specs : x = << t, IF healthyGateways(t, h) = {} THEN DOMAIN t.prio ELSE healthyGateways(t, h) >>
  BY DEF EffectiveUnsafeRoutes
<1>2. DOMAIN t.prio \subseteq Gateways
  BY MeshAssumption DEF KnownRoutes
<1>3. healthyGateways(t, h) \subseteq DOMAIN t.prio
  BY DEF healthyGateways, Working
<1> QED
  BY <1>1, <1>2, <1>3

LEMMA ClientFromTheStart == MeshInit => ClientIInv
<1> SUFFICES ASSUME MeshInit PROVE ClientIInv
  OBVIOUS
<1>1. mDisk = [rev |-> 0, files |-> [NoFiles EXCEPT !.routes = mRoutes]] /\ mRoutes \in RouteSets
  BY DEF MeshInit
<1>2. mDisk \in [rev : Nat, files : ClientFiles] /\ mDisk.rev = 0
  BY <1>1, NoFilesTyped
<1>3. mLoad \in [Loaders -> [pc : {"none"} \cup BundleSteps, rev : Nat, files : ClientFiles]]
      /\ \A l \in Loaders : mLoad[l].pc = "none"
  BY NoFilesTyped, MeshAssumption DEF MeshInit, NoBundle
<1>4. ClientTypes
  BY <1>1, <1>2, <1>3, NoManagerTyped DEF MeshInit, ClientTypes
<1>5. WrittenFirst
  BY DEF MeshInit, WrittenFirst
<1>6. mDisk.files.cert \in Nat
  BY <1>2 DEF ClientFiles
<1>7. DiskFits(mRev) /\ DiskFits(mDisk.rev)
  BY <1>2, <1>6 DEF MeshInit, DiskFits, RevisionFits
<1>8. Alone /\ \A l \in Loaders : BundleFits(l)
  BY <1>3 DEF Alone, BundleFits, BundleSteps
<1>9. ManagerFits
  BY DEF MeshInit, NoManager, ManagerFits
<1> QED
  BY <1>4, <1>5, <1>7, <1>8, <1>9 DEF ClientIInv, ClientBase, FetchesFit

LEMMA NoBundleTyped ==
  NoBundle \in [pc : {"none"} \cup BundleSteps, rev : Nat, files : ClientFiles] /\ NoBundle.pc \notin BundleSteps
BY NoFilesTyped DEF NoBundle, BundleSteps

LEMMA BundleTyped ==
  ASSUME ClientBase, NEW l \in Loaders
  PROVE  /\ mLoad[l] \in [pc : {"none"} \cup BundleSteps, rev : Nat, files : ClientFiles]
         /\ mDisk \in [rev : Nat, files : ClientFiles] /\ mDisk.rev \in Nat /\ mDisk.files \in ClientFiles
         /\ mLoad[l].rev \in Nat /\ mLoad[l].files \in ClientFiles
BY DEF ClientBase, ClientTypes

\* What the server does leaves the client alone.  The rows that it counts up fit
\* nothing the client has yet.
ServerStep ==
  RenewCert \/ (\E f \in Fingerprints : RevokeCert(f)) \/ (\E o \in mOwed : bumpConfigRev(o))
    \/ (\E s \in RouteSets : RoutesChange(s))

LEMMA CountedUp ==
  ASSUME ClientBase, NEW o \in mOwed, bumpConfigRev(o)
  PROVE  /\ mOwed' = mOwed \ {o} /\ UNCHANGED << mRevoked, mRoutes >>
         /\ mRow' \in [rev : Nat, cert : Nat] /\ mRow'.rev = mRow.rev + 1 /\ mRow'.cert = mRow.cert
         /\ mBumped' \in [cert : Nat, block : SUBSET Fingerprints]
         /\ mBumped'.cert <= mRow'.cert /\ mBumped'.block \subseteq mRevoked'
<1>1. mRow \in [rev : Nat, cert : Nat] /\ mBumped \in [cert : Nat, block : SUBSET Fingerprints]
  BY DEF ClientBase, ClientTypes
<1>2. /\ mOwed' = mOwed \ {o} /\ mRow' = [mRow EXCEPT !.rev = @ + 1] /\ UNCHANGED << mRevoked, mRoutes >>
      /\ mBumped' = [cert |-> Max({mBumped.cert, o.cert}), block |-> mBumped.block \cup o.block]
  BY DEF bumpConfigRev
<1>3. mRow' \in [rev : Nat, cert : Nat] /\ mRow'.rev = mRow.rev + 1 /\ mRow'.cert = mRow.cert
  BY <1>1, <1>2
<1>4. o.cert \in Nat /\ o.block \in SUBSET Fingerprints /\ o.cert <= mRow.cert /\ o.block \subseteq mRevoked
  BY DEF ClientBase, ClientTypes, WrittenFirst
<1>5. Max({mBumped.cert, o.cert}) \in {mBumped.cert, o.cert}
  <2> DEFINE S == {mBumped.cert, o.cert}
  <2>1. S \in SUBSET Nat /\ mBumped.cert \in S /\ o.cert \in S
    BY <1>1, <1>4
  <2>2. (\A k \in S : k <= mBumped.cert) \/ (\A k \in S : k <= o.cert)
    BY <1>1, <1>4
  <2> HIDE DEF S
  <2>3. Max(S) \in S
    BY <2>1, <2>2, MaxOfNumbers
  <2> QED
    BY <2>3 DEF S
<1>6. /\ mBumped' \in [cert : Nat, block : SUBSET Fingerprints]
      /\ mBumped'.cert <= mRow'.cert /\ mBumped'.block \subseteq mRevoked'
  BY <1>1, <1>2, <1>3, <1>4, <1>5 DEF ClientBase, WrittenFirst
<1> QED
  BY <1>2, <1>3, <1>6

LEMMA Renewed ==
  ASSUME ClientBase, RenewCert
  PROVE  /\ mRow' \in [rev : Nat, cert : Nat] /\ mRow'.rev = mRow.rev /\ mRow'.cert = mRow.cert + 1
         /\ UNCHANGED << mRevoked, mRoutes, mBumped >>
         /\ mOwed' = mOwed \cup {[cert |-> mRow.cert + 1, block |-> {}]}
<1>1. mRow \in [rev : Nat, cert : Nat] /\ mRow' = [mRow EXCEPT !.cert = @ + 1]
  BY DEF ClientBase, ClientTypes, RenewCert
<1>2. mRow' \in [rev : Nat, cert : Nat] /\ mRow'.rev = mRow.rev /\ mRow'.cert = mRow.cert + 1
  BY <1>1
<1> QED
  BY <1>2 DEF RenewCert

LEMMA ServerKeepsBase ==
  ASSUME ClientBase, ServerStep
  PROVE  ClientBase'
<1>1. UNCHANGED << mRev, mDisk, mLoad, mMet, mMain, mHealth, mManager >>
  BY DEF ServerStep, RenewCert, RevokeCert, bumpConfigRev, RoutesChange, clientVars
<1>2. ManagerFits'
  BY <1>1 DEF ClientBase, ManagerFits
<1>3. mRow \in [rev : Nat, cert : Nat] /\ mBumped \in [cert : Nat, block : SUBSET Fingerprints]
  BY DEF ClientBase, ClientTypes
<1>4. CASE RenewCert
  <2>1. ClientTypes'
    BY <1>1, <1>3, <1>4, Renewed DEF ClientBase, ClientTypes
  <2>2. WrittenFirst'
    <3>1. mBumped'.cert <= mRow'.cert /\ mBumped'.block \subseteq mRevoked'
      BY <1>3, <1>4, Renewed DEF ClientBase, WrittenFirst
    <3>2. ASSUME NEW o \in mOwed' PROVE o.cert <= mRow'.cert /\ o.block \subseteq mRevoked'
      <4>1. CASE o \in mOwed
        BY <1>3, <1>4, <4>1, Renewed DEF ClientBase, WrittenFirst, ClientTypes
      <4>2. CASE o = [cert |-> mRow.cert + 1, block |-> {}]
        BY <1>3, <1>4, <4>2, Renewed
      <4> QED
        BY <1>4, <3>2, <4>1, <4>2, Renewed
    <3> QED
      BY <3>1, <3>2 DEF WrittenFirst
  <2> QED
    BY <1>2, <2>1, <2>2 DEF ClientBase
<1>5. ASSUME NEW f \in Fingerprints, RevokeCert(f) PROVE ClientBase'
  <2>1. /\ mRevoked' = mRevoked \cup {f} /\ UNCHANGED << mRow, mRoutes, mBumped >>
        /\ mOwed' = mOwed \cup {[cert |-> 0, block |-> {f}]}
    BY <1>5 DEF RevokeCert
  <2>2. ClientTypes'
    BY <1>1, <2>1 DEF ClientBase, ClientTypes
  <2>3. WrittenFirst'
    BY <1>3, <2>1 DEF ClientBase, WrittenFirst
  <2> QED
    BY <1>2, <2>2, <2>3 DEF ClientBase
<1>6. ASSUME NEW o \in mOwed, bumpConfigRev(o) PROVE ClientBase'
  <2>1. ClientTypes'
    BY <1>1, <1>6, CountedUp DEF ClientBase, ClientTypes
  <2>2. WrittenFirst'
    BY <1>6, CountedUp DEF ClientBase, WrittenFirst
  <2> QED
    BY <1>2, <2>1, <2>2 DEF ClientBase
<1>7. ASSUME NEW s \in RouteSets, RoutesChange(s) PROVE ClientBase'
  <2>1. mRoutes' \in RouteSets /\ UNCHANGED << mRow, mRevoked, mOwed, mBumped >>
    BY <1>7 DEF RoutesChange
  <2> QED
    BY <1>1, <1>2, <2>1 DEF ClientBase, ClientTypes, WrittenFirst
<1> QED
  BY <1>4, <1>5, <1>6, <1>7 DEF ServerStep

LEMMA ServerKeepsFit ==
  ASSUME ClientBase, FetchesFit, ServerStep
  PROVE  FetchesFit'
<1>1. UNCHANGED << mRev, mDisk, mLoad >>
  BY DEF ServerStep, RenewCert, RevokeCert, bumpConfigRev, RoutesChange, clientVars
<1>2. Alone'
  BY <1>1 DEF FetchesFit, Alone
<1>3. mRow \in [rev : Nat, cert : Nat] /\ mDisk.rev \in Nat /\ mRev \in Nat
  BY DEF ClientBase, ClientTypes
<1>4. CASE RenewCert
  <2>1. mRow'.rev = mRow.rev /\ UNCHANGED << mRevoked, mBumped >>
    BY <1>4, Renewed
  <2> QED
    BY <1>1, <1>2, <2>1 DEF FetchesFit, BundleFits, DiskFits, RevisionFits
<1>5. ASSUME NEW f \in Fingerprints, RevokeCert(f) PROVE FetchesFit'
  <2>1. mRevoked' = mRevoked \cup {f} /\ UNCHANGED << mRow, mBumped >>
    BY <1>5 DEF RevokeCert
  <2>2. ASSUME NEW l \in Loaders PROVE BundleFits(l)'
    BY <1>1, <2>1 DEF FetchesFit, BundleFits, RevisionFits
  <2> QED
    BY <1>1, <1>2, <2>1, <2>2 DEF FetchesFit, DiskFits, RevisionFits
<1>6. ASSUME NEW o \in mOwed, bumpConfigRev(o) PROVE FetchesFit'
  <2>1. mRow'.rev = mRow.rev + 1 /\ mRow.rev \in Nat
    BY <1>3, <1>6, CountedUp
  <2>2. mRev <= mRow.rev /\ mDisk.rev <= mRow.rev
    BY DEF FetchesFit, DiskFits, RevisionFits
  <2>3. DiskFits(mRev)' /\ DiskFits(mDisk.rev)'
    BY <1>1, <1>3, <2>1, <2>2 DEF DiskFits, RevisionFits
  <2>4. ASSUME NEW l \in Loaders PROVE BundleFits(l)'
    <3>1. mLoad[l].rev \in Nat
      BY BundleTyped
    <3>2. mLoad[l].pc \in BundleSteps => mLoad[l].rev <= mRow.rev
      BY DEF FetchesFit, BundleFits, RevisionFits
    <3> QED
      BY <1>1, <2>1, <3>1, <3>2 DEF FetchesFit, BundleFits, RevisionFits
  <2> QED
    BY <1>2, <2>3, <2>4 DEF FetchesFit
<1>7. ASSUME NEW s \in RouteSets, RoutesChange(s) PROVE FetchesFit'
  <2>1. UNCHANGED << mRow, mRevoked, mBumped >>
    BY <1>7 DEF RoutesChange
  <2> QED
    BY <1>1, <1>2, <2>1 DEF FetchesFit, BundleFits, DiskFits, RevisionFits
<1> QED
  BY <1>4, <1>5, <1>6, <1>7 DEF ServerStep

\* A fetch takes its next step, or ends.
FetchStep(l) ==
  \/ TunnelAgentConfig(l) \/ buildNebulaInput(l) \/ buildBundle(l) \/ ApplyBundle(l)
  \/ FetchFails(l) \/ SaveState(l) \/ SaveFails(l)

LEMMA FetchTyped ==
  ASSUME ClientBase, NEW l \in Loaders, FetchStep(l)
  PROVE  /\ mLoad'[l] \in [pc : {"none"} \cup BundleSteps, rev : Nat, files : ClientFiles]
         /\ mLoad' = [mLoad EXCEPT ![l] = mLoad'[l]]
         /\ mDisk' \in [rev : Nat, files : ClientFiles] /\ mRev' \in Nat
         /\ mMain' \in {"down", "starting", "open", "idle", "loading", "reload"}
         /\ UNCHANGED << mHealth, mManager, mRow, mRevoked, mRoutes, mOwed, mBumped >>
<1> DEFINE b == mLoad[l]
           Load == [pc : {"none"} \cup BundleSteps, rev : Nat, files : ClientFiles]
<1>1. UNCHANGED << mHealth, mManager, mRow, mRevoked, mRoutes, mOwed, mBumped >>
  BY DEF FetchStep, TunnelAgentConfig, buildNebulaInput, buildBundle, ApplyBundle, FetchFails, SaveState, SaveFails,
         managerVars, serverVars
<1>2. b \in Load /\ b.rev \in Nat /\ b.files \in ClientFiles /\ mDisk \in [rev : Nat, files : ClientFiles]
  BY BundleTyped
<1>3. /\ mRev \in Nat /\ mRow \in [rev : Nat, cert : Nat] /\ mLoad \in [Loaders -> Load]
      /\ mMain \in {"down", "starting", "open", "idle", "loading", "reload"}
      /\ mRevoked \in SUBSET Fingerprints /\ mRoutes \in SUBSET KnownRoutes
  BY DEF ClientBase, ClientTypes, KnownRoutes
<1>4. PICK new \in Load : mLoad' = [mLoad EXCEPT ![l] = new]
  <2>1. CASE TunnelAgentConfig(l)
    <3>1. ReadsRow(l) \in Load
      BY <1>3, NoFilesTyped DEF ReadsRow, BundleSteps
    <3> QED
      BY <2>1, <3>1 DEF TunnelAgentConfig
  <2>2. CASE buildNebulaInput(l)
    <3> DEFINE n == [b EXCEPT !.pc = "routes", !.files.block = mRevoked]
    <3>1. n \in Load
      BY <1>2, <1>3 DEF BundleSteps, ClientFiles
    <3>2. mLoad' = [mLoad EXCEPT ![l] = n]
      BY <1>3, <2>2 DEF buildNebulaInput
    <3> HIDE DEF n
    <3> QED
      BY <3>1, <3>2
  <2>3. CASE buildBundle(l)
    <3>1. loadRouteConfig(b) \in Load
      BY <1>2, <1>3 DEF BundleSteps, ClientFiles, loadRouteConfig, loadRoutes
    <3> QED
      BY <2>3, <3>1 DEF buildBundle
  <2>4. CASE ApplyBundle(l)
    <3> DEFINE n == [b EXCEPT !.pc = "save"]
    <3>1. n \in Load
      BY <1>2 DEF BundleSteps
    <3>2. mLoad' = [mLoad EXCEPT ![l] = n]
      BY <1>3, <2>4 DEF ApplyBundle
    <3> HIDE DEF n
    <3> QED
      BY <3>1, <3>2
  <2>5. CASE FetchFails(l) \/ SaveState(l) \/ SaveFails(l)
    BY <2>5, NoBundleTyped DEF FetchFails, SaveState, SaveFails
  <2> QED
    BY <2>1, <2>2, <2>3, <2>4, <2>5 DEF FetchStep
<1>5. mDisk' \in [rev : Nat, files : ClientFiles]
  <2>1. mDisk' = mDisk \/ mDisk' = [mDisk EXCEPT !.files = b.files] \/ mDisk' = [mDisk EXCEPT !.rev = b.rev]
    BY DEF FetchStep, TunnelAgentConfig, buildNebulaInput, buildBundle, ApplyBundle, FetchFails, SaveState, SaveFails
  <2> QED
    BY <1>2, <2>1
<1>6. mRev' \in Nat
  <2>1. mRev' = mRev \/ mRev' = b.rev
    BY DEF FetchStep, TunnelAgentConfig, buildNebulaInput, buildBundle, ApplyBundle, FetchFails, SaveState, SaveFails
  <2> QED
    BY <1>2, <1>3, <2>1
<1>7. mMain' \in {"down", "starting", "open", "idle", "loading", "reload"}
  <2>1. mMain' \in {mMain, AfterFetch(TRUE), AfterFetch(FALSE)}
    BY DEF FetchStep, TunnelAgentConfig, buildNebulaInput, buildBundle, ApplyBundle, FetchFails, SaveState, SaveFails
  <2>2. AfterFetch(TRUE) \in {"open", "reload"} /\ AfterFetch(FALSE) \in {"open", "idle"}
    BY DEF AfterFetch
  <2> QED
    BY <1>3, <2>1, <2>2
<1> QED
  BY <1>1, <1>3, <1>4, <1>5, <1>6, <1>7

LEMMA FetchKeepsBase ==
  ASSUME ClientBase, NEW l \in Loaders, FetchStep(l)
  PROVE  ClientBase'
<1>1. mLoad' \in [Loaders -> [pc : {"none"} \cup BundleSteps, rev : Nat, files : ClientFiles]]
  BY FetchTyped DEF ClientBase, ClientTypes
<1>2. ClientTypes'
  BY <1>1, FetchTyped DEF ClientBase, ClientTypes
<1>3. WrittenFirst' /\ ManagerFits'
  BY FetchTyped DEF ClientBase, WrittenFirst, ManagerFits
<1> QED
  BY <1>2, <1>3 DEF ClientBase

\* A fetch that is the only one.
LEMMA FetchFits ==
  ASSUME ClientBase, FetchesFit, NEW l \in Loaders, FetchStep(l),
         \A k \in Loaders \ {l} : mLoad[k].pc \notin BundleSteps,
         DiskFits(mRev)', DiskFits(mDisk.rev)',
         mLoad'[l].pc \in BundleSteps =>
           /\ mRev' <= mLoad'[l].rev /\ mDisk'.rev <= mLoad'[l].rev
           /\ RevisionFits(mLoad'[l].rev, mLoad'[l].files.cert,
                           IF mLoad'[l].pc = "content" THEN mRevoked ELSE mLoad'[l].files.block)
           /\ mLoad'[l].pc = "save" => mDisk'.files = mLoad'[l].files
  PROVE  FetchesFit'
<1>1. UNCHANGED << mRow, mRevoked, mBumped >>
  BY FetchTyped
<1>2. ASSUME NEW k \in Loaders \ {l} PROVE mLoad'[k].pc \notin BundleSteps
  BY FetchTyped DEF ClientBase, ClientTypes
<1>3. Alone'
  BY <1>2 DEF Alone
<1>4. ASSUME NEW k \in Loaders PROVE BundleFits(k)'
  <2>1. CASE k = l
    BY <1>1, <2>1 DEF BundleFits, RevisionFits
  <2>2. CASE k # l
    BY <1>2, <2>2 DEF BundleFits
  <2> QED
    BY <2>1, <2>2
<1> QED
  BY <1>3, <1>4 DEF FetchesFit

LEMMA FetchKeepsFit ==
  ASSUME ClientBase, FetchesFit, NEW l \in Loaders, FetchStep(l), mMet' = {}
  PROVE  FetchesFit'
<1> DEFINE b == mLoad[l]   new == mLoad'[l]
<1>1. UNCHANGED << mRow, mRevoked, mBumped >>
  BY FetchTyped
<1>2. /\ b \in [pc : {"none"} \cup BundleSteps, rev : Nat, files : ClientFiles]
      /\ mDisk \in [rev : Nat, files : ClientFiles] /\ mDisk.rev \in Nat /\ mDisk.files \in ClientFiles
      /\ b.rev \in Nat /\ b.files \in ClientFiles
  BY BundleTyped
<1>3. /\ mRev \in Nat /\ mRow \in [rev : Nat, cert : Nat]
      /\ mBumped.cert \in Nat /\ mBumped.block \subseteq mRevoked /\ mBumped.cert <= mRow.cert
      /\ mLoad \in [Loaders -> [pc : {"none"} \cup BundleSteps, rev : Nat, files : ClientFiles]]
  BY DEF ClientBase, ClientTypes, WrittenFirst
<1>4. DiskFits(mRev) /\ DiskFits(mDisk.rev)
  BY DEF FetchesFit
<1>5. b.pc \in BundleSteps =>
        /\ mRev <= b.rev /\ mDisk.rev <= b.rev
        /\ RevisionFits(b.rev, b.files.cert, IF b.pc = "content" THEN mRevoked ELSE b.files.block)
        /\ b.pc = "save" => mDisk.files = b.files
  BY DEF FetchesFit, BundleFits
<1>6. \A k \in Loaders \ {l} : mLoad[k].pc \notin BundleSteps
  <2>1. CASE TunnelAgentConfig(l)
    <3>1. \A k \in Loaders : mLoad[k].pc = "none"
      BY <2>1 DEF TunnelAgentConfig
    <3> QED
      BY <3>1 DEF BundleSteps
  <2>2. CASE ~TunnelAgentConfig(l)
    <3>1. b.pc \in BundleSteps
      BY <2>2 DEF FetchStep, buildNebulaInput, buildBundle, ApplyBundle, FetchFails, SaveState, SaveFails, BundleSteps
    <3> QED
      BY <3>1 DEF FetchesFit, Alone
  <2> QED
    BY <2>1, <2>2
<1>7. CASE TunnelAgentConfig(l)
  <2>1. ReadsRow(l).pc = "content" /\ ReadsRow(l).rev = mRow.rev /\ ReadsRow(l).files.cert = mRow.cert
    BY <1>3, NoFilesTyped DEF ReadsRow
  <2>2. new = ReadsRow(l) /\ UNCHANGED << mRev, mDisk >>
    BY <1>3, <1>7 DEF TunnelAgentConfig
  <2>3. DiskFits(mRev)' /\ DiskFits(mDisk.rev)'
    BY <1>1, <1>4, <2>2 DEF DiskFits, RevisionFits
  <2>4. RevisionFits(new.rev, new.files.cert, mRevoked)
    BY <1>3, <2>1, <2>2 DEF RevisionFits
  <2>5. mRev <= new.rev /\ mDisk.rev <= new.rev /\ new.pc = "content"
    BY <1>4, <2>1, <2>2 DEF DiskFits, RevisionFits
  <2> HIDE DEF new
  <2> QED
    BY <1>6, <2>2, <2>3, <2>4, <2>5, FetchFits DEF new
<1>8. CASE buildNebulaInput(l)
  <2>1. new = [b EXCEPT !.pc = "routes", !.files.block = mRevoked] /\ UNCHANGED << mRev, mDisk >> /\ b.pc = "content"
    BY <1>3, <1>8 DEF buildNebulaInput
  <2>2. new.pc = "routes" /\ new.rev = b.rev /\ new.files.cert = b.files.cert /\ new.files.block = mRevoked
    BY <1>2, <2>1 DEF ClientFiles
  <2>3. DiskFits(mRev)' /\ DiskFits(mDisk.rev)'
    BY <1>1, <1>4, <2>1 DEF DiskFits, RevisionFits
  <2>4. RevisionFits(new.rev, new.files.cert, new.files.block) /\ mRev' <= new.rev /\ mDisk'.rev <= new.rev
    BY <1>5, <2>1, <2>2 DEF BundleSteps
  <2> QED
    BY <1>6, <2>2, <2>3, <2>4, FetchFits
<1>9. CASE buildBundle(l)
  <2>1. new = [b EXCEPT !.pc = "apply", !.files.routes = mRoutes] /\ UNCHANGED << mRev, mDisk >> /\ b.pc = "routes"
    BY <1>3, <1>9 DEF buildBundle, loadRouteConfig, loadRoutes
  <2>2. new.pc = "apply" /\ new.rev = b.rev /\ new.files.cert = b.files.cert /\ new.files.block = b.files.block
    BY <1>2, <2>1 DEF ClientFiles
  <2>3. DiskFits(mRev)' /\ DiskFits(mDisk.rev)'
    BY <1>1, <1>4, <2>1 DEF DiskFits, RevisionFits
  <2>4. RevisionFits(new.rev, new.files.cert, new.files.block) /\ mRev' <= new.rev /\ mDisk'.rev <= new.rev
    BY <1>5, <2>1, <2>2 DEF BundleSteps
  <2> QED
    BY <1>6, <2>2, <2>3, <2>4, FetchFits
<1>10. CASE ApplyBundle(l)
  <2>1. new = [b EXCEPT !.pc = "save"] /\ UNCHANGED mRev /\ b.pc = "apply" /\ mDisk' = [mDisk EXCEPT !.files = b.files]
    BY <1>3, <1>10 DEF ApplyBundle
  <2>2. new.pc = "save" /\ new.rev = b.rev /\ new.files = b.files
    BY <1>2, <2>1
  <2>3. mDisk'.rev = mDisk.rev /\ mDisk'.files = b.files
    BY <1>2, <2>1
  <2>4. RevisionFits(b.rev, b.files.cert, b.files.block) /\ mRev <= b.rev /\ mDisk.rev <= b.rev
    BY <1>5, <2>1 DEF BundleSteps
  <2>5. \A rev \in Nat : rev <= b.rev => RevisionFits(rev, b.files.cert, b.files.block)
    BY <1>2, <1>3, <2>4 DEF RevisionFits
  <2>6. DiskFits(mRev)' /\ DiskFits(mDisk.rev)'
    BY <1>1, <1>2, <1>3, <2>1, <2>3, <2>4, <2>5 DEF DiskFits, RevisionFits
  <2> QED
    BY <1>6, <2>1, <2>2, <2>3, <2>4, <2>6, FetchFits
<1>11. CASE FetchFails(l)
  <2>1. new = NoBundle /\ UNCHANGED << mRev, mDisk >>
    BY <1>3, <1>11 DEF FetchFails
  <2>2. DiskFits(mRev)' /\ DiskFits(mDisk.rev)'
    BY <1>1, <1>4, <2>1 DEF DiskFits, RevisionFits
  <2> QED
    BY <1>6, <2>1, <2>2, NoBundleTyped, FetchFits
<1>12. ASSUME SaveState(l) \/ SaveFails(l) PROVE FetchesFit'
  <2>1. new = NoBundle /\ mRev' \in {mRev, b.rev} /\ b.pc = "save"
        /\ (mDisk' = [mDisk EXCEPT !.rev = b.rev] \/ mDisk' = mDisk)
    BY <1>3, <1>12 DEF SaveState, SaveFails
  <2>2. mDisk'.files = b.files /\ (mDisk'.rev = b.rev \/ mDisk'.rev = mDisk.rev)
    BY <1>2, <1>5, <2>1 DEF BundleSteps
  <2>3. RevisionFits(b.rev, b.files.cert, b.files.block) /\ mDisk.files = b.files
    BY <1>5, <2>1 DEF BundleSteps
  <2>4. DiskFits(mRev)' /\ DiskFits(mDisk.rev)'
    BY <1>1, <1>4, <2>1, <2>2, <2>3 DEF DiskFits, RevisionFits
  <2> QED
    BY <1>6, <2>1, <2>4, NoBundleTyped, FetchFits
<1> QED
  BY <1>7, <1>8, <1>9, <1>10, <1>11, <1>12 DEF FetchStep

MainStep == Run \/ Heartbeat \/ reloadOverlay \/ ClientStops \/ \E ok \in BOOLEAN : startOverlay(ok)

LEMMA MainLoopKeeps ==
  ASSUME ClientBase, MainStep
  PROVE  ClientBase' /\ (FetchesFit => FetchesFit')
<1>1. UNCHANGED << mDisk, mHealth, mRow, mRevoked, mRoutes, mOwed, mBumped >>
      /\ mMain' \in {"down", "starting", "open", "idle", "loading", "reload"}
  BY DEF MainStep, Run, Heartbeat, reloadOverlay, ClientStops, startOverlay, serverVars, managerVars
<1>2. /\ mRev' \in {mRev, mDisk.rev}
      /\ mLoad' \in {mLoad, [mLoad EXCEPT !["run"] = NoBundle]}
      /\ mManager' \in {mManager, NoManager, [NoManager EXCEPT !.specs = mDisk.files.routes]}
  BY DEF MainStep, Run, Heartbeat, reloadOverlay, ClientStops, startOverlay, serverVars, managerVars
<1>3. /\ mDisk \in [rev : Nat, files : ClientFiles] /\ mDisk.rev \in Nat /\ mDisk.files \in ClientFiles
      /\ mRev \in Nat
      /\ mLoad \in [Loaders -> [pc : {"none"} \cup BundleSteps, rev : Nat, files : ClientFiles]]
  BY DEF ClientBase, ClientTypes
<1>4. mLoad' \in [Loaders -> [pc : {"none"} \cup BundleSteps, rev : Nat, files : ClientFiles]]
      /\ \A l \in Loaders : mLoad'[l].pc \in BundleSteps => mLoad'[l] = mLoad[l]
  BY <1>2, <1>3, NoBundleTyped
<1>5. mManager' \in RouteManager /\ ManagerFits'
  <2>1. CASE mManager' = mManager
    BY <1>1, <2>1 DEF ClientBase, ClientTypes, ManagerFits
  <2>2. CASE mManager' \in {NoManager, [NoManager EXCEPT !.specs = mDisk.files.routes]}
    <3>1. mDisk.files.routes \in SUBSET KnownRoutes
      BY <1>3 DEF ClientFiles
    <3>2. mManager' \in RouteManager /\ mManager'.hash = FALSE
      BY <2>2, <3>1, NoManagerTyped
    <3> QED
      BY <3>2 DEF ManagerFits
  <2> QED
    BY <1>2, <2>1, <2>2
<1>6. ClientTypes'
  BY <1>1, <1>2, <1>3, <1>4, <1>5 DEF ClientBase, ClientTypes
<1>7. WrittenFirst'
  BY <1>1 DEF ClientBase, WrittenFirst
<1>8. ASSUME FetchesFit PROVE FetchesFit'
  <2>1. DiskFits(mRev)' /\ DiskFits(mDisk.rev)'
    BY <1>1, <1>2, <1>8 DEF FetchesFit, DiskFits, RevisionFits
  <2>2. Alone'
    BY <1>4, <1>8 DEF FetchesFit, Alone
  <2>3. ASSUME NEW l \in Loaders PROVE BundleFits(l)'
    BY <1>1, <1>2, <1>4, <1>8 DEF FetchesFit, BundleFits, RevisionFits
  <2> QED
    BY <2>1, <2>2, <2>3 DEF FetchesFit
<1> QED
  BY <1>5, <1>6, <1>7, <1>8 DEF ClientBase

ManagerStep == (\E h \in [Gateways -> BOOLEAN] : ProbeOnce(h)) \/ ManagerReads \/ ManagerReloads

LEMMA ManagerMoves ==
  ASSUME ClientBase, ManagerStep
  PROVE  ClientBase' /\ (FetchesFit => FetchesFit')
<1>1. UNCHANGED << mRev, mDisk, mLoad, mMain, mRow, mRevoked, mRoutes, mOwed, mBumped >>
  BY DEF ManagerStep, ProbeOnce, ManagerReads, ManagerReloads, serverVars
<1>2. mManager \in RouteManager /\ mHealth \in [Gateways -> BOOLEAN] /\ mDisk.files \in ClientFiles
  BY DEF ClientBase, ClientTypes
<1>3. ASSUME NEW h \in [Gateways -> BOOLEAN], ProbeOnce(h) PROVE mHealth' = h /\ mManager' \in RouteManager /\ ManagerFits'
  <2> DEFINE eff == EffectiveUnsafeRoutes(mManager.specs, h)
  <2>1. mHealth' = h
        /\ mManager' = IF mManager.hash /\ eff = mManager.eff THEN mManager
                       ELSE [mManager EXCEPT !.eff = eff, !.hash = TRUE, !.pc = "read"]
    BY <1>3 DEF ProbeOnce
  <2>2. eff \in SUBSET (KnownRoutes \X SUBSET Gateways)
    BY <1>2, EffectiveTyped DEF RouteManager
  <2> HIDE DEF eff
  <2>3. mManager' \in RouteManager /\ mManager'.specs = mManager.specs /\ mManager'.eff = eff
    BY <1>2, <2>1, <2>2 DEF RouteManager
  <2> QED
    BY <2>1, <2>3 DEF ManagerFits, eff
<1>4. ASSUME ManagerReads \/ ManagerReloads PROVE mHealth' = mHealth /\ mManager' \in RouteManager /\ ManagerFits'
  <2>1. \/ mManager' = [mManager EXCEPT !.pc = "reload", !.base = mDisk.files]
        \/ mManager' = [mManager EXCEPT !.pc = "idle", !.base = NoFiles]
    BY <1>4 DEF ManagerReads, ManagerReloads
  <2>2. mHealth' = mHealth
    BY <1>4 DEF ManagerReads, ManagerReloads
  <2>3. /\ mManager' \in RouteManager /\ mManager'.specs = mManager.specs /\ mManager'.eff = mManager.eff
        /\ mManager'.hash = mManager.hash
    BY <1>2, <2>1, NoFilesTyped DEF RouteManager
  <2> QED
    BY <2>2, <2>3 DEF ClientBase, ManagerFits
<1>5. mManager' \in RouteManager /\ mHealth' \in [Gateways -> BOOLEAN] /\ ManagerFits'
  BY <1>2, <1>3, <1>4 DEF ManagerStep
<1> QED
  BY <1>1, <1>5 DEF ClientBase, ClientTypes, WrittenFirst, FetchesFit, Alone, BundleFits, DiskFits, RevisionFits

LEMMA ClientKeeps ==
  ASSUME ClientIInv, MeshNext
  PROVE  ClientIInv'
<1>1. ClientBase /\ (mMet = {} => FetchesFit)
  BY DEF ClientIInv
<1>2. ASSUME NEW l \in Loaders, FetchStep(l) PROVE ClientIInv'
  <2>1. mMet \subseteq mMet'
    BY <1>2 DEF FetchStep, TunnelAgentConfig, buildNebulaInput, buildBundle, ApplyBundle, FetchFails, SaveState, SaveFails
  <2> QED
    BY <1>1, <1>2, <2>1, FetchKeepsBase, FetchKeepsFit DEF ClientIInv
<1>3. CASE ServerStep
  <2>1. mMet' = mMet
    BY <1>3 DEF ServerStep, RenewCert, RevokeCert, bumpConfigRev, RoutesChange, clientVars
  <2> QED
    BY <1>1, <1>3, <2>1, ServerKeepsBase, ServerKeepsFit DEF ClientIInv
<1>4. CASE MainStep
  <2>1. mMet' = mMet
    BY <1>4 DEF MainStep, Run, Heartbeat, reloadOverlay, ClientStops, startOverlay
  <2> QED
    BY <1>1, <1>4, <2>1, MainLoopKeeps DEF ClientIInv
<1>5. CASE ManagerStep
  <2>1. mMet' = mMet
    BY <1>5 DEF ManagerStep, ProbeOnce, ManagerReads, ManagerReloads
  <2> QED
    BY <1>1, <1>5, <2>1, ManagerMoves DEF ClientIInv
<1> QED
  BY <1>2, <1>3, <1>4, <1>5 DEF MeshNext, ServerStep, FetchStep, MainStep, ManagerStep

LEMMA ClientStays ==
  ASSUME ClientIInv, UNCHANGED mVars
  PROVE  ClientIInv'
BY DEF ClientIInv, ClientBase, FetchesFit, mVars, ClientTypes, WrittenFirst, Alone, BundleFits, DiskFits,
       RevisionFits, ManagerFits

LEMMA BestOfGateways ==
  ASSUME NEW t \in KnownRoutes, NEW gs \in SUBSET DOMAIN t.prio, gs # {}
  PROVE  \E g \in gs : t.prio[g] = Best(t, gs) /\ \A k \in gs : t.prio[g] <= t.prio[k]
<1> DEFINE S == {t.prio[g] : g \in gs}
<1>1. t.prio \in [DOMAIN t.prio -> Nat]
  BY MeshAssumption DEF KnownRoutes
<1>2. S \in SUBSET Nat /\ S # {}
  BY <1>1
<1> HIDE DEF S
<1>3. Min(S) \in S /\ \A k \in S : Min(S) <= k
  BY <1>2, MinOfNumbers
<1> QED
  BY <1>3 DEF S, Best

LEMMA ClientSound == ClientIInv => MeshInv
<1> SUFFICES ASSUME ClientIInv PROVE MeshInv
  OBVIOUS
<1>1. mMet = {} => \A rev \in {mRev, mDisk.rev} : RevisionTells(rev)
  <2>1. mDisk.files.cert \in Nat /\ mBumped.cert \in Nat
    BY DEF ClientIInv, ClientBase, ClientTypes, ClientFiles
  <2> QED
    BY <2>1 DEF ClientIInv, FetchesFit, DiskFits, RevisionFits, RevisionTells
<1>2. ASSUME mManager.hash, NEW x \in mManager.eff
      PROVE  LET t == x[1]  down == \A g \in DOMAIN t.prio : ~mHealth[g]
             IN  IF down THEN t.allDown = "fail_closed" /\ x[2] = DOMAIN t.prio
                 ELSE /\ \A g \in x[2] : mHealth[g]
                      /\ \A g \in x[2], k \in DOMAIN t.prio \ x[2] :
                           mHealth[k] => t.mode = "active_passive" /\ t.prio[g] < t.prio[k]
  <2>1. mManager.specs \in SUBSET KnownRoutes
    BY DEF ClientIInv, ClientBase, ClientTypes, RouteManager
  <2>2. PICK t \in mManager.specs :
          /\ healthyGateways(t, mHealth) # {} \/ t.allDown = "fail_closed"
          /\ x = << t, IF healthyGateways(t, mHealth) = {} THEN DOMAIN t.prio ELSE healthyGateways(t, mHealth) >>
    BY <1>2 DEF ClientIInv, ClientBase, ManagerFits, EffectiveUnsafeRoutes
  <2>3. t \in KnownRoutes /\ t.prio \in [DOMAIN t.prio -> Nat]
    BY <2>1, MeshAssumption DEF KnownRoutes
  <2> DEFINE W == Working(t, mHealth)
  <2>4. W \in SUBSET DOMAIN t.prio /\ \A g \in DOMAIN t.prio : g \in W <=> mHealth[g]
    BY DEF Working
  <2>5. healthyGateways(t, mHealth) =
          IF t.mode = "active_passive" /\ W # {} THEN {g \in W : t.prio[g] = Best(t, W)} ELSE W
    BY DEF healthyGateways
  <2> HIDE DEF W
  <2>6. CASE W = {}
    BY <2>2, <2>4, <2>5, <2>6
  <2>7. CASE W # {}
    <3>1. PICK g0 \in W : t.prio[g0] = Best(t, W) /\ \A k \in W : t.prio[g0] <= t.prio[k]
      BY <2>3, <2>4, <2>7, BestOfGateways
    <3>2. healthyGateways(t, mHealth) # {} /\ healthyGateways(t, mHealth) \subseteq W
      BY <2>5, <2>7, <3>1
    <3>3. x[1] = t /\ x[2] = healthyGateways(t, mHealth)
      BY <2>2, <3>2
    <3>4. ASSUME NEW g \in x[2], NEW k \in DOMAIN t.prio \ x[2], mHealth[k]
          PROVE  t.mode = "active_passive" /\ t.prio[g] < t.prio[k]
      <4>1. k \in W /\ g \in W
        BY <2>4, <3>2, <3>3, <3>4
      <4>2. t.mode = "active_passive"
        BY <2>5, <3>3, <3>4, <4>1
      <4>3. t.prio[g] = Best(t, W) /\ t.prio[k] # Best(t, W)
        BY <2>5, <2>7, <3>3, <3>4, <4>1, <4>2
      <4>4. t.prio[g] \in Nat /\ t.prio[k] \in Nat
        BY <2>3, <2>4, <4>1
      <4> QED
        BY <3>1, <4>1, <4>2, <4>3, <4>4
    <3>5. \A g \in x[2] : mHealth[g]
      BY <2>4, <3>2, <3>3
    <3>6. ~ \A g \in DOMAIN t.prio : ~mHealth[g]
      BY <2>4, <2>7
    <3> QED
      BY <3>3, <3>4, <3>5, <3>6
  <2> QED
    BY <2>6, <2>7
<1> QED
  BY <1>1, <1>2 DEF MeshInv, RoutesWork
-----------------------------------------------------------------------------
(* The edge *)

EdgeRow == [id : Nat, wild : BOOLEAN, host : Seq(EdgeLabels), port : Nat, target : Targets]
EdgeRoute == [wild : BOOLEAN, host : Seq(EdgeLabels), port : Nat, target : Targets]
AccessRequest ==
  [pc : {"name", "insert"}, client : EdgeClients, addr : EdgeAddrs, port : Nat, host : Seq(EdgeLabels), tries : Nat]

EdgeTypes ==
  /\ eRow \in Seq(EdgeRow) /\ eLast \in Nat
  /\ eClient \in [EdgeClients -> EdgeAddrs \cup {0}]
  /\ eReq \in [EdgeRequests -> AccessRequest \cup {NoAccess}]
  /\ eFile \in Seq(EdgeRoute) /\ eShown \in Seq(EdgeRoute)

EdgeIInv == EdgeTypes /\ HostsDiffer /\ PortsAsRouted /\ (eUp => eTable = Set(eShown))

LEMMA EdgeFromTheStart == EdgeInit => EdgeIInv
<1> SUFFICES ASSUME EdgeInit PROVE EdgeIInv
  OBVIOUS
<1>1. eClient \in [EdgeClients -> EdgeAddrs]
  BY EdgeAssumption DEF EdgeInit
<1>2. eRow = << >> /\ eFile = << >> /\ eShown = << >> /\ eLast = 0 /\ eUp = FALSE
      /\ eReq \in [EdgeRequests -> {NoAccess}]
  BY DEF EdgeInit
<1>3. EdgeTypes
  BY <1>1, <1>2 DEF EdgeTypes
<1> QED
  BY <1>2, <1>3 DEF EdgeIInv, HostsDiffer, PortsAsRouted

\* A service that is inserted has a host of its own.
LEMMA InsertKeeps ==
  ASSUME EdgeTypes, HostsDiffer,
         NEW svc \in [wild : BOOLEAN, host : Seq(EdgeLabels), port : Nat, target : Targets], Insert(svc)
  PROVE  eRow' \in Seq(EdgeRow) /\ eLast' \in Nat /\ HostsDiffer'
<1>1. eRow \in Seq(EdgeRow) /\ eLast \in Nat
  BY DEF EdgeTypes
<1>2. CASE UNCHANGED << eRow, eLast >>
  BY <1>1, <1>2 DEF HostsDiffer
<1>3. CASE ~UNCHANGED << eRow, eLast >>
  <2> DEFINE new == [id |-> eLast + 1, wild |-> svc.wild, host |-> svc.host, port |-> svc.port, target |-> svc.target]
  <2>1. HostFree(svc.host, svc.wild) /\ eRow' = Append(eRow, new) /\ eLast' = eLast + 1
    BY <1>3 DEF Insert
  <2>2. new \in EdgeRow /\ new.host = svc.host /\ new.wild = svc.wild
    BY <1>1 DEF EdgeRow
  <2> HIDE DEF new
  <2>3. /\ eRow' \in Seq(EdgeRow) /\ DOMAIN eRow = 1 .. Len(eRow) /\ DOMAIN eRow' = 1 .. (Len(eRow) + 1)
        /\ Len(eRow) \in Nat /\ eRow'[Len(eRow) + 1] = new
        /\ \A n \in DOMAIN eRow : eRow'[n] = eRow[n]
    BY <1>1, <2>1, <2>2
  <2>4. \A n \in DOMAIN eRow : ~(eRow[n].host = new.host /\ eRow[n].wild = new.wild)
    BY <2>1, <2>2 DEF HostFree
  <2>5. \A n \in DOMAIN eRow' : n \in DOMAIN eRow \/ n = Len(eRow) + 1
    BY <2>3
  <2>6. HostsDiffer'
    BY <2>3, <2>4, <2>5 DEF HostsDiffer
  <2> QED
    BY <1>1, <2>1, <2>3, <2>6
<1> QED
  BY <1>2, <1>3

LEMMA WithoutKeeps ==
  ASSUME EdgeTypes, HostsDiffer, NEW n \in DOMAIN eRow, eRow' = Without(n)
  PROVE  eRow' \in Seq(EdgeRow) /\ HostsDiffer'
<1>1. eRow \in Seq(EdgeRow) /\ DOMAIN eRow = 1 .. Len(eRow) /\ Len(eRow) \in Nat /\ n \in 1 .. Len(eRow)
  BY DEF EdgeTypes
<1>2. Len(eRow) - 1 \in Nat /\ DOMAIN eRow' = 1 .. (Len(eRow) - 1)
  BY <1>1 DEF Without
<1> DEFINE Was(k) == IF k < n THEN k ELSE k + 1
<1>3. \A k \in DOMAIN eRow' : Was(k) \in 1 .. Len(eRow) /\ eRow'[k] = eRow[Was(k)]
  BY <1>1, <1>2 DEF Without
<1>4. \A j, k \in DOMAIN eRow' : Was(j) = Was(k) => j = k
  BY <1>1, <1>2
<1>5. \A k \in 1 .. Len(eRow) : eRow[k] \in EdgeRow
  BY <1>1
<1>6. eRow' = [k \in 1 .. (Len(eRow) - 1) |-> IF k < n THEN eRow[k] ELSE eRow[k + 1]]
  BY DEF Without
<1> HIDE DEF Was
<1>7. \A k \in DOMAIN eRow' : eRow'[k] \in EdgeRow
  BY <1>3, <1>5
<1>8. eRow' \in Seq(EdgeRow)
  BY <1>2, <1>6, <1>7
<1>9. HostsDiffer'
  BY <1>1, <1>3, <1>4 DEF HostsDiffer
<1> QED
  BY <1>8, <1>9

LEMMA AccessKeeps ==
  ASSUME EdgeIInv, AccessNext
  PROVE  EdgeIInv'
<1>1. UNCHANGED eEdgeVars
  BY DEF AccessNext, EnteredNext, CreateEdgeService, DeleteEdgeService, DeleteAccess, ClientChanges, CreateAccess,
         uniqueHost, AccessInserts
<1>2. UNCHANGED << eFile, eUp, eTable, eShown, eRouter, eListen, eInSync >>
  BY <1>1 DEF eEdgeVars
<1>3. EdgeTypes /\ HostsDiffer
  BY DEF EdgeIInv
<1>4. SUFFICES EdgeTypes' /\ HostsDiffer'
  BY <1>2 DEF EdgeIInv, PortsAsRouted
<1>5. ASSUME NEW svc \in ManualServices, CreateEdgeService(svc) PROVE EdgeTypes' /\ HostsDiffer'
  <2>1. svc \in [wild : BOOLEAN, host : Seq(EdgeLabels), port : Nat, target : Targets]
    BY EdgeAssumption
  <2>2. Insert(svc) /\ UNCHANGED << eClient, eReq >>
    BY <1>5 DEF CreateEdgeService
  <2>3. eRow' \in Seq(EdgeRow) /\ eLast' \in Nat /\ HostsDiffer'
    BY <1>3, <2>1, <2>2, InsertKeeps
  <2> QED
    BY <1>2, <1>3, <2>2, <2>3 DEF EdgeTypes
<1>6. ASSUME DeleteEdgeService \/ DeleteAccess PROVE EdgeTypes' /\ HostsDiffer'
  <2>1. PICK n \in DOMAIN eRow : eRow' = Without(n)
    BY <1>6 DEF DeleteEdgeService, DeleteAccess
  <2>2. UNCHANGED << eLast, eClient, eReq >>
    BY <1>6 DEF DeleteEdgeService, DeleteAccess
  <2>3. eRow' \in Seq(EdgeRow) /\ HostsDiffer'
    BY <1>3, <2>1, WithoutKeeps
  <2> QED
    BY <1>2, <1>3, <2>2, <2>3 DEF EdgeTypes
<1>7. CASE ClientChanges
  <2>1. UNCHANGED << eRow, eLast, eReq >> /\ eClient' \in [EdgeClients -> EdgeAddrs \cup {0}]
    BY <1>3, <1>7 DEF ClientChanges, EdgeTypes
  <2> QED
    BY <1>2, <1>3, <2>1 DEF EdgeTypes, HostsDiffer
<1>8. ASSUME NEW r \in EdgeRequests, NEW c \in EdgeClients, NEW k \in {0} \cup EdgePorts, CreateAccess(r, c, k)
      PROVE  EdgeTypes' /\ HostsDiffer'
  <2> DEFINE new == [pc |-> "name", client |-> c, addr |-> eClient[c], port |-> k,
                     host |-> << << SlugOf[c], 0 >> >> \o EdgeDomain, tries |-> 0]
  <2>1. UNCHANGED << eRow, eLast, eClient >> /\ eReq' = [eReq EXCEPT ![r] = new] /\ eClient[c] # 0
    BY <1>8 DEF CreateAccess
  <2>2. eClient[c] \in EdgeAddrs /\ k \in Nat
    BY <1>3, <2>1, EdgeAssumption DEF EdgeTypes
  <2>3. << << SlugOf[c], 0 >> >> \o EdgeDomain \in Seq(EdgeLabels)
    BY EdgeAssumption DEF EdgeLabels
  <2>4. new \in AccessRequest
    BY <2>2, <2>3 DEF AccessRequest
  <2> HIDE DEF new
  <2> QED
    BY <1>2, <1>3, <2>1, <2>4 DEF EdgeTypes, HostsDiffer
<1>9. ASSUME NEW r \in EdgeRequests, uniqueHost(r) PROVE EdgeTypes' /\ HostsDiffer'
  <2> DEFINE q == eReq[r]
  <2>1. UNCHANGED << eRow, eLast, eClient >> /\ q.pc = "name"
        /\ \/ eReq' = [eReq EXCEPT ![r] = NoAccess]
           \/ eReq' = [eReq EXCEPT ![r].pc = "insert"]
           \/ \E x \in RandomSuffixes :
                eReq' = [eReq EXCEPT ![r].host = << << SlugOf[q.client], x >> >> \o EdgeDomain, ![r].tries = @ + 1]
    BY <1>9 DEF uniqueHost
  <2>2. q \in AccessRequest /\ eReq \in [EdgeRequests -> AccessRequest \cup {NoAccess}]
    BY <1>3, <2>1 DEF EdgeTypes, NoAccess
  <2>3. ASSUME NEW x \in RandomSuffixes PROVE << << SlugOf[q.client], x >> >> \o EdgeDomain \in Seq(EdgeLabels)
    <3>1. << SlugOf[q.client], x >> \in EdgeLabels
      BY <2>2, EdgeAssumption DEF EdgeLabels, AccessRequest
    <3>2. << << SlugOf[q.client], x >> >> \in Seq(EdgeLabels)
      BY <3>1
    <3> QED
      BY <3>2, EdgeAssumption
  <2>4. eReq' \in [EdgeRequests -> AccessRequest \cup {NoAccess}]
    <3>1. CASE eReq' = [eReq EXCEPT ![r] = NoAccess]
      BY <2>2, <3>1
    <3>2. CASE eReq' = [eReq EXCEPT ![r].pc = "insert"]
      <4>1. [q EXCEPT !.pc = "insert"] \in AccessRequest
        BY <2>2 DEF AccessRequest
      <4> QED
        BY <2>2, <3>2, <4>1
    <3>3. ASSUME NEW x \in RandomSuffixes,
                 eReq' = [eReq EXCEPT ![r].host = << << SlugOf[q.client], x >> >> \o EdgeDomain, ![r].tries = @ + 1]
          PROVE  eReq' \in [EdgeRequests -> AccessRequest \cup {NoAccess}]
      <4> DEFINE h == << << SlugOf[q.client], x >> >> \o EdgeDomain
      <4>1. h \in Seq(EdgeLabels)
        BY <2>3
      <4>2. eReq' = [eReq EXCEPT ![r] = [q EXCEPT !.host = h, !.tries = q.tries + 1]]
        BY <2>2, <3>3
      <4> HIDE DEF h
      <4>3. q.tries + 1 \in Nat
        BY <2>2 DEF AccessRequest
      <4>4. [q EXCEPT !.host = h, !.tries = q.tries + 1] \in AccessRequest
        BY <2>2, <4>1, <4>3 DEF AccessRequest
      <4> QED
        BY <2>2, <4>2, <4>4
    <3> QED
      BY <2>1, <3>1, <3>2, <3>3
  <2> QED
    BY <1>2, <1>3, <2>1, <2>4 DEF EdgeTypes, HostsDiffer
<1>10. ASSUME NEW r \in EdgeRequests, AccessInserts(r) PROVE EdgeTypes' /\ HostsDiffer'
  <2> DEFINE q == eReq[r]
             svc == [wild |-> FALSE, host |-> q.host, port |-> q.port,
                     target |-> [addr |-> q.addr, port |-> IF q.port = 0 THEN 80 ELSE q.port]]
  <2>1. Insert(svc) /\ eReq' = [eReq EXCEPT ![r] = NoAccess] /\ eClient' = eClient /\ q.pc = "insert"
    BY <1>10 DEF AccessInserts
  <2>2. q \in AccessRequest /\ eReq \in [EdgeRequests -> AccessRequest \cup {NoAccess}]
    BY <1>3, <2>1 DEF EdgeTypes, NoAccess
  <2>3. svc \in [wild : BOOLEAN, host : Seq(EdgeLabels), port : Nat, target : Targets]
    BY <2>2 DEF AccessRequest, Targets
  <2> HIDE DEF svc
  <2>4. eRow' \in Seq(EdgeRow) /\ eLast' \in Nat /\ HostsDiffer'
    BY <1>3, <2>1, <2>3, InsertKeeps
  <2> QED
    BY <1>2, <1>3, <2>1, <2>2, <2>4 DEF EdgeTypes
<1> QED
  BY <1>5, <1>6, <1>7, <1>8, <1>9, <1>10 DEF AccessNext, EnteredNext

\* Sync listens on no port that is not wanted, on all of them if none is taken.
LEMMA SyncFits ==
  ASSUME NEW want, Sync(want)
  PROVE  DOMAIN eListen' \subseteq DOMAIN want /\ (eInSync' => DOMAIN eListen' = DOMAIN want)
<1> DEFINE kept == DOMAIN eListen \cap DOMAIN want
           new == DOMAIN want \ DOMAIN eListen
<1>1. PICK ports \in SUBSET new :
        /\ eListen' = [k \in kept \cup ports |-> IF k \in kept THEN eListen[k] ELSE want[k]]
        /\ eInSync' => ports = new
  <2>1. CASE new \cap eBusy = {}
    BY <2>1 DEF Sync
  <2>2. CASE new \cap eBusy # {}
    BY <2>2 DEF Sync
  <2> QED
    BY <2>1, <2>2
<1>2. DOMAIN eListen' = kept \cup ports
  BY <1>1
<1> QED
  BY <1>1, <1>2

LEMMA RoutesTyped ==
  ASSUME EdgeTypes
  PROVE  EdgeRoutes \in Seq(EdgeRoute)
<1>1. eRow \in Seq(EdgeRow) /\ DOMAIN eRow = 1 .. Len(eRow) /\ Len(eRow) \in Nat
  BY DEF EdgeTypes
<1>2. ASSUME NEW n \in 1 .. Len(eRow) PROVE EdgeRoutes[n] \in EdgeRoute
  <2>1. eRow[n] \in EdgeRow
    BY <1>1
  <2>2. EdgeRoutes[n] = IF eRow[n].port # 0
                          THEN [wild |-> FALSE, host |-> << >>, port |-> eRow[n].port, target |-> eRow[n].target]
                        ELSE [wild |-> eRow[n].wild, host |-> eRow[n].host, port |-> 0, target |-> eRow[n].target]
    BY <1>1 DEF EdgeRoutes
  <2>3. << >> \in Seq(EdgeLabels)
    OBVIOUS
  <2> QED
    BY <2>1, <2>2, <2>3 DEF EdgeRow, EdgeRoute
<1>3. EdgeRoutes = [n \in 1 .. Len(eRow) |-> EdgeRoutes[n]]
  BY <1>1 DEF EdgeRoutes
<1> QED
  BY <1>1, <1>2, <1>3

LEMMA ForwardKeeps ==
  ASSUME EdgeIInv, ForwardNext
  PROVE  EdgeIInv'
<1>1. CASE EnteredNext
  BY <1>1, AccessKeeps DEF AccessNext
<1>2. CASE RoutesWritten
  <2>1. eFile' \in Seq(EdgeRoute) /\ UNCHANGED << eRow, eLast, eClient, eReq, eUp, eTable, eShown, eRouter, eListen, eInSync >>
    BY <1>2, RoutesTyped DEF RoutesWritten, EdgeIInv, eServerVars
  <2> QED
    BY <2>1 DEF EdgeIInv, EdgeTypes, HostsDiffer, PortsAsRouted
<1>3. CASE startEdge
  <2>1. /\ UNCHANGED << eRow, eLast, eClient, eReq, eFile >> /\ eShown' = eFile /\ eTable' = Set(eFile)
        /\ Sync(eRouter')
    BY <1>3 DEF startEdge, eServerVars
  <2>2. DOMAIN eListen' \subseteq DOMAIN eRouter' /\ (eInSync' => DOMAIN eListen' = DOMAIN eRouter')
    BY <2>1, SyncFits
  <2>3. EdgeTypes'
    BY <2>1 DEF EdgeIInv, EdgeTypes
  <2>4. HostsDiffer' /\ PortsAsRouted' /\ eTable' = Set(eShown')
    BY <2>1, <2>2 DEF EdgeIInv, HostsDiffer, PortsAsRouted
  <2> QED
    BY <2>3, <2>4 DEF EdgeIInv
<1>4. CASE ReloadHosts
  <2>1. /\ UNCHANGED << eRow, eLast, eClient, eReq, eFile, eUp, eRouter, eListen, eInSync >>
        /\ eShown' = eFile /\ eTable' = Set(eFile)
    BY <1>4 DEF ReloadHosts, eServerVars
  <2>2. EdgeTypes'
    BY <2>1 DEF EdgeIInv, EdgeTypes
  <2>3. HostsDiffer' /\ PortsAsRouted' /\ eTable' = Set(eShown')
    BY <2>1 DEF EdgeIInv, HostsDiffer, PortsAsRouted
  <2> QED
    BY <2>2, <2>3 DEF EdgeIInv
<1>5. CASE ReloadPorts
  <2>1. UNCHANGED << eRow, eLast, eClient, eReq, eFile, eUp, eTable, eShown >> /\ Sync(eRouter')
    BY <1>5 DEF ReloadPorts, eServerVars
  <2>2. DOMAIN eListen' \subseteq DOMAIN eRouter' /\ (eInSync' => DOMAIN eListen' = DOMAIN eRouter')
    BY <2>1, SyncFits
  <2>3. EdgeTypes' /\ HostsDiffer' /\ PortsAsRouted'
    BY <2>1, <2>2 DEF EdgeIInv, EdgeTypes, HostsDiffer, PortsAsRouted
  <2>4. eUp' => eTable' = Set(eShown')
    BY <2>1 DEF EdgeIInv
  <2> QED
    BY <2>3, <2>4 DEF EdgeIInv
<1>6. CASE PortChanges
  <2>1. UNCHANGED << eRow, eLast, eClient, eReq, eFile, eUp, eTable, eShown, eRouter, eListen, eInSync >>
    BY <1>6 DEF PortChanges, eServerVars
  <2> QED
    BY <2>1 DEF EdgeIInv, EdgeTypes, HostsDiffer, PortsAsRouted
<1> QED
  BY <1>1, <1>2, <1>3, <1>4, <1>5, <1>6 DEF ForwardNext

LEMMA EdgeStays ==
  ASSUME EdgeIInv, UNCHANGED eVars
  PROVE  EdgeIInv'
<1>1. UNCHANGED << eRow, eLast, eClient, eReq, eFile, eUp, eTable, eShown, eRouter, eListen, eInSync >>
  BY DEF eVars
<1> QED
  BY <1>1 DEF EdgeIInv, EdgeTypes, HostsDiffer, PortsAsRouted
-----------------------------------------------------------------------------
\* The first wildcard met while labels are taken off is the longest over the
\* host, and of those of that length the table has the last.
LEMMA LookupFinds ==
  ASSUME EdgeTypes, eTable = Set(eShown), NEW host \in Seq(EdgeLabels)
  PROVE  LET own == {n \in DOMAIN eShown : eShown[n].host = host /\ host # << >> /\ ~eShown[n].wild}
             wild == {n \in DOMAIN eShown : eShown[n].wild /\ eShown[n].host # << >> /\ Over(eShown[n], host)}
             longest == {n \in wild : \A m \in wild : Len(eShown[m].host) <= Len(eShown[n].host)}
         IN  TableLookup(host) = IF own # {} THEN eShown[Max(own)].target
                                 ELSE IF wild # {} THEN eShown[Max(longest)].target ELSE NoTarget
<1> DEFINE own == {n \in DOMAIN eShown : eShown[n].host = host /\ host # << >> /\ ~eShown[n].wild}
           wild == {n \in DOMAIN eShown : eShown[n].wild /\ eShown[n].host # << >> /\ Over(eShown[n], host)}
           longest == {n \in wild : \A m \in wild : Len(eShown[m].host) <= Len(eShown[n].host)}
           Hosts(w) == {n \in DOMAIN eShown : eShown[n].host # << >> /\ eShown[n].wild = w}
           Suffix(k) == SubSeq(host, k, Len(host))
           cuts == {k \in 2 .. Len(host) : Suffix(k) \in DOMAIN eTable.wild}
<1>1. \A n \in DOMAIN eShown : eShown[n] \in EdgeRoute /\ eShown[n].wild \in BOOLEAN
  <2>1. eShown \in Seq(EdgeRoute)
    BY DEF EdgeTypes
  <2>2. \A n \in DOMAIN eShown : eShown[n] \in EdgeRoute
    BY <2>1
  <2> QED
    BY <2>2 DEF EdgeRoute
<1>2. /\ eTable.exact = [k \in {eShown[n].host : n \in Hosts(FALSE)} |->
                           eShown[Max({n \in Hosts(FALSE) : eShown[n].host = k})].target]
      /\ eTable.wild = [k \in {eShown[n].host : n \in Hosts(TRUE)} |->
                          eShown[Max({n \in Hosts(TRUE) : eShown[n].host = k})].target]
  BY DEF Set, addLocked
<1>3. /\ DOMAIN eTable.exact = {eShown[n].host : n \in Hosts(FALSE)}
      /\ DOMAIN eTable.wild = {eShown[n].host : n \in Hosts(TRUE)}
  BY <1>2
<1>4. CASE own # {}
  <2>1. host # << >> /\ host \in DOMAIN eTable.exact
    BY <1>1, <1>3, <1>4
  <2> DEFINE S == {n \in Hosts(FALSE) : eShown[n].host = host}
  <2>2. S = own
    BY <1>1, <2>1
  <2>3. eTable.exact[host] = eShown[Max(S)].target
    BY <1>2, <1>3, <2>1
  <2>4. TableLookup(host) = eTable.exact[host]
    BY <2>1 DEF TableLookup
  <2> QED
    BY <1>4, <2>2, <2>3, <2>4
<1>5. ASSUME own = {} PROVE host \notin DOMAIN eTable.exact
  <2>1. SUFFICES ASSUME host \in DOMAIN eTable.exact PROVE FALSE
    OBVIOUS
  <2>2. PICK n \in Hosts(FALSE) : eShown[n].host = host
    BY <1>3, <2>1
  <2>3. n \in own
    BY <1>1, <2>2
  <2> QED
    BY <1>5, <2>3
<1>6. Len(host) \in Nat /\ \A k \in 2 .. Len(host) : Len(Suffix(k)) = Len(host) - k + 1
  OBVIOUS
<1>7. \A k \in cuts : \E n \in wild : eShown[n].host = Suffix(k)
  <2> SUFFICES ASSUME NEW k \in cuts PROVE \E n \in wild : eShown[n].host = Suffix(k)
    OBVIOUS
  <2>1. PICK n \in Hosts(TRUE) : eShown[n].host = Suffix(k)
    BY <1>3
  <2>2. Over(eShown[n], host)
    BY <2>1 DEF Over
  <2> QED
    BY <2>1, <2>2
<1>8. \A n \in wild : \E k \in cuts : eShown[n].host = Suffix(k)
  <2> SUFFICES ASSUME NEW n \in wild PROVE \E k \in cuts : eShown[n].host = Suffix(k)
    OBVIOUS
  <2>1. PICK k \in 2 .. Len(host) : eShown[n].host = Suffix(k)
    BY DEF Over
  <2>2. n \in Hosts(TRUE)
    BY <1>1
  <2> QED
    BY <1>3, <2>1, <2>2
<1>9. CASE own = {} /\ wild = {}
  <2>1. cuts = {}
    BY <1>7, <1>9
  <2> QED
    BY <1>5, <1>9, <2>1 DEF TableLookup
<1>10. CASE own = {} /\ wild # {}
  <2>1. cuts # {} /\ cuts \in SUBSET Nat
    BY <1>6, <1>8, <1>10
  <2>2. Min(cuts) \in cuts /\ \A k \in cuts : Min(cuts) <= k
    BY <2>1, MinOfNumbers
  <2> DEFINE first == Min(cuts)
             S == {n \in Hosts(TRUE) : eShown[n].host = Suffix(first)}
  <2>3. TableLookup(host) = eTable.wild[Suffix(first)]
    BY <1>5, <1>10, <2>1 DEF TableLookup
  <2>4. eTable.wild[Suffix(first)] = eShown[Max(S)].target
    BY <1>2, <1>3, <2>2
  <2>5. first \in 2 .. Len(host) /\ first \in cuts /\ \A k \in cuts : first <= k
    BY <2>2
  <2> HIDE DEF first
  <2>6. PICK n0 \in wild : eShown[n0].host = Suffix(first)
    BY <1>7, <2>5
  <2>7. \A m \in wild : Len(eShown[m].host) <= Len(Suffix(first))
    <3> SUFFICES ASSUME NEW m \in wild PROVE Len(eShown[m].host) <= Len(Suffix(first))
      OBVIOUS
    <3>1. PICK k \in cuts : eShown[m].host = Suffix(k)
      BY <1>8
    <3>2. k \in 2 .. Len(host) /\ first <= k
      BY <2>5
    <3> QED
      BY <1>6, <2>5, <3>1, <3>2
  <2>8. S = longest
    <3>1. ASSUME NEW n \in S PROVE n \in longest
      <4>1. n \in wild
        BY <2>5 DEF Over
      <4> QED
        BY <2>7, <4>1
    <3>2. ASSUME NEW n \in longest PROVE n \in S
      <4>1. n \in wild /\ n \in Hosts(TRUE)
        BY <1>1
      <4>2. PICK k \in cuts : eShown[n].host = Suffix(k)
        BY <1>8, <4>1
      <4>3. Len(Suffix(first)) <= Len(Suffix(k))
        BY <2>6, <4>2
      <4>4. k \in 2 .. Len(host) /\ first <= k
        BY <2>5
      <4>5. k = first
        BY <1>6, <2>5, <4>3, <4>4
      <4> QED
        BY <4>1, <4>2, <4>5
    <3> QED
      BY <3>1, <3>2
  <2> QED
    BY <1>10, <2>3, <2>4, <2>8
<1> QED
  BY <1>4, <1>9, <1>10

LEMMA EdgeSound == EdgeIInv => EdgeInv
<1> SUFFICES ASSUME EdgeIInv PROVE EdgeInv
  OBVIOUS
<1>1. ASSUME eUp, NEW host \in AskedHosts
      PROVE  LET own == {n \in DOMAIN eShown : eShown[n].host = host /\ host # << >> /\ ~eShown[n].wild}
                 wild == {n \in DOMAIN eShown : eShown[n].wild /\ eShown[n].host # << >> /\ Over(eShown[n], host)}
                 longest == {n \in wild : \A m \in wild : Len(eShown[m].host) <= Len(eShown[n].host)}
             IN  TableLookup(host) = IF own # {} THEN eShown[Max(own)].target
                                     ELSE IF wild # {} THEN eShown[Max(longest)].target ELSE NoTarget
  <2>1. EdgeTypes /\ eTable = Set(eShown)
    BY <1>1 DEF EdgeIInv
  <2>2. host \in Seq(EdgeLabels)
    BY EdgeAssumption
  <2> QED
    BY <2>1, <2>2, LookupFinds
<1>2. HostsAsShown
  BY <1>1 DEF HostsAsShown
<1> QED
  BY <1>2 DEF EdgeIInv, EdgeInv
-----------------------------------------------------------------------------
\* No spelling of an address is of two nodes, a client that is up to date has
\* what was counted up unless its fetches have met, the edge sends requests where
\* one list of routes says, and a token enrols one machine (ipam.Allocate and
\* BindNode, client.Run with FetchAndApply and the route manager, edge.Table and
\* TCPProxy.Sync, TunnelAgentRegister).
THEOREM NetworkIsSound == ServicesSpec => []NetworkInv
<1> DEFINE NetworkIInv == OverlayIInv /\ ClientIInv /\ EdgeIInv /\ EnrolIInv
<1>1. ServicesInit => NetworkIInv
  BY OverlayFromTheStart, ClientFromTheStart, EdgeFromTheStart, EnrolFromTheStart DEF ServicesInit
<1>2. NetworkIInv /\ [ServicesNext]_servicesVars => NetworkIInv'
  <2> SUFFICES ASSUME NetworkIInv, [ServicesNext]_servicesVars PROVE NetworkIInv'
    OBVIOUS
  <2>1. (OverlayNext \/ UNCHANGED oVars) /\ (MeshNext \/ UNCHANGED mVars)
    BY DEF ServicesNext, servicesVars
  <2>2. (AccessNext \/ ForwardNext \/ UNCHANGED eVars) /\ (EnrolNext \/ UNCHANGED nVars)
    BY DEF ServicesNext, servicesVars
  <2>3. OverlayIInv' /\ ClientIInv'
    BY <2>1, OverlayKeeps, OverlayStays, ClientKeeps, ClientStays
  <2>4. EdgeIInv' /\ EnrolIInv'
    BY <2>2, AccessKeeps, ForwardKeeps, EdgeStays, EnrolKeeps, EnrolStays
  <2> QED
    BY <2>3, <2>4
<1>3. NetworkIInv => NetworkInv
  BY OverlaySound, ClientSound, EdgeSound, EnrolSound DEF NetworkInv
<1> QED
  BY <1>1, <1>2, <1>3, PTL DEF ServicesSpec
=============================================================================
