----------------------------- MODULE Enrolment ------------------------------
(***************************************************************************)
(* How a machine becomes a host of a tenant: enrolment tokens and their    *)
(* administration, the registration transaction, the heartbeat that        *)
(* corrects a loopback address, and the deletion of a host.                *)
(*                                                                         *)
(* A registration consumes its token in the transaction that writes the    *)
(* host and the credentials, so the token's row stays locked from Consume  *)
(* to the commit or the rollback; an administrator's statement on that row *)
(* waits.  The advisory lock on the address keeps two registrations from   *)
(* one address apart.  Behind a proxy that is not trusted yet every        *)
(* machine is seen at the loopback address.                                *)
(***************************************************************************)
EXTENDS Integers, FiniteSets

CONSTANTS
  Machines,       \* the machines, each named by its address
  Loop,           \* the loopback address
  Tenants,
  MaxTokens,      \* bound: tokens ever made
  EnrolPolicies,  \* what an administrator asks for: kind, tenant, max, nets
  MaxHosts,       \* bound: host rows ever made
  MaxRegs,        \* bound: registrations begun
  MaxLost         \* bound: answers lost

ASSUME EnrolmentAssumption ==
  /\ Loop \notin Machines
  /\ MaxTokens \in Nat /\ MaxHosts \in Nat /\ MaxRegs \in Nat /\ MaxLost \in Nat
  /\ \A p \in EnrolPolicies :
       /\ p.kind \in {"one_time", "automation"} /\ p.tenant \in Tenants /\ p.max \in Nat
       /\ p.nets \subseteq Machines \cup {Loop}
  /\ {"none", "deleted"} \cap (Machines \cup {Loop}) = {}

EnrolTokens == 1 .. MaxTokens
Addresses == Machines \cup {Loop}
NoToken == [kind |-> "none"]
NoHost == [ip |-> "none"]

VARIABLES
  eTok,           \* the rows of enroll_tokens
  eHost,          \* the rows of hosts, by id
  eAgents,        \* the rows of agents
  eTx,            \* the registration of each machine
  eCred,          \* the credentials each machine holds; 0 for none
  eTrusted,       \* the proxy's forwarding header is trusted
  eCommits,       \* history: the token and the state of its row at each commit
  eNext, eLost    \* bounds

eVars == << eTok, eHost, eAgents, eTx, eCred, eTrusted, eCommits, eNext, eLost >>

EnrolmentInit ==
  /\ eTok = [t \in EnrolTokens |-> NoToken]
  /\ eHost = [h \in 1 .. MaxHosts |-> NoHost]
  /\ eAgents = {}
  /\ eTx = [m \in Machines |-> [pc |-> "idle"]]
  /\ eCred = [m \in Machines |-> 0]
  /\ eTrusted = FALSE
  /\ eCommits = {}
  /\ eNext = 1
  /\ eLost = 0

\* The address a request of m comes from, as the server resolves it.
clientIP(m) == IF eTrusted THEN m ELSE Loop

Locked(t) == \E m \in Machines : eTx[m].pc = "consumed" /\ eTx[m].tok = t
HostAt(ip) == {h \in DOMAIN eHost : eHost[h].ip = ip}
FreshHost == {h \in DOMAIN eHost : eHost[h] = NoHost /\ \A i \in 1 .. (h - 1) : eHost[i] # NoHost}
-----------------------------------------------------------------------------
(* The administrator *)

\* The list shows a token by the first reason that keeps it from admitting.
TokenStatus(t) ==
  IF eTok[t].kind \notin {"one_time", "automation"} THEN "absent"
  ELSE IF ~eTok[t].enabled THEN "revoked"
  ELSE IF eTok[t].expired THEN "expired"
  ELSE IF eTok[t].max > 0 /\ eTok[t].used >= eTok[t].max THEN "exhausted"
  ELSE "active"

insertToken(t, p) ==
  eTok' = [eTok EXCEPT ![t] =
            [kind |-> p.kind, tenant |-> p.tenant, max |-> p.max, nets |-> p.nets,
             used |-> 0, enabled |-> TRUE, expired |-> FALSE]]

FreshToken(t) == eTok[t] = NoToken /\ \A s \in 1 .. (t - 1) : eTok[s] # NoToken

\* A one-time token, or an automation token with its policy.
AgentEnrollToken(t) ==
  /\ FreshToken(t)
  /\ \E p \in EnrolPolicies : p.kind = "one_time" /\ insertToken(t, p)
  /\ UNCHANGED << eHost, eAgents, eTx, eCred, eTrusted, eCommits, eNext, eLost >>

AutomationEnrollTokenCreate(t) ==
  /\ FreshToken(t)
  /\ \E p \in EnrolPolicies : p.kind = "automation" /\ insertToken(t, p)
  /\ UNCHANGED << eHost, eAgents, eTx, eCred, eTrusted, eCommits, eNext, eLost >>

Automation(t) == eTok[t] # NoToken /\ eTok[t].kind = "automation" /\ ~Locked(t)

AutomationEnrollTokenRevoke(t) ==
  /\ Automation(t)
  /\ eTok' = [eTok EXCEPT ![t].enabled = FALSE]
  /\ UNCHANGED << eHost, eAgents, eTx, eCred, eTrusted, eCommits, eNext, eLost >>

\* A new token with the same policy and no use yet replaces the old one.  A
\* revoked or expired token is refused; an exhausted one is not.
AutomationEnrollTokenRotate(t, new) ==
  /\ Automation(t) /\ FreshToken(new)
  /\ TokenStatus(t) \in {"active", "exhausted"}
  /\ eTok' = [eTok EXCEPT ![t].enabled = FALSE,
                          ![new] = [eTok[t] EXCEPT !.used = 0]]
  /\ UNCHANGED << eHost, eAgents, eTx, eCred, eTrusted, eCommits, eNext, eLost >>

\* One statement per token; the ids are never used again.
AutomationEnrollTokenBatchDelete(t) ==
  /\ Automation(t)
  /\ eTok' = [eTok EXCEPT ![t] = [kind |-> "deleted"]]
  /\ UNCHANGED << eHost, eAgents, eTx, eCred, eTrusted, eCommits, eNext, eLost >>

Expire(t) ==
  /\ eTok[t].kind \in {"one_time", "automation"} /\ ~eTok[t].expired
  /\ eTok' = [eTok EXCEPT ![t].expired = TRUE]
  /\ UNCHANGED << eHost, eAgents, eTx, eCred, eTrusted, eCommits, eNext, eLost >>

\* The administrator corrects trust_proxy and the header the proxy sends.
TrustProxy ==
  /\ ~eTrusted /\ \A m \in Machines : eTx[m].pc = "idle"
  /\ eTrusted' = TRUE
  /\ UNCHANGED << eTok, eHost, eAgents, eTx, eCred, eCommits, eNext, eLost >>

\* Deletes the host and revokes its credentials by id, address and agent.
HostDelete(h) ==
  /\ eHost[h].ip \in Addresses
  /\ eAgents' = {a \in eAgents : a.host # h /\ a.ip # eHost[h].ip /\ a.id # eHost[h].agent}
  /\ eHost' = [eHost EXCEPT ![h] = [ip |-> "deleted"]]
  /\ UNCHANGED << eTok, eTx, eCred, eTrusted, eCommits, eNext, eLost >>
-----------------------------------------------------------------------------
(* Registration *)

\* m asks with the token it was installed with and waits for the lock on the
\* address.
AgentRegister(m, t) ==
  /\ eTx[m].pc = "idle" /\ eNext <= MaxRegs
  /\ eTok[t] # NoToken
  /\ \A n \in Machines : eTx[n].pc \in {"locked", "consumed"} => eTx[n].ip # clientIP(m)
  /\ eTx' = [eTx EXCEPT ![m] = [pc |-> "locked", tok |-> t, ip |-> clientIP(m), id |-> eNext]]
  /\ eNext' = eNext + 1
  /\ UNCHANGED << eTok, eHost, eAgents, eCred, eTrusted, eCommits, eLost >>

\* The condition of the one UPDATE that consumes a token.
Admits(t, ip) ==
  /\ eTok[t].kind \in {"one_time", "automation"}
  /\ eTok[t].enabled /\ ~eTok[t].expired
  /\ IF eTok[t].kind = "one_time" THEN eTok[t].used = 0
     ELSE eTok[t].max = 0 \/ eTok[t].used < eTok[t].max
  /\ ip \in eTok[t].nets

\* The UPDATE waits for the row and decides on what it then finds.
consumeEnrollTokenTx(m) ==
  /\ eTx[m].pc = "locked" /\ ~Locked(eTx[m].tok)
  /\ IF Admits(eTx[m].tok, eTx[m].ip)
     THEN /\ eTok' = [eTok EXCEPT ![eTx[m].tok].used = @ + 1]
          /\ eTx' = [eTx EXCEPT ![m].pc = "consumed"]
     ELSE /\ eTx' = [eTx EXCEPT ![m] = [pc |-> "idle"]]
          /\ UNCHANGED eTok
  /\ UNCHANGED << eHost, eAgents, eCred, eTrusted, eCommits, eNext, eLost >>

\* The upsert changes a row only within its tenant.
OwnHost(h, tenant) == eHost[h].tenant = tenant

\* Revokes by address alone.
OldCredentialsMutant(ip, h) == {a \in eAgents : a.ip = ip}

\* The credentials a registration revokes.
OldCredentials(ip, h) == {a \in eAgents : a.ip = ip \/ a.host = h}

\* The old credentials go before the new ones come.
NewCredentials(a) == (eAgents \ OldCredentials(a.ip, a.host)) \cup {a}

\* Writes the host and the credentials and commits.
CommitRegister(m) ==
  LET x == eTx[m]
      tenant == eTok[x.tok].tenant
  IN  /\ x.pc = "consumed"
      /\ \E h \in IF HostAt(x.ip) = {} THEN FreshHost ELSE {h \in HostAt(x.ip) : OwnHost(h, tenant)} :
           /\ eHost' = [eHost EXCEPT ![h] = [ip |-> x.ip, agent |-> x.id,
                          tenant |-> IF eHost[h] = NoHost THEN tenant ELSE @.tenant]]
           /\ eAgents' = NewCredentials([id |-> x.id, host |-> h, ip |-> x.ip, tenant |-> tenant])
      /\ eCommits' = eCommits \cup {[tok |-> x.tok, id |-> x.id, status |-> TokenStatus(x.tok)]}
      /\ eTx' = [eTx EXCEPT ![m] = [pc |-> "answer", tok |-> x.tok, ip |-> x.ip, id |-> x.id]]
      /\ UNCHANGED << eTok, eCred, eTrusted, eNext, eLost >>

\* The address belongs to another tenant, a statement fails or the server
\* stops: everything is undone, the use of the token too.
RollbackRegister(m) ==
  /\ eTx[m].pc = "consumed"
  /\ eTok' = [eTok EXCEPT ![eTx[m].tok].used = @ - 1]
  /\ eTx' = [eTx EXCEPT ![m] = [pc |-> "idle"]]
  /\ UNCHANGED << eHost, eAgents, eCred, eTrusted, eCommits, eNext, eLost >>

\* The answer arrives, or it is lost and the machine will ask again.
Answer(m) ==
  /\ eTx[m].pc = "answer"
  /\ eTx' = [eTx EXCEPT ![m] = [pc |-> "idle"]]
  /\ \/ eCred' = [eCred EXCEPT ![m] = eTx[m].id] /\ UNCHANGED eLost
     \/ eLost < MaxLost /\ eLost' = eLost + 1 /\ UNCHANGED eCred
  /\ UNCHANGED << eTok, eHost, eAgents, eTrusted, eCommits, eNext >>
-----------------------------------------------------------------------------
(* The heartbeat moves a host from the loopback address to the real one, and
   then its credentials: two statements of their own.  Another host at that
   address makes the first one fail. *)

Authentic(m) == \E a \in eAgents : a.id = eCred[m]

MoveHost(m) ==
  /\ Authentic(m) /\ eTrusted
  /\ \E h \in DOMAIN eHost :
       /\ eHost[h].ip = Loop /\ eHost[h].agent = eCred[m]
       /\ HostAt(m) = {}
       /\ eHost' = [eHost EXCEPT ![h].ip = m]
  /\ UNCHANGED << eTok, eAgents, eTx, eCred, eTrusted, eCommits, eNext, eLost >>

\* The second statement, of this heartbeat or of a later one.
MoveCredentials(m) ==
  /\ Authentic(m) /\ eTrusted
  /\ ~ \E h \in DOMAIN eHost : eHost[h].ip = Loop /\ eHost[h].agent = eCred[m]
  /\ \E a \in eAgents :
       /\ a.id = eCred[m] /\ a.ip = Loop
       /\ eAgents' = (eAgents \ {a}) \cup {[a EXCEPT !.ip = m]}
  /\ UNCHANGED << eTok, eHost, eTx, eCred, eTrusted, eCommits, eNext, eLost >>
-----------------------------------------------------------------------------
EnrolmentNext ==
  \/ \E t \in EnrolTokens :
       \/ AgentEnrollToken(t) \/ AutomationEnrollTokenCreate(t)
       \/ AutomationEnrollTokenRevoke(t) \/ AutomationEnrollTokenBatchDelete(t)
       \/ Expire(t)
       \/ \E new \in EnrolTokens : AutomationEnrollTokenRotate(t, new)
       \/ \E m \in Machines : AgentRegister(m, t)
  \/ \E h \in DOMAIN eHost : HostDelete(h)
  \/ \E m \in Machines :
       \/ consumeEnrollTokenTx(m) \/ CommitRegister(m) \/ RollbackRegister(m)
       \/ Answer(m) \/ MoveHost(m) \/ MoveCredentials(m)
  \/ TrustProxy

EnrolmentSpec == EnrolmentInit /\ [][EnrolmentNext]_eVars
-----------------------------------------------------------------------------
EnrolmentTypeOK ==
  /\ \A t \in EnrolTokens : TokenStatus(t) \in {"absent", "revoked", "expired", "exhausted", "active"}
  /\ \A a \in eAgents : a.id \in 1 .. MaxRegs /\ a.ip \in Addresses /\ a.host \in DOMAIN eHost
  /\ eCred \in [Machines -> 0 .. MaxRegs]
  /\ eNext \in 1 .. (MaxRegs + 1)
  /\ eLost \in 0 .. MaxLost

\* A token counts the registrations it admitted, also when transactions meet
\* on its row or are rolled back, and never admits more than it may:
\* consumeEnrollTokenTx checks and counts in one UPDATE of the transaction.
UsesHonest ==
  \A t \in EnrolTokens : TokenStatus(t) # "absent" =>
    /\ eTok[t].used = Cardinality({c \in eCommits : c.tok = t}) + (IF Locked(t) THEN 1 ELSE 0)
    /\ eTok[t].max > 0 => eTok[t].used <= eTok[t].max

\* Once a token is revoked, rotated away or deleted no registration commits
\* with it, not even one that was under way: it held the row.
RevokedAdmitsNobody == \A c \in eCommits : c.status \notin {"revoked", "absent"}

\* A host and an address have at most one set of credentials, whatever
\* registrations, moves from the loopback address and deletions came before.
OneCredential ==
  \A a, b \in eAgents : a.host = b.host \/ a.ip = b.ip => a = b

\* Credentials belong to a host of the tenant whose token admitted them: a
\* machine at a known address never takes over another tenant's host.
CredentialKeepsTenant ==
  \A a \in eAgents : eHost[a.host].ip \in Addresses => eHost[a.host].tenant = a.tenant

\* The agent a host is bound to can authenticate, also between the two
\* statements that move a host and its credentials from the loopback address.
HostHasCredential ==
  \A h \in DOMAIN eHost : eHost[h].ip \in Addresses =>
    \E a \in eAgents : a.id = eHost[h].agent /\ a.host = h

\* What tokens, hosts and credentials owe each other.
EnrolmentInv ==
  /\ EnrolmentTypeOK /\ UsesHonest /\ RevokedAdmitsNobody
  /\ OneCredential /\ CredentialKeepsTenant /\ HostHasCredential

\* A token is not spent for nothing: a machine holds what it bought.
TokenNotWasted ==
  \A c \in eCommits :
    \/ \E m \in Machines : eTx[m].pc = "answer" /\ eTx[m].id = c.id
    \/ \E m \in Machines : eCred[m] >= c.id
=============================================================================
