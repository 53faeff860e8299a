------------------------------- MODULE AiTokens -------------------------------
(***************************************************************************)
(* Access tokens for AI clients: a user's tokens are counted and one more  *)
(* is inserted in a transaction that holds an advisory lock for the user,  *)
(* tokens are revoked, deleted or grow old, and a token is worth what the  *)
(* account of its user is worth when it is used: the account may have been *)
(* disabled, deleted or given another role since.                          *)
(***************************************************************************)
EXTENDS Integers, FiniteSets

CONSTANTS
  TokenUsers,
  TokenIds,       \* the numbers tokens get, in order; with MaxTokens a bound
  Makers,         \* requests that create a token
  TokenRank,      \* of each user at first: 0 user, 1 admin, 2 superadmin
  RankChoices,    \* those an administrator gives
  ChangedUsers,   \* bound: users whose accounts change
  TokenTenant,    \* of each user
  Providers,      \* how users log in: "builtin" or another
  MinRank, MaxPerUser   \* the policy

ASSUME AiTokensAssumption ==
  /\ TokenIds \subseteq Nat /\ MaxPerUser \in Nat /\ MinRank \in 0..2
  /\ TokenRank \in [TokenUsers -> 0..2] /\ RankChoices \subseteq 0..2 /\ ChangedUsers \subseteq TokenUsers
  /\ DOMAIN TokenTenant = TokenUsers
  /\ "" \notin Makers /\ "" \notin TokenUsers

NoToken == [user |-> "", status |-> "none", by |-> "builtin"]
NoMake == [user |-> "", pc |-> "idle"]

VARIABLES
  tToken,     \* ai_access_tokens
  tNext,      \* the next number
  tLock,      \* pg_advisory_xact_lock of each user: its maker, "" if it is free
  tMake,      \* what each maker is at
  tUser,      \* local_users: "on", "off" or "gone"
  tRank       \* local_users.roles

tVars == << tToken, tNext, tLock, tMake, tUser, tRank >>

TokensInit ==
  /\ tToken = [i \in TokenIds |-> NoToken] /\ tNext = 1
  /\ tLock = [u \in TokenUsers |-> ""] /\ tMake = [p \in Makers |-> NoMake]
  /\ tUser = [u \in TokenUsers |-> "on"] /\ tRank = TokenRank

Active(u) == { i \in TokenIds : tToken[i].user = u /\ tToken[i].status = "active" }
CanCreate(u) == tRank[u] >= MinRank

\* visibility: the user's own, the tenant's, or all.
Visible(a, i) ==
  /\ tToken[i].status # "none"
  /\ \/ tRank[a] = 2
     \/ tRank[a] = 1 /\ TokenTenant[tToken[i].user] = TokenTenant[a]
     \/ tToken[i].user = a
-----------------------------------------------------------------------------

\* The account may be disabled or deleted while its request runs.
CreateBegins(p, u) ==
  /\ tMake[p] = NoMake /\ tUser[u] = "on" /\ CanCreate(u)
  /\ tMake' = [tMake EXCEPT ![p] = [user |-> u, pc |-> "lock"]]
  /\ UNCHANGED << tToken, tNext, tLock, tUser, tRank >>

TakeLock(p) ==
  /\ tMake[p].pc = "lock" /\ tLock[tMake[p].user] = ""
  /\ tLock' = [tLock EXCEPT ![tMake[p].user] = p]
  /\ tMake' = [tMake EXCEPT ![p].pc = "count"]
  /\ UNCHANGED << tToken, tNext, tUser, tRank >>

Unlocked(p) == tLock' = [u \in TokenUsers |-> IF tLock[u] = p THEN "" ELSE tLock[u]]

\* No limit if MaxPerUser is 0.
CountTokens(p) ==
  /\ tMake[p].pc = "count" /\ UNCHANGED << tToken, tNext, tUser, tRank >>
  /\ \/ /\ MaxPerUser = 0 \/ Cardinality(Active(tMake[p].user)) < MaxPerUser
        /\ tMake' = [tMake EXCEPT ![p].pc = "insert"] /\ UNCHANGED tLock
     \/ /\ MaxPerUser > 0 /\ Cardinality(Active(tMake[p].user)) >= MaxPerUser
        /\ tMake' = [tMake EXCEPT ![p] = NoMake] /\ Unlocked(p)

InsertToken(p, by) ==
  /\ tMake[p].pc = "insert" /\ tNext \in TokenIds
  /\ tToken' = [tToken EXCEPT ![tNext] = [user |-> tMake[p].user, status |-> "active", by |-> by]]
  /\ tNext' = tNext + 1 /\ tMake' = [tMake EXCEPT ![p] = NoMake] /\ Unlocked(p)
  /\ UNCHANGED << tUser, tRank >>

\* The client leaves or the transaction fails: it is rolled back.
CreateFails(p) ==
  /\ tMake[p] # NoMake /\ tMake' = [tMake EXCEPT ![p] = NoMake] /\ Unlocked(p)
  /\ UNCHANGED << tToken, tNext, tUser, tRank >>

Status(i, s) == tToken' = [tToken EXCEPT ![i].status = s] /\ UNCHANGED << tNext, tLock, tMake, tUser, tRank >>

Revoke(a, i) == tUser[a] = "on" /\ Visible(a, i) /\ Status(i, "revoked")
ExpireToken(i) == tToken[i].status = "active" /\ Status(i, "expired")

DeleteToken(a, i) ==
  /\ tUser[a] = "on" /\ Visible(a, i) /\ tToken' = [tToken EXCEPT ![i] = NoToken]
  /\ UNCHANGED << tNext, tLock, tMake, tUser, tRank >>

UserChanges(u, s) ==
  /\ tUser' = [tUser EXCEPT ![u] = s] /\ tUser[u] # s
  /\ UNCHANGED << tToken, tNext, tLock, tMake, tRank >>

RoleChanges(u, k) ==
  /\ tRank' = [tRank EXCEPT ![u] = k] /\ tRank[u] # k
  /\ UNCHANGED << tToken, tNext, tLock, tMake, tUser >>

\* The live account decides; a user of another provider may have none.
AuthenticateToken(i) ==
  /\ tToken[i].status = "active"
  /\ CASE tUser[tToken[i].user] = "on" -> TRUE
       [] tUser[tToken[i].user] = "off" -> FALSE
       [] OTHER -> tToken[i].by # "builtin"

TokensNext ==
  \/ \E p \in Makers :
       \/ \E u \in TokenUsers : CreateBegins(p, u)
       \/ TakeLock(p) \/ CountTokens(p) \/ (\E by \in Providers : InsertToken(p, by)) \/ CreateFails(p)
  \/ \E a \in TokenUsers, i \in TokenIds : Revoke(a, i) \/ DeleteToken(a, i)
  \/ \E i \in TokenIds : ExpireToken(i)
  \/ \E u \in ChangedUsers :
       (\E s \in {"on", "off", "gone"} : UserChanges(u, s)) \/ (\E k \in RankChoices : RoleChanges(u, k))
-----------------------------------------------------------------------------
(* Properties *)

TokensTypeOK ==
  /\ \A i \in TokenIds : tToken[i].status \in {"none", "active", "revoked", "expired"}
  /\ tLock \in [TokenUsers -> Makers \cup {""}]

\* However many ask at a time, on whatever replica.
TokensWithinLimit == MaxPerUser > 0 => \A u \in TokenUsers : Cardinality(Active(u)) <= MaxPerUser

\* Whoever has counted holds the lock of his user.
CountedUnderLock ==
  \A p \in Makers : tMake[p].pc \in {"count", "insert"} => tLock[tMake[p].user] = p

\* Nobody holds more tokens than the policy allows, whatever requests of one
\* user meet, fail or leave (Create).
TokensInv == TokensTypeOK /\ TokensWithinLimit /\ CountedUnderLock

\* Deliberately not checked, the code does not keep it: a token works only while
\* its user is still of the rank the policy asks for (Authenticate takes the
\* roles of now and compares them with no policy).
DemotedTokensGo == \A i \in TokenIds : AuthenticateToken(i) => CanCreate(tToken[i].user)
=============================================================================
