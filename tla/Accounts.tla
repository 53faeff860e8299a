------------------------------- MODULE Accounts -------------------------------
(***************************************************************************)
(* Local accounts and their sessions: rows of local_users, the copy of a   *)
(* row that each replica keeps for half a minute, signed sessions that are *)
(* good if they are not older than the last change of the row, and the     *)
(* operations of users and administrators.  A lookup reads the row and     *)
(* fills the cache in a second step; an operation checks first and writes  *)
(* later.                                                                  *)
(*                                                                         *)
(* updated_at is the clock of the database, of which several statements    *)
(* may share a tick: a second on SQLite, and on PostgreSQL the millisecond *)
(* to which sessions are rounded up.  A login is stamped by the clock of   *)
(* its replica.  A statement takes effect in the tick of its NOW().        *)
(* Sessions expire after days, which no history here reaches.              *)
(***************************************************************************)
EXTENDS Integers, FiniteSets

CONSTANTS
  AccReplicas,
  Accounts,       \* users
  Visitors,       \* bound: users who come again; the others do all within half a minute
  Newcomers,      \* those of them without an account at first
  StartRow,       \* role and tenant of each at first
  RoleChoices,    \* roles and tenants an administrator gives
  Deeds,          \* bound: what administrators do: operation, who, whose account
  Skew, MaxSkew,  \* how far the clock of each replica is ahead of the database's
  MaxChanges,     \* bound: changes of accounts
  MaxLooks        \* bound: lookups and logins

ASSUME AccountsAssumption ==
  /\ Visitors \cup Newcomers \subseteq Accounts
  /\ \A u \in Accounts : StartRow[u].role \in {"user", "admin", "superadmin"}
  /\ Deeds \subseteq {"roles", "disable", "delete", "reset"} \X Accounts \X Accounts /\ RoleChoices # {}
  /\ MaxSkew \in Nat /\ Skew \in [AccReplicas -> -MaxSkew .. MaxSkew]
  /\ MaxChanges \in Nat /\ MaxLooks \in Nat

\* changed (history): the tick of the last change.
NoRow == [there |-> FALSE, role |-> "user", tenant |-> 0, off |-> FALSE, pw |-> 0, at |-> 0, changed |-> 0]
NoLookup == [kind |-> "none", user |-> "", row |-> NoRow]
NoOp == [op |-> "none", user |-> "", super |-> FALSE, tenant |-> 0, role |-> "user",
         to |-> 0, off |-> FALSE, pw |-> 0]

VARIABLES
  uRow,       \* local_users
  uClock,     \* NOW(), in ticks
  uChanges,   \* bound; names what is changed
  uCache,     \* the cached row of each replica
  uLook,      \* the login or lookup under way on a replica: the row it has read
  uOp,        \* the operation under way on a replica, its checks done
  uSession,   \* the sessions of each user: what they are stamped with; history: their tick
  uOwn,       \* history: the last session a user got for a password change
  uMade,      \* newcomers that have had an account
  uUsed,      \* history: passwords that were changed, with the user
  uTouched,   \* history: an administrator's account was changed by less than a superadmin
  uLooks     \* bound

uVars == << uRow, uClock, uChanges, uCache, uLook, uOp, uSession, uOwn, uMade, uUsed, uTouched, uLooks >>

SessionMade(iat, when) == [iat |-> iat, when |-> when]

\* The replicas have looked everyone up.
AccountsInit ==
  /\ uRow = [u \in Accounts |->
       IF u \in Newcomers THEN NoRow
       ELSE [NoRow EXCEPT !.there = TRUE, !.role = StartRow[u].role, !.tenant = StartRow[u].tenant]]
  /\ uClock = 0 /\ uChanges = 0 /\ uCache = [r \in AccReplicas |-> uRow]
  /\ uLook = [r \in AccReplicas |-> NoLookup] /\ uOp = [r \in AccReplicas |-> NoOp]
  /\ uSession = [u \in Accounts |-> IF u \in Newcomers THEN {} ELSE {SessionMade(0, 0)}]
  /\ uOwn = [u \in Accounts |-> 0] /\ uMade = {} /\ uUsed = {} /\ uTouched = FALSE /\ uLooks = 0


\* A statement runs in the tick of the one before it or in a later one.
Passes == uClock' \in {uClock, uClock + 1}
Change == uChanges < MaxChanges /\ uChanges' = uChanges + 1 /\ Passes
Looks == uLooks < MaxLooks /\ uLooks' = uLooks + 1
Remember(r, u, row) == uCache' = [uCache EXCEPT ![r][u] = row]
hasAdminRole(row) == row.role \in {"admin", "superadmin"}
-----------------------------------------------------------------------------
(* Sessions *)

\* The row of the cache decides: not disabled, and the session not older.
Authenticate(r, u, iat) ==
  LET row == uCache[r][u] IN row.there /\ ~row.off /\ iat >= row.at

SomeSession(r, u) == \E s \in uSession[u] : Authenticate(r, u, s.iat)

\* defaultLookup: without a cached row, or when half a minute is over, the table
\* is read ...
LookupReads(r, u) ==
  /\ uLook[r] = NoLookup /\ Looks
  /\ Remember(r, u, NoRow)
  /\ uLook' = IF uRow[u].there
              THEN [uLook EXCEPT ![r] = [kind |-> "lookup", user |-> u, row |-> uRow[u]]]
              ELSE uLook
  /\ UNCHANGED << uRow, uClock, uChanges, uOp, uSession, uOwn, uMade, uUsed, uTouched >>

\* ... and so does a login, for an account that is not disabled.
LoginReads(r, u) ==
  /\ uLook[r] = NoLookup /\ uRow[u].there /\ ~uRow[u].off
  /\ Looks
  /\ uLook' = [uLook EXCEPT ![r] = [kind |-> "login", user |-> u, row |-> uRow[u]]]
  /\ UNCHANGED << uRow, uClock, uChanges, uCache, uOp, uSession, uOwn, uMade, uUsed, uTouched >>

\* The row goes into the cache; a login issues a session of the replica's time.
LookupDone(r) ==
  LET l == uLook[r] IN
  /\ l # NoLookup
  /\ Remember(r, l.user, l.row)
  /\ \/ l.kind = "lookup" /\ UNCHANGED << uClock, uSession >>
     \/ /\ l.kind = "login" /\ Passes
        /\ uSession' = [uSession EXCEPT ![l.user] =
             @ \cup {SessionMade(uClock' + Skew[r], uClock')}]
  /\ uLook' = [uLook EXCEPT ![r] = NoLookup]
  /\ UNCHANGED << uRow, uChanges, uOp, uOwn, uMade, uUsed, uTouched, uLooks >>
-----------------------------------------------------------------------------
(* The password of one's own *)

\* Someone with a good session and the old password begins.
ChangeReads(r, u) ==
  /\ uOp[r] = NoOp /\ uRow[u].there /\ ~uRow[u].off
  /\ SomeSession(r, u)
  /\ uOp' = [uOp EXCEPT ![r] = [NoOp EXCEPT !.op = "change", !.user = u, !.pw = uRow[u].pw]]
  /\ UNCHANGED << uRow, uClock, uChanges, uCache, uLook, uSession, uOwn, uMade, uUsed, uTouched, uLooks >>

\* The hash must still be the one that was compared.  The cached row goes, and
\* the new session is stamped with updated_at.  (If its lookup fails there is
\* none, which leaves less to go wrong.)
ChangePassword(r) ==
  LET o == uOp[r]
      u == o.user IN
  /\ o.op = "change" /\ uRow[u].there /\ uRow[u].pw = o.pw /\ Change
  /\ uRow' = [uRow EXCEPT ![u].pw = uChanges', ![u].at = uClock', ![u].changed = uClock']
  /\ Remember(r, u, NoRow)
  /\ uSession' = [uSession EXCEPT ![u] = @ \cup {SessionMade(uClock', uClock')}]
  /\ uOwn' = [uOwn EXCEPT ![u] = uClock']
  /\ uUsed' = uUsed \cup { << u, o.pw, uChanges' >> }
  /\ uOp' = [uOp EXCEPT ![r] = NoOp]
  /\ UNCHANGED << uLook, uMade, uTouched, uLooks >>

\* The password is another by now.
ChangeRefused(r) ==
  /\ uOp[r].op = "change" /\ (~uRow[uOp[r].user].there \/ uRow[uOp[r].user].pw # uOp[r].pw)
  /\ uOp' = [uOp EXCEPT ![r] = NoOp]
  /\ UNCHANGED << uRow, uClock, uChanges, uCache, uLook, uSession, uOwn, uMade, uUsed, uTouched, uLooks >>
-----------------------------------------------------------------------------
(* Administrators *)

\* What the replica knows of the actor decides what he may do.
Super(r, a) == uCache[r][a].role = "superadmin"

\* An administrator who is no superadmin reaches the users of his tenant only,
\* none of them an administrator.
MayTouch(super, tenant, row) == super \/ (row.tenant = tenant /\ ~hasAdminRole(row))

\* resolveTarget: what he may make of an account.
resolveTarget(super, tenant, want) == super \/ (want.role # "superadmin" /\ want.tenant = tenant)

\* SetTenantRoles, SetDisabled, Delete and ResetPassword: the checks ...
AdminReads(r, a, u, op, want, off) ==
  LET me == uCache[r][a] IN
  /\ uOp[r] = NoOp /\ SomeSession(r, a) /\ hasAdminRole(me)
  /\ uRow[u].there /\ MayTouch(Super(r, a), me.tenant, uRow[u])
  /\ op = "roles" => resolveTarget(Super(r, a), me.tenant, want)
  /\ op = "delete" \/ (op = "disable" /\ off) => a # u
  /\ uOp' = [uOp EXCEPT ![r] = [op |-> op, user |-> u, super |-> Super(r, a),
               tenant |-> me.tenant, role |-> want.role, to |-> want.tenant, off |-> off, pw |-> 0]]
  /\ UNCHANGED << uRow, uClock, uChanges, uCache, uLook, uSession, uOwn, uMade, uUsed, uTouched, uLooks >>

\* Trusts what was read.
notAdminCondMutant(o, row) == row.there

\* ... and the write.  notAdminCond: the first two check again in the update.
notAdminCond(o, row) == row.there /\ MayTouch(o.super, o.tenant, row)

\* Every write of a row says so in updated_at.
Written(r, u, row) ==
  /\ Change
  /\ uRow' = [uRow EXCEPT ![u] =
       IF row.there THEN [row EXCEPT !.at = uClock', !.changed = uClock'] ELSE row]
  /\ uOp' = [uOp EXCEPT ![r] = NoOp]
  /\ UNCHANGED << uCache, uLook, uSession, uOwn, uMade, uUsed, uLooks >>

SetTenantRoles(r) ==
  LET o == uOp[r] IN
  /\ o.op = "roles" /\ notAdminCond(o, uRow[o.user])
  /\ Written(r, o.user, [uRow[o.user] EXCEPT !.role = o.role, !.tenant = o.to])
  /\ uTouched' = (uTouched \/ (~o.super /\ hasAdminRole(uRow[o.user])))

SetDisabled(r) ==
  LET o == uOp[r] IN
  /\ o.op = "disable" /\ notAdminCond(o, uRow[o.user])
  /\ Written(r, o.user, [uRow[o.user] EXCEPT !.off = o.off])
  /\ uTouched' = (uTouched \/ (~o.super /\ hasAdminRole(uRow[o.user])))

\* These two do not.
Delete(r) ==
  /\ uOp[r].op = "delete" /\ uRow[uOp[r].user].there
  /\ Written(r, uOp[r].user, NoRow) /\ UNCHANGED uTouched

ResetPassword(r) ==
  LET u == uOp[r].user IN
  /\ uOp[r].op = "reset" /\ uRow[u].there
  /\ Written(r, u, [uRow[u] EXCEPT !.pw = uChanges + 1]) /\ UNCHANGED uTouched

\* No row was changed.
AdminRefused(r) ==
  LET o == uOp[r] IN
  /\ o.op \in {"roles", "disable", "delete", "reset"}
  /\ IF o.op \in {"roles", "disable"} THEN ~notAdminCond(o, uRow[o.user]) ELSE ~uRow[o.user].there
  /\ uOp' = [uOp EXCEPT ![r] = NoOp]
  /\ UNCHANGED << uRow, uClock, uChanges, uCache, uLook, uSession, uOwn, uMade, uUsed, uTouched, uLooks >>

\* A new account, of what its creator may make; a name that was deleted would
\* have another number the next time.
Create(r, a, u, want) ==
  LET me == uCache[r][a] IN
  /\ SomeSession(r, a) /\ hasAdminRole(me)
  /\ resolveTarget(Super(r, a), me.tenant, want)
  /\ ~uRow[u].there /\ u \notin uMade /\ Change
  /\ uMade' = uMade \cup {u}
  /\ uRow' = [uRow EXCEPT ![u] = [there |-> TRUE, role |-> want.role, tenant |-> want.tenant,
                                  off |-> FALSE, pw |-> uChanges', at |-> uClock',
                                  changed |-> uClock']]
  /\ UNCHANGED << uCache, uLook, uOp, uSession, uOwn, uUsed, uTouched, uLooks >>

AccountsNext ==
  \E r \in AccReplicas :
    \/ \E u \in Visitors : LookupReads(r, u) \/ LoginReads(r, u) \/ ChangeReads(r, u)
    \/ LookupDone(r) \/ ChangePassword(r) \/ ChangeRefused(r)
    \/ \E d \in Deeds :
         \E want \in IF d[1] = "roles" THEN RoleChoices ELSE {CHOOSE x \in RoleChoices : TRUE},
            off \in IF d[1] = "disable" THEN BOOLEAN ELSE {FALSE} :
              AdminReads(r, d[2], d[3], d[1], want, off)
    \/ \E a \in Accounts, u \in Newcomers, want \in RoleChoices : Create(r, a, u, want)
    \/ SetTenantRoles(r) \/ SetDisabled(r) \/ Delete(r) \/ ResetPassword(r) \/ AdminRefused(r)
-----------------------------------------------------------------------------
(* Properties *)

AccountsTypeOK ==
  /\ uClock \in Nat /\ uChanges \in 0..MaxChanges
  /\ \A u \in Accounts : uRow[u].at \in 0..uClock /\ \A s \in uSession[u] : s.when \in 0..uClock

\* Of those who change one password at a time one succeeds, on any replica.
OneChangeWins ==
  \A x, y \in uUsed : x[1] = y[1] /\ x[2] = y[2] => x = y

\* The session one gets for a new password is good on every replica, whatever
\* it has cached, unless the account was changed since or was disabled before.
OwnSessionGood ==
  \A u \in Accounts, r \in AccReplicas :
    uRow[u].there /\ uOwn[u] = uRow[u].at =>
      LET row == uCache[r][u] IN row.there /\ ~row.off => Authenticate(r, u, uOwn[u])

\* A replica that knows the row as it is takes no session from before the last
\* change of the password, the role or the account, but for one of a clock that
\* is ahead: whichever statement changes the row says so in updated_at.
OldSessionsGo ==
  \A u \in Accounts, r \in AccReplicas : uCache[r][u] = uRow[u] =>
    \A s \in uSession[u] : Authenticate(r, u, s.iat) => s.when + MaxSkew >= uRow[u].changed

\* Accounts change as their holder or an administrator of higher rank says
\* (ChangePassword, SetTenantRoles, SetDisabled, Authenticate).
AccountsInv ==
  /\ AccountsTypeOK /\ OneChangeWins /\ OwnSessionGood /\ OldSessionsGo /\ ~uTouched

\* Deliberately not checked, the code does not keep them: another replica
\* takes no session from before the change; nor does one that knows the row,
\* though the stamp is to tell whether the session is earlier than the last
\* change (session.go 33: a clock ahead, a shared tick and a login that began
\* before the change let it pass); there is always a superadmin.
OldSessionsGoAtOnce ==
  \A u \in Accounts, r \in AccReplicas : \A s \in uSession[u] :
    Authenticate(r, u, s.iat) => s.iat >= uRow[u].at
OldLoginsGo ==
  \A u \in Accounts, r \in AccReplicas : uCache[r][u] = uRow[u] =>
    \A s \in uSession[u] : Authenticate(r, u, s.iat) => s.when >= uRow[u].changed
SuperadminStays == \E u \in Accounts : uRow[u].there /\ ~uRow[u].off /\ uRow[u].role = "superadmin"
=============================================================================
