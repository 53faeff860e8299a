------------------------------ MODULE MeshClient ------------------------------
(***************************************************************************)
(* One overlay client and what the server tells it.  The row of the client *)
(* has a revision of its configuration; an administrator who renews its    *)
(* certificate or revokes one of the network writes that and then counts   *)
(* the revision up.  The client compares the revision of each heartbeat    *)
(* with its own, fetches the bundle, writes its files, notes the revision  *)
(* and reloads the tunnel.  Beside it a route manager probes the gateways  *)
(* of the routes that were in the files when it began, and reloads the     *)
(* tunnel with those that work.                                            *)
(***************************************************************************)
EXTENDS Naturals, FiniteSets, FiniteSetsExt

CONSTANTS
  Fingerprints,    \* certificates of other nodes that may be revoked
  Gateways,        \* gateways of routes
  RouteSets,       \* what the routes of the network may be
  Loaders,         \* who fetches the bundle: "run", and perhaps "config"
  MaxRenewals,     \* bound: renewals of the certificate
  MaxRouteEdits,   \* bound: changes of the routes
  MaxClientFaults  \* bound: fetches that fail and stops of the client

\* A route: how its gateways are used, what to do when none works, and the
\* priority of each gateway, any int, counted here from the least there is.
ASSUME MeshAssumption ==
  /\ "run" \in Loaders /\ MaxRenewals \in Nat /\ MaxRouteEdits \in Nat /\ MaxClientFaults \in Nat
  /\ \A s \in RouteSets : \A t \in s :
       /\ t.mode \in {"active_active", "active_passive"}
       /\ t.allDown \in {"fail_closed", "fail_open", "blackhole"}
       /\ DOMAIN t.prio \subseteq Gateways /\ t.prio \in [DOMAIN t.prio -> Nat]

NoFiles == [cert |-> 0, block |-> {}, routes |-> {}]
NoBundle == [pc |-> "none", rev |-> 0, files |-> NoFiles]
NoManager == [specs |-> {}, eff |-> {}, hash |-> FALSE, pc |-> "idle", base |-> NoFiles]
NoTunnel == [up |-> FALSE, files |-> NoFiles, routes |-> {}]

VARIABLES
  mRow,       \* the client's row: config_rev and the certificate
  mRevoked,   \* cert_revocations
  mRoutes,    \* the routes of the network
  mOwed,      \* changes that were written, their revision not yet counted up
  mBumped,    \* history: certificate and revocations whose revision was counted
  mRev,       \* the revision the running client has in memory
  mDisk,      \* the state file's revision and the files
  mLoad,      \* what each loader is at
  mMet,       \* history: loaders in whose fetch another one has begun
  mMain,      \* the main loop: "down", "starting", "open", "idle", "loading", "reload"
  mHealth,    \* what the last probe found
  mManager,   \* the route manager
  mTunnel,    \* the configuration the overlay runs with
  mEdits, mFaults   \* bounds

mVars == << mRow, mRevoked, mRoutes, mOwed, mBumped, mRev, mDisk, mLoad, mMet,
            mMain, mHealth, mManager, mTunnel, mEdits, mFaults >>
serverVars == << mRow, mRevoked, mRoutes, mOwed, mBumped, mEdits >>
clientVars == << mRev, mDisk, mLoad, mMet, mMain, mHealth, mManager, mTunnel, mFaults >>

MeshInit ==
  /\ mRow = [rev |-> 0, cert |-> 0]
  /\ mRevoked = {}
  /\ mRoutes \in RouteSets
  /\ mOwed = {}
  /\ mBumped = [cert |-> 0, block |-> {}]
  /\ mRev = 0
  /\ mDisk = [rev |-> 0, files |-> [NoFiles EXCEPT !.routes = mRoutes]]
  /\ mLoad = [l \in Loaders |-> NoBundle]
  /\ mMet = {}
  /\ mMain = "down"
  /\ mHealth = [g \in Gateways |-> TRUE]
  /\ mManager = NoManager
  /\ mTunnel = NoTunnel
  /\ mEdits = 0
  /\ mFaults = 0
-----------------------------------------------------------------------------
(* The server *)

\* RenewCert writes the certificate, RevokeCert a fingerprint ...
RenewCert ==
  /\ mRow.cert < MaxRenewals
  /\ mRow' = [mRow EXCEPT !.cert = @ + 1]
  /\ mOwed' = mOwed \cup {[cert |-> mRow.cert + 1, block |-> {}]}
  /\ UNCHANGED << mRevoked, mRoutes, mBumped, mEdits, clientVars >>

RevokeCert(f) ==
  /\ f \notin mRevoked
  /\ mRevoked' = mRevoked \cup {f}
  /\ mOwed' = mOwed \cup {[cert |-> 0, block |-> {f}]}
  /\ UNCHANGED << mRow, mRoutes, mBumped, mEdits, clientVars >>

\* ... and then counts the revision of every client of the network up.
bumpConfigRev(o) ==
  /\ mOwed' = mOwed \ {o}
  /\ mRow' = [mRow EXCEPT !.rev = @ + 1]
  /\ mBumped' = [cert |-> Max({mBumped.cert, o.cert}), block |-> mBumped.block \cup o.block]
  /\ UNCHANGED << mRevoked, mRoutes, mEdits, clientVars >>

\* CreateRoute and DeleteRoute leave the revision alone.
RoutesChange(s) ==
  /\ s # mRoutes /\ mEdits < MaxRouteEdits
  /\ mRoutes' = s
  /\ mEdits' = mEdits + 1
  /\ UNCHANGED << mRow, mRevoked, mOwed, mBumped, clientVars >>
-----------------------------------------------------------------------------
(* Fetching and applying the bundle *)

managerVars == << mHealth, mManager, mTunnel >>

\* The request is authorised by the row, which gives revision and certificate.
ReadsRow(l) == [pc |-> "content", rev |-> mRow.rev, files |-> [NoFiles EXCEPT !.cert = mRow.cert]]

TunnelAgentConfig(l) ==
  /\ mLoad[l].pc = "none"
  /\ IF l = "run" THEN mMain \in {"starting", "loading"} ELSE TRUE
  /\ mLoad' = [mLoad EXCEPT ![l] = ReadsRow(l)]
  /\ mMet' = mMet \cup {k \in Loaders : mLoad[k].pc # "none"}
  /\ UNCHANGED << mRev, mDisk, mMain, mFaults, managerVars, serverVars >>

\* The configuration in the bundle blocks the certificates revoked so far ...
buildNebulaInput(l) ==
  /\ mLoad[l].pc = "content"
  /\ mLoad' = [mLoad EXCEPT ![l].pc = "routes", ![l].files.block = mRevoked]
  /\ UNCHANGED << mMet, mRev, mDisk, mMain, mFaults, managerVars, serverVars >>

\* ... and its routes are read after that.
loadRoutes == mRoutes
loadRouteConfig(load) == [load EXCEPT !.pc = "apply", !.files.routes = loadRoutes]

buildBundle(l) ==
  /\ mLoad[l].pc = "routes"
  /\ mLoad' = [mLoad EXCEPT ![l] = loadRouteConfig(mLoad[l])]
  /\ UNCHANGED << mMet, mRev, mDisk, mMain, mFaults, managerVars, serverVars >>

ApplyBundle(l) ==
  /\ mLoad[l].pc = "apply"
  /\ mDisk' = [mDisk EXCEPT !.files = mLoad[l].files]
  /\ mLoad' = [mLoad EXCEPT ![l].pc = "save"]
  /\ UNCHANGED << mMet, mRev, mMain, mFaults, managerVars, serverVars >>

\* The step of the main loop after a fetch, which need not have succeeded.
AfterFetch(ok) == IF mMain = "starting" THEN "open" ELSE IF ok THEN "reload" ELSE "idle"

SaveState(l) ==
  /\ mLoad[l].pc = "save"
  /\ mDisk' = [mDisk EXCEPT !.rev = mLoad[l].rev]
  /\ mRev' = IF l = "run" THEN mLoad[l].rev ELSE mRev
  /\ mMain' = IF l = "run" THEN AfterFetch(TRUE) ELSE mMain
  /\ mLoad' = [mLoad EXCEPT ![l] = NoBundle]
  /\ UNCHANGED << mMet, mFaults, managerVars, serverVars >>

FetchFails(l) ==
  /\ mLoad[l].pc \in {"content", "routes", "apply"} /\ mFaults < MaxClientFaults
  /\ mFaults' = mFaults + 1
  /\ mLoad' = [mLoad EXCEPT ![l] = NoBundle]
  /\ mMain' = IF l = "run" THEN AfterFetch(FALSE) ELSE mMain
  /\ UNCHANGED << mMet, mRev, mDisk, managerVars, serverVars >>

\* The state cannot be written: the new revision is in memory, nothing reloads.
SaveFails(l) ==
  /\ mLoad[l].pc = "save" /\ mFaults < MaxClientFaults
  /\ mFaults' = mFaults + 1
  /\ mRev' = IF l = "run" THEN mLoad[l].rev ELSE mRev
  /\ mMain' = IF l = "run" THEN AfterFetch(FALSE) ELSE mMain
  /\ mLoad' = [mLoad EXCEPT ![l] = NoBundle]
  /\ UNCHANGED << mMet, mDisk, managerVars, serverVars >>
-----------------------------------------------------------------------------
(* The main loop *)

\* The tunnel with all of config.yml.
WholeConfig == [up |-> TRUE, files |-> mDisk.files,
                routes |-> {<< t, DOMAIN t.prio >> : t \in mDisk.files.routes}]

Run ==
  /\ mMain = "down"
  /\ mMain' = "starting"
  /\ mRev' = mDisk.rev
  /\ UNCHANGED << mMet, mDisk, mLoad, mFaults, managerVars, serverVars >>

\* The tunnel is opened with the files, and the routes are read once.
startOverlay(ok) ==
  /\ mMain = "open"
  /\ mMain' = "idle"
  /\ mTunnel' = IF ok THEN WholeConfig ELSE NoTunnel
  /\ mManager' = [NoManager EXCEPT !.specs = mDisk.files.routes]
  /\ UNCHANGED << mMet, mRev, mDisk, mLoad, mHealth, mFaults, serverVars >>

\* A heartbeat whose revision differs makes the client fetch.
Heartbeat ==
  /\ mMain = "idle" /\ mRow.rev # mRev
  /\ mMain' = "loading"
  /\ UNCHANGED << mMet, mRev, mDisk, mLoad, mFaults, managerVars, serverVars >>

\* Reloads all of the files, routes through gateways that do not work too.
reloadOverlay ==
  /\ mMain = "reload"
  /\ mMain' = "idle"
  /\ mTunnel' = IF mTunnel.up THEN WholeConfig ELSE mTunnel
  /\ UNCHANGED << mMet, mRev, mDisk, mLoad, mHealth, mManager, mFaults, serverVars >>

ClientStops ==
  /\ mMain # "down" /\ mFaults < MaxClientFaults
  /\ mFaults' = mFaults + 1
  /\ mMain' = "down"
  /\ mLoad' = [mLoad EXCEPT !["run"] = NoBundle]
  /\ mManager' = NoManager
  /\ mTunnel' = NoTunnel
  /\ UNCHANGED << mMet, mRev, mDisk, mHealth, serverVars >>
-----------------------------------------------------------------------------
(* The route manager *)

Working(t, health) == {g \in DOMAIN t.prio : health[g]}
Best(t, gs) == Min({t.prio[g] : g \in gs})

\* The gateways that work; in active_passive those of the best priority only.
healthyGateways(t, health) ==
  IF t.mode = "active_passive" /\ Working(t, health) # {}
  THEN {g \in Working(t, health) : t.prio[g] = Best(t, Working(t, health))}
  ELSE Working(t, health)

\* Without any, the route goes, or with fail_closed keeps them all.
EffectiveUnsafeRoutes(specs, health) ==
  {<< t, IF healthyGateways(t, health) = {} THEN DOMAIN t.prio ELSE healthyGateways(t, health) >> :
     t \in {u \in specs : healthyGateways(u, health) # {} \/ u.allDown = "fail_closed"}}

\* Probes all gateways; only a change is applied.
ProbeOnce(health) ==
  /\ mMain \in {"idle", "loading", "reload"} /\ mManager.pc = "idle" /\ mManager.specs # {}
  /\ mHealth' = health
  /\ LET eff == EffectiveUnsafeRoutes(mManager.specs, health)
     IN  mManager' = IF mManager.hash /\ eff = mManager.eff THEN mManager
                     ELSE [mManager EXCEPT !.eff = eff, !.hash = TRUE, !.pc = "read"]
  /\ UNCHANGED << mMet, mRev, mDisk, mLoad, mMain, mTunnel, mFaults, serverVars >>

\* apply reads config.yml and reloads the tunnel with the routes put into it.
ManagerReads ==
  /\ mManager.pc = "read"
  /\ mManager' = [mManager EXCEPT !.pc = "reload", !.base = mDisk.files]
  /\ UNCHANGED << mMet, mRev, mDisk, mLoad, mMain, mHealth, mTunnel, mFaults, serverVars >>

ManagerReloads ==
  /\ mManager.pc = "reload"
  /\ mManager' = [mManager EXCEPT !.pc = "idle", !.base = NoFiles]
  /\ mTunnel' = IF mTunnel.up THEN [up |-> TRUE, files |-> mManager.base, routes |-> mManager.eff]
                ELSE mTunnel
  /\ UNCHANGED << mMet, mRev, mDisk, mLoad, mMain, mHealth, mFaults, serverVars >>

MeshNext ==
  \/ RenewCert \/ \E f \in Fingerprints : RevokeCert(f)
  \/ \E o \in mOwed : bumpConfigRev(o)
  \/ \E s \in RouteSets : RoutesChange(s)
  \/ \E l \in Loaders : \/ TunnelAgentConfig(l) \/ buildNebulaInput(l) \/ buildBundle(l) \/ ApplyBundle(l) \/ SaveState(l)
                       \/ FetchFails(l) \/ SaveFails(l)
  \/ Run \/ Heartbeat \/ reloadOverlay \/ ClientStops \/ \E ok \in BOOLEAN : startOverlay(ok)
  \/ \E h \in [Gateways -> BOOLEAN] : ProbeOnce(h)
  \/ ManagerReads \/ ManagerReloads
-----------------------------------------------------------------------------
(* Properties *)

\* A client whose revision is the server's has, in its files, every renewal and
\* every revocation whose revision was counted up, whatever was written while
\* the bundle was being put together, and wherever the client stopped, unless
\* "iflygo-client config" and the running client fetched at once: each writes its
\* files over those of the other, and what stays may be older than the revision.
RevisionTells(rev) ==
  rev = mRow.rev => mDisk.files.cert >= mBumped.cert /\ mBumped.block \subseteq mDisk.files.block

\* The route manager uses only gateways that worked when it last looked, of one
\* priority in active_passive, and keeps a route without any only if it fails
\* closed.
RoutesWork ==
  mManager.hash => \A x \in mManager.eff :
    LET t == x[1]  down == \A g \in DOMAIN t.prio : ~mHealth[g]
    IN  IF down THEN t.allDown = "fail_closed" /\ x[2] = DOMAIN t.prio
        ELSE /\ \A g \in x[2] : mHealth[g]
             /\ \A g \in x[2], k \in DOMAIN t.prio \ x[2] :
                  mHealth[k] => t.mode = "active_passive" /\ t.prio[g] < t.prio[k]

MeshInv ==
  /\ mMet = {} => (mMain # "down" => RevisionTells(mRev)) /\ RevisionTells(mDisk.rev)
  /\ RoutesWork

(* Not kept by the code:                                                    *)

\* Two processes that fetch at once leave files as new as the revision.
RevisionAlwaysTells == RevisionTells(mDisk.rev)

\* The tunnel of a client that is up to date blocks what is revoked.
TunnelBlocks ==
  mMain = "idle" /\ mTunnel.up /\ mRev = mRow.rev => mBumped.block \subseteq mTunnel.files.block

\* The tunnel routes as the route manager last decided.
TunnelRoutes ==
  mMain = "idle" /\ mTunnel.up /\ mManager.hash /\ mManager.pc = "idle" => mTunnel.routes = mManager.eff
=============================================================================
