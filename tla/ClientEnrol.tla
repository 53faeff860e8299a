----------------------------- MODULE ClientEnrol ------------------------------
(***************************************************************************)
(* How a machine becomes a client of the overlay.  An administrator makes  *)
(* a token for a client; a machine that registers with it is given a       *)
(* secret, saves it and proves with it every heartbeat who it is.  The     *)
(* registration reads the row of the token and writes the row of the       *)
(* client in two statements, and its answer may be lost.                   *)
(***************************************************************************)
EXTENDS Naturals, Sequences, FiniteSets

CONSTANTS
  OverlayClients,  \* client_nodes
  Machines,        \* machines that enrol
  MaxTokens,       \* bound: tokens ever made
  MaxSecrets       \* bound: secrets ever made

ASSUME EnrolAssumption == MaxTokens \in Nat /\ MaxSecrets \in Nat

NoSecret == 0
NoState == [id |-> "none", secret |-> NoSecret]

VARIABLES
  nRow,      \* each client: its token and secret, 0 for none, and whether it is left
  nTokens,   \* history: the client each token was made for, token n as its nth
  nSecrets,  \* the number of secrets made
  nReg,      \* what each machine's registration is at
  nState,    \* state.json of each machine
  nSpent,    \* history: tokens a registration has written
  nReaders,  \* history: for each token, who read it before it was spent
  nSeen      \* history: the machine and secret of heartbeats that were accepted

nVars == << nRow, nTokens, nSecrets, nReg, nState, nSpent, nReaders, nSeen >>

EnrolInit ==
  /\ nRow = [c \in OverlayClients |-> [token |-> 0, secret |-> NoSecret, left |-> TRUE]]
  /\ nTokens = << >>
  /\ nSecrets = 0
  /\ nReg = [m \in Machines |-> [pc |-> "idle"]]
  /\ nState = [m \in Machines |-> NoState]
  /\ nSpent = {}
  /\ nReaders = {}
  /\ nSeen = {}
-----------------------------------------------------------------------------
\* A token replaces the one before, with the client or later.
ClientEnrollToken(c) ==
  /\ nRow[c].left /\ Len(nTokens) < MaxTokens
  /\ nTokens' = Append(nTokens, c)
  /\ nRow' = [nRow EXCEPT ![c].token = Len(nTokens) + 1]
  /\ UNCHANGED << nSecrets, nReg, nState, nSpent, nReaders, nSeen >>

\* The row the token is of; a token that is not in any row is refused.
RowOfToken(t) == {c \in OverlayClients : nRow[c].left /\ nRow[c].token = t}

TunnelAgentRegister(m, t) ==
  /\ nReg[m].pc = "idle"
  /\ \E c \in RowOfToken(t) : nReg' = [nReg EXCEPT ![m] = [pc |-> "write", id |-> c, token |-> t]]
  /\ nReaders' = IF t \in nSpent THEN nReaders ELSE nReaders \cup {<< m, t >>}
  /\ UNCHANGED << nRow, nTokens, nSecrets, nState, nSpent, nSeen >>

\* The row of a client that has registered: whatever token it has by now goes.
Registered(row, secret) == [row EXCEPT !.token = 0, !.secret = secret]

\* Writes the row by its id; a client that is gone is answered with an error.
RegisterWrites(m) ==
  /\ nReg[m].pc = "write" /\ nSecrets < MaxSecrets
  /\ nSecrets' = nSecrets + 1
  /\ LET c == nReg[m].id
     IN  IF nRow[c].left
         THEN /\ nRow' = [nRow EXCEPT ![c] = Registered(@, nSecrets + 1)]
              /\ nReg' = [nReg EXCEPT ![m] = [pc |-> "answer", id |-> c, token |-> @.token, secret |-> nSecrets + 1]]
              /\ nSpent' = nSpent \cup {nReg[m].token}
         ELSE nReg' = [nReg EXCEPT ![m] = [pc |-> "idle"]] /\ UNCHANGED << nRow, nSpent >>
  /\ UNCHANGED << nTokens, nState, nReaders, nSeen >>

\* With the bundle the machine gets its secret and saves it.
Enrols(m) ==
  /\ nReg[m].pc = "answer"
  /\ nState' = [nState EXCEPT ![m] = [id |-> nReg[m].id, secret |-> nReg[m].secret]]
  /\ nReg' = [nReg EXCEPT ![m] = [pc |-> "idle"]]
  /\ UNCHANGED << nRow, nTokens, nSecrets, nSpent, nReaders, nSeen >>

\* The bundle cannot be built, the answer is lost or cannot be saved.
EnrolFails(m) ==
  /\ nReg[m].pc = "answer"
  /\ nReg' = [nReg EXCEPT ![m] = [pc |-> "idle"]]
  /\ UNCHANGED << nRow, nTokens, nSecrets, nState, nSpent, nReaders, nSeen >>

\* A heartbeat or a fetch is let in by the id and the secret of the state file.
tunnelAgentClient(m) ==
  nState[m] # NoState /\ nRow[nState[m].id].left /\ nRow[nState[m].id].secret = nState[m].secret

SeenAlive(m) ==
  /\ tunnelAgentClient(m)
  /\ nSeen' = nSeen \cup {<< m, nState[m].secret >>}
  /\ UNCHANGED << nRow, nTokens, nSecrets, nReg, nState, nSpent, nReaders >>

ClientGone(c) ==
  /\ nRow[c].left /\ nRow' = [nRow EXCEPT ![c].left = FALSE]
  /\ UNCHANGED << nTokens, nSecrets, nReg, nState, nSpent, nReaders, nSeen >>

EnrolNext ==
  \/ \E c \in OverlayClients : ClientEnrollToken(c) \/ ClientGone(c)
  \/ \E m \in Machines :
       \/ \E t \in DOMAIN nTokens : TunnelAgentRegister(m, t)
       \/ RegisterWrites(m) \/ Enrols(m) \/ EnrolFails(m) \/ SeenAlive(m)
-----------------------------------------------------------------------------
\* Whatever registrations run at the same time, a machine that comes after a
\* token was used is refused, what a machine registered is the client its token
\* was made for, and a client is at any time of one machine only: the last that
\* registered ("用一次性 enroll token 注册").
TokensSpent ==
  /\ \A m \in Machines : nReg[m].pc \in {"write", "answer"} =>
       << m, nReg[m].token >> \in nReaders /\ nTokens[nReg[m].token] = nReg[m].id
  /\ \A m, k \in Machines : m # k /\ tunnelAgentClient(m) /\ tunnelAgentClient(k) => nState[m].id # nState[k].id
  /\ \A x, y \in nSeen : x[2] = y[2] => x = y

(* Not kept by the code:                                                    *)

\* A token lets one machine in.
OneTokenOneMachine ==
  \A m, k \in Machines : m # k /\ nReg[m].pc = "answer" /\ nReg[k].pc = "answer" => nReg[m].token # nReg[k].token

\* A token that nobody has used can be used.
TokensWork ==
  \A c \in OverlayClients : \A t \in DOMAIN nTokens :
    nTokens[t] = c /\ t \notin nSpent /\ nRow[c].left /\ (\A u \in DOMAIN nTokens : nTokens[u] = c => u <= t)
      => nRow[c].token = t
=============================================================================
