------------------------------ MODULE Sessions ------------------------------
(***************************************************************************)
(* POST /sessions: CreateOrResumeSession over the sessions table, one      *)
(* store call per step. A session is inserted with an empty token and      *)
(* given its own by a second statement; the column is UNIQUE. Then the     *)
(* capability gate may block it, and the envelope is built.                *)
(*                                                                         *)
(* A minted token is unique to its session and stands for it: the token of *)
(* session s is s. A request that sends no token and one that sends an     *)
(* unknown one differ only in a lookup that finds nothing. BuildEnvelope   *)
(* is one step here, and all of it that matters is the blocked session and *)
(* the upgrade to the latest flow (Reconciliation takes it apart).         *)
(***************************************************************************)
EXTENDS Naturals

CONSTANTS
  Requests,     \* requests that may be in flight at once
  SessionIds,   \* sessions that may be created
  Clients,      \* builds of the app, by what they declare to support
  Renders,      \* pairs <<client, version>> of a flow version a client can render
  MaxVersion,   \* bound on the flow versions published
  MaxFaults,    \* bound on failed calls and restarts
  Nil,          \* no session, no token, no client
  Empty         \* the empty token

Versions == 1..MaxVersion
Tokens == SessionIds \cup {Empty, Nil}

Answers ==
  [sent : Tokens, client : Clients, sess : SessionIds, version : Versions,
   forced : BOOLEAN, created : BOOLEAN]

ASSUME SessionsAssumption ==
  /\ MaxVersion \in Nat \ {0}
  /\ MaxFaults \in Nat
  /\ Renders \subseteq Clients \X Versions
  /\ {Nil, Empty} \cap SessionIds = {} /\ Nil \notin Clients
  /\ Nil # Empty /\ Nil \notin Answers

VARIABLES
  latest,    \* the latest flow version published
  token, version, blocked,  \* the sessions table; a token of Nil is no row
  pc, client, sent, sess, flow,  \* each request: where it is, its client, the
             \* token it sent, its session, and the flow version it read
  given,     \* history: sessions handed out
  answer,    \* history: the last answer
  faults     \* history: how many calls have failed

tableVars == <<token, version, blocked>>
requestVars == <<pc, client, sent, sess, flow>>
sessionVars == <<latest, tableVars, requestVars, given, answer, faults>>

TypeOK ==
  /\ latest \in Versions
  /\ token \in [SessionIds -> Tokens]
  /\ version \in [SessionIds -> Versions]
  /\ blocked \in [SessionIds -> BOOLEAN]
  /\ pc \in [Requests -> {"idle", "lookup", "latest", "insert", "set_token", "gate", "created", "resumed"}]
  /\ client \in [Requests -> Clients \cup {Nil}]
  /\ sent \in [Requests -> Tokens]
  /\ sess \in [Requests -> SessionIds \cup {Nil}]
  /\ flow \in [Requests -> Versions]
  /\ \A r \in Requests :
       /\ pc[r] # "idle" => client[r] \in Clients
       /\ pc[r] \in {"set_token", "gate", "created", "resumed"} => sess[r] \in SessionIds
  /\ given \subseteq SessionIds
  /\ answer \in Answers \cup {Nil}
  /\ faults \in Nat

SessionsInit ==
  /\ latest = 1
  /\ token = [s \in SessionIds |-> Nil]
  /\ version = [s \in SessionIds |-> 1]
  /\ blocked = [s \in SessionIds |-> FALSE]
  /\ pc = [r \in Requests |-> "idle"]
  /\ client = [r \in Requests |-> Nil]
  /\ sent = [r \in Requests |-> Nil]
  /\ sess = [r \in Requests |-> Nil]
  /\ flow = [r \in Requests |-> 1]
  /\ given = {}
  /\ answer = Nil
  /\ faults = 0

Goto(r, location) == pc' = [pc EXCEPT ![r] = location]

\* What a request knew is gone with it.
Forget(r) ==
  /\ Goto(r, "idle")
  /\ sent' = [sent EXCEPT ![r] = Nil]
  /\ sess' = [sess EXCEPT ![r] = Nil]
  /\ flow' = [flow EXCEPT ![r] = 1]
  /\ client' = [client EXCEPT ![r] = Nil]

\* Mutant: only a missing token is not looked up.
ToLookup_EmptyToo(t) == t # Nil

\* A token is looked up when there is one, and it is not empty.
ToLookup(t) == t \notin {Nil, Empty}

\* A client asks: with a token it was given, an empty one, or none.
Ask(r, c, t) ==
  /\ pc[r] = "idle"
  /\ t \in given \cup {Nil, Empty}
  /\ client' = [client EXCEPT ![r] = c]
  /\ sent' = [sent EXCEPT ![r] = t]
  /\ Goto(r, IF ToLookup(t) THEN "lookup" ELSE "latest")
  /\ UNCHANGED <<latest, tableVars, sess, flow, given, answer, faults>>

GetSessionByToken(r) ==
  /\ pc[r] = "lookup"
  /\ \E s \in SessionIds :
       /\ token[s] = sent[r]
       /\ sess' = [sess EXCEPT ![r] = s]
  /\ Goto(r, "resumed")
  /\ UNCHANGED <<latest, tableVars, client, sent, flow, given, answer, faults>>

\* Mutant: the error is dropped, and an empty row is resumed.
LookupFails_Dropped(r) ==
  /\ pc[r] = "lookup"
  /\ faults < MaxFaults
  /\ faults' = faults + 1
  /\ Goto(r, "resumed")
  /\ UNCHANGED <<latest, tableVars, client, sent, sess, flow, given, answer>>

\* Any error of the lookup, one that would pass too, leads to a new session.
LookupFails(r) ==
  /\ pc[r] = "lookup"
  /\ faults < MaxFaults
  /\ faults' = faults + 1
  /\ Goto(r, "latest")
  /\ UNCHANGED <<latest, tableVars, client, sent, sess, flow, given, answer>>

GetLatestFlowVersion(r) ==
  /\ pc[r] = "latest"
  /\ flow' = [flow EXCEPT ![r] = latest]
  /\ Goto(r, "insert")
  /\ UNCHANGED <<latest, tableVars, client, sent, sess, given, answer, faults>>

HalfMade == {s \in SessionIds : token[s] = Empty}

\* Mutant: on a conflict the row that is there is taken.
InsertSession_OrTakes(r) ==
  /\ pc[r] = "insert"
  /\ \E s \in SessionIds :
       /\ token[s] = IF HalfMade = {} THEN Nil ELSE Empty
       /\ token' = [token EXCEPT ![s] = Empty]
       /\ version' = [version EXCEPT ![s] = flow[r]]
       /\ sess' = [sess EXCEPT ![r] = s]
  /\ Goto(r, "set_token")
  /\ UNCHANGED <<latest, blocked, client, sent, flow, given, answer, faults>>

\* The first statement of CreateSession.
InsertSession(r) ==
  /\ pc[r] = "insert"
  /\ HalfMade = {}
  /\ \E s \in SessionIds :
       /\ token[s] = Nil
       /\ token' = [token EXCEPT ![s] = Empty]
       /\ version' = [version EXCEPT ![s] = flow[r]]
       /\ sess' = [sess EXCEPT ![r] = s]
  /\ Goto(r, "set_token")
  /\ UNCHANGED <<latest, blocked, client, sent, flow, given, answer, faults>>

\* Another row has the empty token: UNIQUE, and an internal error.
InsertConflicts(r) ==
  /\ pc[r] = "insert"
  /\ HalfMade # {}
  /\ Forget(r)
  /\ UNCHANGED <<latest, tableVars, given, answer, faults>>

\* capabilityGap.
Gap(r) == <<client[r], flow[r]>> \notin Renders

\* Mutant: a caller who sent a token gets that one back.
SetToken_AsSent(r) ==
  /\ pc[r] = "set_token"
  /\ token' = [token EXCEPT ![sess[r]] = IF sent[r] = Nil THEN sess[r] ELSE sent[r]]
  /\ Goto(r, "gate")
  /\ UNCHANGED <<latest, version, blocked, client, sent, sess, flow, given, answer, faults>>

\* The second statement, and the row read back: nobody else knows of it yet.
SetToken(r) ==
  /\ pc[r] = "set_token"
  /\ token' = [token EXCEPT ![sess[r]] = sess[r]]
  /\ Goto(r, "gate")
  /\ UNCHANGED <<latest, version, blocked, client, sent, sess, flow, given, answer, faults>>

\* SetBlockedMinVersion, when there is a gap.
CapabilityGate(r) ==
  /\ pc[r] = "gate"
  /\ blocked' = [blocked EXCEPT ![sess[r]] = @ \/ Gap(r)]
  /\ Goto(r, "created")
  /\ UNCHANGED <<latest, token, version, client, sent, sess, flow, given, answer, faults>>

\* BuildEnvelope and the answer: force_update for a blocked session, otherwise
\* the session on the latest flow.
Respond(r) ==
  /\ pc[r] \in {"created", "resumed"}
  /\ version' = [version EXCEPT ![sess[r]] = IF blocked[sess[r]] THEN @ ELSE latest]
  /\ given' = given \cup {sess[r]}
  /\ answer' = [sent |-> sent[r], client |-> client[r], sess |-> sess[r], version |-> version'[sess[r]],
                forced |-> blocked[sess[r]], created |-> pc[r] = "created"]
  /\ Forget(r)
  /\ UNCHANGED <<latest, token, blocked, faults>>

\* A store call fails, before or after it took effect, and the client is told
\* of an error.
Fail(r) ==
  /\ pc[r] # "idle"
  /\ faults < MaxFaults
  /\ faults' = faults + 1
  /\ Forget(r)
  /\ UNCHANGED <<latest, tableVars, given, answer>>

\* The process ends, and comes back, perhaps as a release with a newer flow.
Restart ==
  /\ faults < MaxFaults
  /\ faults' = faults + 1
  /\ latest' \in {latest, latest + 1} \cap Versions
  /\ pc' = [r \in Requests |-> "idle"]
  /\ sent' = [r \in Requests |-> Nil]
  /\ sess' = [r \in Requests |-> Nil]
  /\ flow' = [r \in Requests |-> 1]
  /\ client' = [r \in Requests |-> Nil]
  /\ UNCHANGED <<tableVars, given, answer>>

Handle(r) ==
  \/ GetSessionByToken(r) \/ LookupFails(r) \/ GetLatestFlowVersion(r)
  \/ InsertSession(r) \/ InsertConflicts(r) \/ SetToken(r) \/ CapabilityGate(r)
  \/ Respond(r) \/ Fail(r)

SessionsNext ==
  \/ \E r \in Requests : Handle(r) \/ \E c \in Clients, t \in Tokens : Ask(r, c, t)
  \/ Restart

SessionsSpec == SessionsInit /\ [][SessionsNext]_sessionVars

----------------------------------------------------------------------------
(* Properties                                                              *)

(* Creation is refused (the UNIQUE empty token) only while another request  *)
(* is between its two statements, as long as no call has failed: a row      *)
(* without a token has a request that is about to give it one.              *)
HalfMadeHasAnOwner ==
  faults = 0 =>
    \A s \in HalfMade : \E r \in Requests : pc[r] = "set_token" /\ sess[r] = s

(* A session is handed out whole: with a token of its own, and, when it is  *)
(* new, with a flow its client can render or told to update (contract 2.1:  *)
(* "the server only serves flow versions the client can render").           *)
HandedOutWhole ==
  answer # Nil =>
    /\ token[answer.sess] = answer.sess
    /\ answer.created => answer.forced \/ <<answer.client, answer.version>> \in Renders

\* The last answer, as the registry sees it.
AskedFor == IF answer = Nil \/ answer.sent = Empty THEN Nil ELSE answer.sent
AnsweredWith == IF answer = Nil THEN Nil ELSE answer.sess
Registry == INSTANCE SessionRegistry
  WITH asked <- AskedFor, answered <- AnsweredWith, faulted <- faults > 0

(* Requests for sessions implement the registry: a session is new to        *)
(* everyone or the one asked for, however creations and resumes overlap.    *)
ImplementsRegistry == Registry!Spec
=============================================================================
