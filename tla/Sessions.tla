------------------------------ MODULE Sessions ------------------------------
(***************************************************************************)
(* The sessions of one account and the sockets that were opened with them  *)
(* (src/auth, src/realtime).  A session is a row of user_sessions, which   *)
(* any request in progress may write back, and a grant, which only its     *)
(* login writes; both carry the authentication version the login read.  A  *)
(* password reset raises the version of the account, a logout deletes the  *)
(* grant; both clean up after that as well as they can.                    *)
(*                                                                         *)
(* One step is one statement, one transaction or the code between two      *)
(* awaits.  Any statement may fail.  Left out: the expiry of tokens and    *)
(* sessions as a matter of time, other accounts, CSRF, rate limits and the *)
(* limits of the registry, which may turn any connection down.             *)
(***************************************************************************)
EXTENDS Integers

CONSTANTS
  Sid,          \* session identifiers, each generated by one login
  Token,        \* reset tokens, each made by one request for it
  Socket,       \* connections, each tried once
  NoSid         \* of a connection that was not tried yet

ASSUME SessionsAssumption == NoSid \notin Sid

VARIABLES
  account,      \* the version and the reset tokens
  logins,       \* POST /login, by the session it makes: where it is, the version it read
  rows,         \* user_sessions: the version of the snapshot, 0 when there is no row
  grants,       \* session_auth_grants: the version, 0 when there is none
  flights,      \* a request in progress: the version of the session it holds, or 0
  logouts,      \* POST /logout
  resets,       \* POST /reset-password, by token: where it is, the sessions it found
  sockets,      \* the connections
  sweep,        \* revalidate() of the registry
  publication   \* one publication of an event to the account

vars == <<account, logins, rows, grants, flights, logouts, resets, sockets, sweep, publication>>

NoVersion == 0

-----------------------------------------------------------------------------
(***************************************************************************)
(* Who is authenticated.                                                   *)
(***************************************************************************)
\* SessionSerializer.deserializeUser() with findByAuthenticatedSession(), for a
\* request that loads the session now.
Authenticates(s) == rows[s] = account.version /\ grants[s] = account.version

\* Mutated form of Valid: as it was before there were grants.
ValidByRow(s) == rows[s] = account.version

\* RealtimeSessionService.valid()
Valid(s) == rows[s] # NoVersion /\ grants[s] = account.version /\ rows[s] = account.version

Open == {k \in Socket : sockets[k].state = "OPEN"}

SessionOf(k) == sockets[k].sid

\* disconnectSessions(), and what eligible() disconnects.
Disconnected(S) == [k \in Socket |-> IF k \in S \cap Open THEN [sockets[k] EXCEPT !.state = "CLOSED"] ELSE sockets[k]]

-----------------------------------------------------------------------------
(***************************************************************************)
(* Login: AuthController.establishSession().                               *)
(***************************************************************************)
At(s, pc) == logins[s].pc = pc

LoginTo(s, pc) == logins' = [logins EXCEPT ![s].pc = pc]

\* validateUser() reads the password and the version in one row.
Validate(s) ==
  /\ At(s, "IDLE")
  /\ logins' = [logins EXCEPT ![s] = [pc |-> "VALIDATED", version |-> account.version]]
  /\ UNCHANGED <<account, rows, grants, flights, logouts, resets, sockets, sweep, publication>>

\* req.login() saves the snapshot under the identifier it has generated.
SaveSession(s) ==
  /\ At(s, "VALIDATED") /\ LoginTo(s, "SAVED")
  /\ rows' = [rows EXCEPT ![s] = logins[s].version]
  /\ UNCHANGED <<account, grants, flights, logouts, resets, sockets, sweep, publication>>

\* The INSERT ... SELECT of establishGrant().
MayGrant(s) == rows[s] = account.version /\ logins[s].version = account.version

Grant(s) ==
  /\ At(s, "SAVED") /\ MayGrant(s) /\ LoginTo(s, "GRANTED")
  /\ grants' = [grants EXCEPT ![s] = account.version]
  /\ UNCHANGED <<account, rows, flights, logouts, resets, sockets, sweep, publication>>

\* No row is inserted, or the statement fails and it is not known whether it has run.
GrantFails(s) ==
  /\ At(s, "SAVED") /\ LoginTo(s, "FAILING")
  /\ \/ UNCHANGED grants
     \/ MayGrant(s) /\ grants' = [grants EXCEPT ![s] = account.version]
  /\ UNCHANGED <<account, rows, flights, logouts, resets, sockets, sweep, publication>>

LoginFails(s) ==
  /\ At(s, "VALIDATED") /\ LoginTo(s, "FAILING")
  /\ UNCHANGED <<account, rows, grants, flights, logouts, resets, sockets, sweep, publication>>

\* The row takes its grant with it.
Destroy(s) ==
  /\ rows' = [rows EXCEPT ![s] = NoVersion]
  /\ grants' = [grants EXCEPT ![s] = NoVersion]

\* The cleanup of a login that failed, of which nobody has the cookie: the grant and
\* the row are deleted, either or both of which may fail.
CleanUpLogin(s) ==
  /\ At(s, "FAILING") /\ LoginTo(s, "FAILED")
  /\ \/ Destroy(s)
     \/ grants' = [grants EXCEPT ![s] = NoVersion] /\ UNCHANGED rows
     \/ UNCHANGED <<rows, grants>>
  /\ UNCHANGED <<account, flights, logouts, resets, sockets, sweep, publication>>

Login(s) ==
  \/ Validate(s) \/ SaveSession(s) \/ Grant(s) \/ GrantFails(s) \/ LoginFails(s)
  \/ CleanUpLogin(s)

-----------------------------------------------------------------------------
(***************************************************************************)
(* Requests.  The client has the cookie once the login has succeeded.  The *)
(* middleware writes back a session that was modified, whatever has become *)
(* of its row; the store removes rows that have expired.                   *)
(***************************************************************************)
Load(s) ==
  /\ At(s, "GRANTED") /\ flights[s] = NoVersion /\ Authenticates(s)
  /\ flights' = [flights EXCEPT ![s] = rows[s]]
  /\ UNCHANGED <<account, logins, rows, grants, logouts, resets, sockets, sweep, publication>>

SaveBack(s) ==
  /\ flights[s] # NoVersion
  /\ rows' = [rows EXCEPT ![s] = flights[s]]
  /\ flights' = [flights EXCEPT ![s] = NoVersion]
  /\ UNCHANGED <<account, logins, grants, logouts, resets, sockets, sweep, publication>>

Prune(s) ==
  /\ At(s, "GRANTED") /\ rows[s] # NoVersion
  /\ Destroy(s)
  /\ UNCHANGED <<account, logins, flights, logouts, resets, sockets, sweep, publication>>

-----------------------------------------------------------------------------
(***************************************************************************)
(* Logout: AuthController.logout().                                        *)
(***************************************************************************)
\* When the grant cannot be deleted the request fails and nothing has happened.
RevokeGrant(s) ==
  /\ At(s, "GRANTED") /\ logouts[s] = "IDLE" /\ rows[s] # NoVersion
  /\ grants' = [grants EXCEPT ![s] = NoVersion]
  /\ logouts' = [logouts EXCEPT ![s] = "REVOKED"]
  /\ UNCHANGED <<account, logins, rows, flights, resets, sockets, sweep, publication>>

DestroySession(s) ==
  /\ logouts[s] = "REVOKED"
  /\ Destroy(s) \/ UNCHANGED <<rows, grants>>
  /\ logouts' = [logouts EXCEPT ![s] = "DESTROYED"]
  /\ UNCHANGED <<account, logins, flights, resets, sockets, sweep, publication>>

DisconnectSession(s) ==
  /\ logouts[s] = "DESTROYED"
  /\ sockets' = Disconnected({k \in Socket : SessionOf(k) = s}) \/ UNCHANGED sockets
  /\ logouts' = [logouts EXCEPT ![s] = "DONE"]
  /\ UNCHANGED <<account, logins, rows, grants, flights, resets, sweep, publication>>

Logout(s) == RevokeGrant(s) \/ DestroySession(s) \/ DisconnectSession(s)

-----------------------------------------------------------------------------
(***************************************************************************)
(* Password reset.  forgotPassword() invalidates and creates in two        *)
(* statements; the reset is one transaction with a cleanup after it.       *)
(***************************************************************************)
Invalidate(t) ==
  /\ account.tokens[t] = "NONE"
  /\ account' = [account EXCEPT !.tokens = [u \in Token |->
                   IF u = t THEN "REQUESTED" ELSE IF @[u] = "LIVE" THEN "USED" ELSE @[u]]]
  /\ UNCHANGED <<logins, rows, grants, flights, logouts, resets, sockets, sweep, publication>>

CreateToken(t) ==
  /\ account.tokens[t] = "REQUESTED"
  /\ account' = [account EXCEPT !.tokens[t] = "LIVE"]
  /\ UNCHANGED <<logins, rows, grants, flights, logouts, resets, sockets, sweep, publication>>

\* revokeAll()
Stale(version) == {s \in Sid : rows[s] \notin {NoVersion, version}}

\* consumeValidTokenAndUpdatePassword(), up to the commit.
Consume(t) ==
  /\ account.tokens[t] = "LIVE"
  /\ account' = [account EXCEPT !.version = @ + 1, !.tokens[t] = "USED"]
  /\ resets' = [resets EXCEPT ![t] = [pc |-> "DELETING", version |-> account.version + 1,
                                      sids |-> Stale(account.version + 1)]]
  /\ UNCHANGED <<logins, rows, grants, flights, logouts, sockets, sweep, publication>>

\* cleanup(): the delete spares what carries the version of this reset.
DeleteSessions(t) ==
  /\ resets[t].pc = "DELETING"
  /\ \/ LET gone == {s \in resets[t].sids : rows[s] # resets[t].version}
         IN  /\ rows' = [s \in Sid |-> IF s \in gone THEN NoVersion ELSE rows[s]]
             /\ grants' = [s \in Sid |-> IF s \in gone THEN NoVersion ELSE grants[s]]
     \/ UNCHANGED <<rows, grants>>
  /\ resets' = [resets EXCEPT ![t].pc = "DISCONNECTING"]
  /\ UNCHANGED <<account, logins, flights, logouts, sockets, sweep, publication>>

DisconnectSessions(t) ==
  /\ resets[t].pc = "DISCONNECTING"
  /\ sockets' = Disconnected({k \in Socket : SessionOf(k) \in resets[t].sids}) \/ UNCHANGED sockets
  /\ resets' = [resets EXCEPT ![t].pc = "DONE"]
  /\ UNCHANGED <<account, logins, rows, grants, flights, logouts, sweep, publication>>

Reset(t) == Invalidate(t) \/ CreateToken(t) \/ Consume(t) \/ DeleteSessions(t) \/ DisconnectSessions(t)

-----------------------------------------------------------------------------
(***************************************************************************)
(* Sockets: admission, and the registry that looks at them again.          *)
(***************************************************************************)
\* authenticate() of the namespace's middleware.
Authenticate(k, s) ==
  /\ sockets[k].state = "NONE" /\ At(s, "GRANTED") /\ Valid(s)
  /\ sockets' = [sockets EXCEPT ![k] = [state |-> "AUTHENTICATED", sid |-> s]]
  /\ UNCHANGED <<account, logins, rows, grants, flights, logouts, resets, sweep, publication>>

\* RealtimeConnectionsService.add(): the registry may be full, or the connection gone.
Admit(k) ==
  /\ sockets[k].state = "AUTHENTICATED"
  /\ \E state \in {"OPEN", "CLOSED"} : sockets' = [sockets EXCEPT ![k].state = state]
  /\ UNCHANGED <<account, logins, rows, grants, flights, logouts, resets, sweep, publication>>

Leave(k) ==
  /\ sockets[k].state = "OPEN"
  /\ sockets' = Disconnected({k})
  /\ UNCHANGED <<account, logins, rows, grants, flights, logouts, resets, sweep, publication>>

\* revalidate(), on a timer that is set again when it has ended: eligible() of
\* every account takes the connections of the moment,
SweepStarts ==
  /\ sweep.pc = "IDLE"
  /\ sweep' = [pc |-> "STARTED", candidates |-> Open, refused |-> {}]
  /\ UNCHANGED <<account, logins, rows, grants, flights, logouts, resets, sockets, publication>>

\* asks for their sessions,
SweepReads ==
  /\ sweep.pc = "STARTED"
  /\ sweep' = [sweep EXCEPT !.pc = "READ", !.refused = {k \in sweep.candidates : ~Valid(SessionOf(k))}]
  /\ UNCHANGED <<account, logins, rows, grants, flights, logouts, resets, sockets, publication>>

\* and disconnects.
SweepEnds ==
  /\ sweep.pc = "READ"
  /\ sockets' = Disconnected(sweep.refused)
  /\ sweep' = [pc |-> "IDLE", candidates |-> {}, refused |-> {}]
  /\ UNCHANGED <<account, logins, rows, grants, flights, logouts, resets, publication>>

\* Mutated form of SweepFails: a lookup that fails is left for the next time.
SweepFailsQuietly ==
  /\ sweep.pc = "STARTED"
  /\ sweep' = [pc |-> "IDLE", candidates |-> {}, refused |-> {}]
  /\ UNCHANGED <<account, logins, rows, grants, flights, logouts, resets, sockets, publication>>

\* A lookup that fails, or takes longer than its deadline, disconnects everybody.
SweepFails ==
  /\ sweep.pc = "STARTED"
  /\ sockets' = Disconnected(Open)
  /\ sweep' = [pc |-> "IDLE", candidates |-> {}, refused |-> {}]
  /\ UNCHANGED <<account, logins, rows, grants, flights, logouts, resets, publication>>

Sweep == SweepStarts \/ SweepReads \/ SweepEnds \/ SweepFails

-----------------------------------------------------------------------------
(***************************************************************************)
(* RealtimeDeliveryService.publish(), which begins with eligible() too and *)
(* then asks for the routes once more.                                     *)
(***************************************************************************)
Unpublished == [pc |-> "IDLE", revoked |-> {}, candidates |-> {}, allowed |-> {}, sent |-> {}]

\* revoked is kept for the properties: whose session was at an end by then.
PublishStarts ==
  /\ publication.pc = "IDLE"
  /\ publication' = [Unpublished EXCEPT !.pc = "STARTED", !.candidates = Open,
                                        !.revoked = {k \in Socket : SessionOf(k) \in Sid /\ ~Valid(SessionOf(k))}]
  /\ UNCHANGED <<account, logins, rows, grants, flights, logouts, resets, sockets, sweep>>

\* Mutated form of PublishReads: everybody in the room of the account.
PublishReadsNothing ==
  /\ publication.pc = "STARTED"
  /\ publication' = [publication EXCEPT !.pc = "READ", !.allowed = publication.candidates]
  /\ UNCHANGED <<account, logins, rows, grants, flights, logouts, resets, sockets, sweep>>

PublishReads ==
  /\ publication.pc = "STARTED"
  /\ publication' = [publication EXCEPT !.pc = "READ",
                       !.allowed = {k \in publication.candidates : Valid(SessionOf(k))}]
  /\ UNCHANGED <<account, logins, rows, grants, flights, logouts, resets, sockets, sweep>>

PublishDisconnects ==
  /\ publication.pc = "READ"
  /\ sockets' = Disconnected(publication.candidates \ publication.allowed)
  /\ publication' = [publication EXCEPT !.pc = "ROUTING", !.allowed = @ \cap Open]
  /\ UNCHANGED <<account, logins, rows, grants, flights, logouts, resets, sweep>>

\* The account may not be a recipient any more.
Emit ==
  /\ publication.pc = "ROUTING"
  /\ \E routed \in BOOLEAN :
       publication' = [publication EXCEPT !.pc = "SENT",
                         !.sent = IF routed THEN publication.allowed \cap Open ELSE {}]
  /\ UNCHANGED <<account, logins, rows, grants, flights, logouts, resets, sockets, sweep>>

\* The end, or a failed statement or deadline, after which nothing is sent.
PublishEnds ==
  /\ publication.pc # "IDLE"
  /\ publication' = Unpublished
  /\ UNCHANGED <<account, logins, rows, grants, flights, logouts, resets, sockets, sweep>>

Publish == PublishStarts \/ PublishReads \/ PublishDisconnects \/ Emit \/ PublishEnds

-----------------------------------------------------------------------------
Init ==
  /\ account = [version |-> 1, tokens |-> [t \in Token |-> "NONE"]]
  /\ logins = [s \in Sid |-> [pc |-> "IDLE", version |-> NoVersion]]
  /\ rows = [s \in Sid |-> NoVersion]
  /\ grants = [s \in Sid |-> NoVersion]
  /\ flights = [s \in Sid |-> NoVersion]
  /\ logouts = [s \in Sid |-> "IDLE"]
  /\ resets = [t \in Token |-> [pc |-> "IDLE", version |-> NoVersion, sids |-> {}]]
  /\ sockets = [k \in Socket |-> [state |-> "NONE", sid |-> NoSid]]
  /\ sweep = [pc |-> "IDLE", candidates |-> {}, refused |-> {}]
  /\ publication = Unpublished

Next ==
  \/ \E s \in Sid : Login(s) \/ Load(s) \/ SaveBack(s) \/ Prune(s) \/ Logout(s)
  \/ \E t \in Token : Reset(t)
  \/ \E k \in Socket : (\E s \in Sid : Authenticate(k, s)) \/ Admit(k) \/ Leave(k)
  \/ Sweep \/ Publish

\* The timer of the registry: every lookup ends, by its answer, a failure or the deadline.
Spec == Init /\ [][Next]_vars /\ WF_vars(Sweep)

-----------------------------------------------------------------------------
(***************************************************************************)
(* Properties.                                                             *)
(***************************************************************************)
\* Every variable has its type, and the account has had a version from the start.
TypeOK ==
  /\ account \in [version : Nat \ {NoVersion}, tokens : [Token -> {"NONE", "REQUESTED", "LIVE", "USED"}]]
  /\ logins \in [Sid -> [pc : {"IDLE", "VALIDATED", "SAVED", "GRANTED", "FAILING", "FAILED"}, version : Nat]]
  /\ rows \in [Sid -> Nat] /\ grants \in [Sid -> Nat] /\ flights \in [Sid -> Nat]
  /\ logouts \in [Sid -> {"IDLE", "REVOKED", "DESTROYED", "DONE"}]
  /\ resets \in [Token -> [pc : {"IDLE", "DELETING", "DISCONNECTING", "DONE"}, version : Nat, sids : SUBSET Sid]]
  /\ sockets \in [Socket -> [state : {"NONE", "AUTHENTICATED", "OPEN", "CLOSED"}, sid : Sid \cup {NoSid}]]
  /\ sweep \in [pc : {"IDLE", "STARTED", "READ"}, candidates : SUBSET Socket, refused : SUBSET Socket]
  /\ publication \in [pc : {"IDLE", "STARTED", "READ", "ROUTING", "SENT"}, revoked : SUBSET Socket,
                       candidates : SUBSET Socket, allowed : SUBSET Socket, sent : SUBSET Socket]

\* Whoever is authenticated, by a request or a socket, has proved the password the
\* account has now, and has not logged out since: however a login raced a reset,
\* and whatever a request in progress has written back after it.
SessionsProveThePassword ==
  \A s \in Sid :
    Authenticates(s) \/ Valid(s) => logins[s].version = account.version /\ logouts[s] = "IDLE"

\* An event reaches no socket whose session was at an end when its publication began,
\* whether or not anybody has disconnected it.
RevokedHearsNothing == publication.sent \cap publication.revoked = {}

\* A socket that outlives its session, because it was admitted while the session was
\* revoked or because nobody could disconnect it, is disconnected in the end.
RevokedIsDisconnected ==
  \A k \in Socket : sockets[k].state = "OPEN" /\ ~Valid(SessionOf(k)) ~> sockets[k].state # "OPEN"
=============================================================================
