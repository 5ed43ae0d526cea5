--------------------------- MODULE SessionsProofs ---------------------------
(***************************************************************************)
(* What holds of the sessions of an account for every number of logins,    *)
(* password resets and sockets, whichever statements fail.                 *)
(***************************************************************************)
EXTENDS Sessions, TLAPS

\* A grant stands beside the row of its session, and both carry the version the
\* login read: nobody writes one without the other back, and a logout takes it away.
GrantsAreBacked ==
  \A s \in Sid :
    grants[s] # NoVersion =>
      /\ grants[s] = logins[s].version /\ rows[s] = logins[s].version
      /\ logins[s].pc \in {"GRANTED", "FAILING", "FAILED"}
      /\ logouts[s] = "IDLE"

\* Only the session of a login that has succeeded is used: by a request in progress,
\* which holds the version of the login, by a logout, or by a socket.
OnlyGrantedAreUsed ==
  /\ \A s \in Sid :
       /\ logins[s].version <= account.version
       /\ flights[s] # NoVersion => flights[s] = logins[s].version
       /\ flights[s] # NoVersion \/ logouts[s] # "IDLE" => At(s, "GRANTED")
  /\ \A k \in Socket :
       /\ SessionOf(k) = NoSid <=> sockets[k].state = "NONE"
       /\ SessionOf(k) \in Sid => At(SessionOf(k), "GRANTED")

\* A session that was at an end when a publication began is not valid again before
\* the publication is over, and its sockets are not among those it sends to.
RevokedAreLeftOut ==
  /\ \A k \in publication.revoked : SessionOf(k) \in Sid /\ ~Valid(SessionOf(k))
  /\ publication.allowed \cap publication.revoked = {}
  /\ publication.sent \cap publication.revoked = {}

IInv == TypeOK /\ GrantsAreBacked /\ OnlyGrantedAreUsed /\ RevokedAreLeftOut

USE SessionsAssumption DEF NoVersion, SessionOf, Open, At, LoginTo

-----------------------------------------------------------------------------
\* The initial states satisfy the inductive invariant.
LEMMA InitInv == Init => IInv
  BY DEF Init, IInv, TypeOK, GrantsAreBacked, OnlyGrantedAreUsed, RevokedAreLeftOut, Unpublished

\* Disconnecting closes sockets and leaves each with its session.
LEMMA DisconnectedType ==
  ASSUME TypeOK, NEW S
  PROVE  /\ Disconnected(S) \in [Socket -> [state : {"NONE", "AUTHENTICATED", "OPEN", "CLOSED"},
                                            sid : Sid \cup {NoSid}]]
         /\ \A k \in Socket : /\ Disconnected(S)[k].sid = sockets[k].sid
                              /\ Disconnected(S)[k].state = "NONE" <=> sockets[k].state = "NONE"
  BY DEF TypeOK, Disconnected

\* Destroying a session leaves neither row nor grant of it, and the others alone.
LEMMA Destroyed ==
  ASSUME TypeOK, NEW s \in Sid, Destroy(s)
  PROVE  /\ rows' \in [Sid -> Nat] /\ grants' \in [Sid -> Nat]
         /\ rows'[s] = NoVersion /\ grants'[s] = NoVersion
         /\ \A u \in Sid \ {s} : rows'[u] = rows[u] /\ grants'[u] = grants[u]
<1>1. rows' = [rows EXCEPT ![s] = NoVersion] /\ grants' = [grants EXCEPT ![s] = NoVersion]
  BY DEF Destroy
<1>2. rows \in [Sid -> Nat] /\ grants \in [Sid -> Nat]
  BY DEF TypeOK
<1> QED BY <1>1, <1>2

\* Every step keeps the types.
LEMMA StepType == TypeOK /\ [Next]_vars => TypeOK'
<1> SUFFICES ASSUME TypeOK, [Next]_vars PROVE TypeOK'
  OBVIOUS
<1>1. ASSUME NEW s \in Sid, Login(s) PROVE TypeOK'
  <2>1. CASE Validate(s)
    BY <2>1 DEF TypeOK, Validate
  <2>2. CASE SaveSession(s)
    BY <2>2 DEF TypeOK, SaveSession
  <2>3. CASE Grant(s)
    BY <2>3 DEF TypeOK, Grant
  <2>4. CASE GrantFails(s)
    BY <2>4 DEF TypeOK, GrantFails
  <2>5. CASE LoginFails(s)
    BY <2>5 DEF TypeOK, LoginFails
  <2>6. CASE CleanUpLogin(s)
    <3>1. rows' \in [Sid -> Nat] /\ grants' \in [Sid -> Nat]
      <4>1. CASE Destroy(s)
        BY <4>1, Destroyed
      <4>2. CASE grants' = [grants EXCEPT ![s] = NoVersion] /\ UNCHANGED rows
        BY <4>2 DEF TypeOK
      <4>3. CASE UNCHANGED <<rows, grants>>
        BY <4>3 DEF TypeOK
      <4> QED BY <2>6, <4>1, <4>2, <4>3 DEF CleanUpLogin
    <3>2. /\ logins' = [logins EXCEPT ![s].pc = "FAILED"]
          /\ UNCHANGED <<account, flights, logouts, resets, sockets, sweep, publication>>
      BY <2>6 DEF CleanUpLogin
    <3> QED BY <3>1, <3>2 DEF TypeOK
  <2> QED BY <1>1, <2>1, <2>2, <2>3, <2>4, <2>5, <2>6 DEF Login
<1>2. ASSUME NEW s \in Sid, Load(s) \/ SaveBack(s) \/ Prune(s) PROVE TypeOK'
  <2>1. CASE Load(s)
    BY <2>1 DEF TypeOK, Load
  <2>2. CASE SaveBack(s)
    BY <2>2 DEF TypeOK, SaveBack
  <2>3. CASE Prune(s)
    BY <2>3, Destroyed DEF TypeOK, Prune
  <2> QED BY <1>2, <2>1, <2>2, <2>3
<1>3. ASSUME NEW s \in Sid, Logout(s) PROVE TypeOK'
  <2>1. CASE RevokeGrant(s)
    BY <2>1 DEF TypeOK, RevokeGrant
  <2>2. CASE DestroySession(s)
    BY <2>2, Destroyed DEF TypeOK, DestroySession
  <2>3. CASE DisconnectSession(s)
    BY <2>3, DisconnectedType DEF TypeOK, DisconnectSession
  <2> QED BY <1>3, <2>1, <2>2, <2>3 DEF Logout
<1>4. ASSUME NEW t \in Token, Reset(t) PROVE TypeOK'
  <2>1. CASE Invalidate(t)
    BY <2>1 DEF TypeOK, Invalidate
  <2>2. CASE CreateToken(t)
    BY <2>2 DEF TypeOK, CreateToken
  <2>3. CASE Consume(t)
    <3>1. account' \in [version : Nat \ {NoVersion}, tokens : [Token -> {"NONE", "REQUESTED", "LIVE", "USED"}]]
      <4>1. account.version + 1 \in Nat \ {NoVersion}
        BY DEF TypeOK
      <4>2. [account.tokens EXCEPT ![t] = "USED"] \in [Token -> {"NONE", "REQUESTED", "LIVE", "USED"}]
        BY DEF TypeOK
      <4> QED BY <2>3, <4>1, <4>2 DEF TypeOK, Consume
    <3>2. /\ resets' = [resets EXCEPT ![t] = [pc |-> "DELETING", version |-> account.version + 1,
                                              sids |-> Stale(account.version + 1)]]
          /\ account.version + 1 \in Nat /\ Stale(account.version + 1) \in SUBSET Sid
      BY <2>3 DEF TypeOK, Consume, Stale
    <3>3. resets' \in [Token -> [pc : {"IDLE", "DELETING", "DISCONNECTING", "DONE"}, version : Nat, sids : SUBSET Sid]]
      BY <3>2 DEF TypeOK
    <3> QED BY <2>3, <3>1, <3>3 DEF TypeOK, Consume
  <2>4. CASE DeleteSessions(t)
    <3>1. rows' \in [Sid -> Nat] /\ grants' \in [Sid -> Nat]
      BY <2>4 DEF TypeOK, DeleteSessions
    <3>2. resets' = [resets EXCEPT ![t].pc = "DISCONNECTING"]
      BY <2>4 DEF DeleteSessions
    <3>3. resets' \in [Token -> [pc : {"IDLE", "DELETING", "DISCONNECTING", "DONE"}, version : Nat, sids : SUBSET Sid]]
      BY <3>2 DEF TypeOK
    <3> QED BY <2>4, <3>1, <3>3 DEF TypeOK, DeleteSessions
  <2>5. CASE DisconnectSessions(t)
    BY <2>5, DisconnectedType DEF TypeOK, DisconnectSessions
  <2> QED BY <1>4, <2>1, <2>2, <2>3, <2>4, <2>5 DEF Reset
<1>5. ASSUME NEW k \in Socket, (\E s \in Sid : Authenticate(k, s)) \/ Admit(k) \/ Leave(k) PROVE TypeOK'
  <2>1. ASSUME NEW s \in Sid, Authenticate(k, s) PROVE TypeOK'
    BY <2>1 DEF TypeOK, Authenticate
  <2>2. CASE Admit(k)
    BY <2>2 DEF TypeOK, Admit
  <2>3. CASE Leave(k)
    BY <2>3, DisconnectedType DEF TypeOK, Leave
  <2> QED BY <1>5, <2>1, <2>2, <2>3
<1>6. CASE Sweep
  <2>1. CASE SweepStarts
    BY <2>1 DEF TypeOK, SweepStarts
  <2>2. CASE SweepReads
    BY <2>2 DEF TypeOK, SweepReads
  <2>3. CASE SweepEnds \/ SweepFails
    BY <2>3, DisconnectedType DEF TypeOK, SweepEnds, SweepFails
  <2> QED BY <1>6, <2>1, <2>2, <2>3 DEF Sweep
<1>7. CASE Publish
  <2>1. CASE PublishStarts
    BY <2>1 DEF TypeOK, PublishStarts, Unpublished
  <2>2. CASE PublishReads
    BY <2>2 DEF TypeOK, PublishReads
  <2>3. CASE PublishDisconnects
    <3>1. publication' \in [pc : {"IDLE", "STARTED", "READ", "ROUTING", "SENT"}, revoked : SUBSET Socket,
                            candidates : SUBSET Socket, allowed : SUBSET Socket, sent : SUBSET Socket]
      BY <2>3 DEF TypeOK, PublishDisconnects
    <3> QED BY <2>3, <3>1, DisconnectedType DEF TypeOK, PublishDisconnects
  <2>4. CASE Emit
    <3>1. PICK routed \in BOOLEAN :
            publication' = [publication EXCEPT !.pc = "SENT",
                              !.sent = IF routed THEN publication.allowed \cap Open ELSE {}]
      BY <2>4 DEF Emit
    <3>2. (IF routed THEN publication.allowed \cap Open ELSE {}) \in SUBSET Socket
      BY DEF TypeOK
    <3> QED BY <2>4, <3>1, <3>2 DEF TypeOK, Emit
  <2>5. CASE PublishEnds
    BY <2>5 DEF TypeOK, PublishEnds, Unpublished
  <2> QED BY <1>7, <2>1, <2>2, <2>3, <2>4, <2>5 DEF Publish
<1>8. CASE UNCHANGED vars
  BY <1>8 DEF TypeOK, vars
<1> QED BY <1>1, <1>2, <1>3, <1>4, <1>5, <1>6, <1>7, <1>8 DEF Next
\* Steps that touch neither a session nor the progress of its login or logout.
Elsewhere == UNCHANGED <<logins, rows, grants, logouts>>

\* Grants stay beside their rows, whoever writes or deletes either.
LEMMA StepBacked == IInv /\ [Next]_vars => GrantsAreBacked'
<1> SUFFICES ASSUME IInv, [Next]_vars PROVE GrantsAreBacked'
  OBVIOUS
<1>0. TypeOK /\ GrantsAreBacked /\ OnlyGrantedAreUsed
  BY DEF IInv
<1>1. CASE Elsewhere
  BY <1>0, <1>1 DEF GrantsAreBacked, Elsewhere
<1>2. ASSUME NEW s \in Sid, Login(s) PROVE GrantsAreBacked'
  <2>0. UNCHANGED logouts /\ account.version \in Nat \ {NoVersion}
    BY <1>0, <1>2 DEF Login, Validate, SaveSession, Grant, GrantFails, LoginFails, CleanUpLogin, TypeOK
  <2>1. CASE Validate(s)
    BY <1>0, <2>0, <2>1 DEF TypeOK, GrantsAreBacked, Validate
  <2>2. CASE SaveSession(s)
    BY <1>0, <2>0, <2>2 DEF TypeOK, GrantsAreBacked, SaveSession
  <2>3. CASE Grant(s)
    BY <1>0, <2>0, <2>3 DEF TypeOK, GrantsAreBacked, OnlyGrantedAreUsed, Grant, MayGrant
  <2>4. CASE GrantFails(s)
    BY <1>0, <2>0, <2>4 DEF TypeOK, GrantsAreBacked, OnlyGrantedAreUsed, GrantFails, MayGrant
  <2>5. CASE LoginFails(s)
    BY <1>0, <2>0, <2>5 DEF TypeOK, GrantsAreBacked, LoginFails
  <2>6. CASE CleanUpLogin(s)
    <3>1. /\ logins' = [logins EXCEPT ![s].pc = "FAILED"] /\ UNCHANGED logouts /\ At(s, "FAILING")
          /\ \/ Destroy(s)
             \/ grants' = [grants EXCEPT ![s] = NoVersion] /\ UNCHANGED rows
             \/ UNCHANGED <<rows, grants>>
      BY <2>0, <2>6 DEF CleanUpLogin
    <3>2. CASE Destroy(s)
      BY <1>0, <3>1, <3>2, Destroyed DEF TypeOK, GrantsAreBacked
    <3>3. CASE grants' = [grants EXCEPT ![s] = NoVersion] /\ UNCHANGED rows
      BY <1>0, <3>1, <3>3 DEF TypeOK, GrantsAreBacked
    <3>4. CASE UNCHANGED <<rows, grants>>
      BY <1>0, <3>1, <3>4 DEF TypeOK, GrantsAreBacked
    <3> QED BY <3>1, <3>2, <3>3, <3>4
  <2> QED BY <1>2, <2>1, <2>2, <2>3, <2>4, <2>5, <2>6 DEF Login
<1>3. ASSUME NEW s \in Sid, SaveBack(s) PROVE GrantsAreBacked'
  BY <1>0, <1>3 DEF TypeOK, GrantsAreBacked, OnlyGrantedAreUsed, SaveBack
<1>4. ASSUME NEW s \in Sid, Prune(s) PROVE GrantsAreBacked'
  BY <1>0, <1>4, Destroyed DEF GrantsAreBacked, Prune
<1>5. ASSUME NEW s \in Sid, Logout(s) PROVE GrantsAreBacked'
  <2>1. CASE RevokeGrant(s)
    BY <1>0, <2>1 DEF TypeOK, GrantsAreBacked, RevokeGrant
  <2>2. CASE DestroySession(s)
    <3>1. UNCHANGED logins /\ logouts' = [logouts EXCEPT ![s] = "DESTROYED"] /\ logouts[s] = "REVOKED"
      BY <2>2 DEF DestroySession
    <3>2. CASE Destroy(s)
      BY <1>0, <3>1, <3>2, Destroyed DEF TypeOK, GrantsAreBacked
    <3>3. CASE UNCHANGED <<rows, grants>>
      BY <1>0, <3>1, <3>3 DEF TypeOK, GrantsAreBacked
    <3> QED BY <2>2, <3>2, <3>3 DEF DestroySession
  <2>3. CASE DisconnectSession(s)
    BY <1>0, <2>3 DEF TypeOK, GrantsAreBacked, DisconnectSession
  <2> QED BY <1>5, <2>1, <2>2, <2>3 DEF Logout
<1>6. ASSUME NEW t \in Token, DeleteSessions(t) PROVE GrantsAreBacked'
  BY <1>0, <1>6 DEF TypeOK, GrantsAreBacked, DeleteSessions
<1>7. Elsewhere \/ (\E s \in Sid : Login(s) \/ SaveBack(s) \/ Prune(s) \/ Logout(s))
                \/ \E t \in Token : DeleteSessions(t)
  <2>1. ASSUME NEW s \in Sid, Load(s) PROVE Elsewhere
    BY <2>1 DEF Load, Elsewhere
  <2>2. ASSUME NEW t \in Token, Reset(t), ~DeleteSessions(t) PROVE Elsewhere
    BY <2>2 DEF Reset, Invalidate, CreateToken, Consume, DisconnectSessions, Elsewhere
  <2>3. ASSUME NEW k \in Socket, (\E s \in Sid : Authenticate(k, s)) \/ Admit(k) \/ Leave(k)
        PROVE  Elsewhere
    BY <2>3 DEF Authenticate, Admit, Leave, Elsewhere
  <2>4. CASE Sweep
    BY <2>4 DEF Sweep, SweepStarts, SweepReads, SweepEnds, SweepFails, Elsewhere
  <2>5. CASE Publish
    BY <2>5 DEF Publish, PublishStarts, PublishReads, PublishDisconnects, Emit, PublishEnds, Elsewhere
  <2>6. CASE UNCHANGED vars
    BY <2>6 DEF vars, Elsewhere
  <2> QED BY <2>1, <2>2, <2>3, <2>4, <2>5, <2>6 DEF Next
<1> QED BY <1>1, <1>2, <1>3, <1>4, <1>5, <1>6, <1>7

\* Versions only grow, and only a login that has succeeded is ever used.
LEMMA StepUsed == IInv /\ [Next]_vars => OnlyGrantedAreUsed'
<1> SUFFICES ASSUME IInv, [Next]_vars PROVE OnlyGrantedAreUsed'
  OBVIOUS
<1>0. TypeOK /\ OnlyGrantedAreUsed /\ GrantsAreBacked
  BY DEF IInv
<1>1. ASSUME NEW s \in Sid, Login(s) PROVE OnlyGrantedAreUsed'
  <2>1. UNCHANGED <<account, flights, logouts, sockets>> /\ ~At(s, "GRANTED")
    BY <1>1 DEF Login, Validate, SaveSession, Grant, GrantFails, LoginFails, CleanUpLogin
  <2>2. \/ logins' = [logins EXCEPT ![s] = [pc |-> "VALIDATED", version |-> account.version]]
        \/ \E pc \in {"SAVED", "GRANTED", "FAILING", "FAILED"} : logins' = [logins EXCEPT ![s].pc = pc]
    BY <1>1 DEF Login, Validate, SaveSession, Grant, GrantFails, LoginFails, CleanUpLogin
  <2>3. /\ logins'[s].version <= account.version
        /\ \A u \in Sid \ {s} : logins'[u] = logins[u]
    BY <1>0, <2>2 DEF TypeOK, OnlyGrantedAreUsed
  <2>4. flights[s] = NoVersion /\ logouts[s] = "IDLE" /\ \A k \in Socket : SessionOf(k) # s
    BY <1>0, <2>1 DEF OnlyGrantedAreUsed
  <2> QED BY <1>0, <2>1, <2>3, <2>4 DEF TypeOK, OnlyGrantedAreUsed
<1>2. ASSUME NEW s \in Sid, Load(s) \/ SaveBack(s) PROVE OnlyGrantedAreUsed'
  <2>1. UNCHANGED <<account, logins, logouts, sockets>>
    BY <1>2 DEF Load, SaveBack
  <2>2. CASE Load(s)
    <3>1. rows[s] = logins[s].version /\ At(s, "GRANTED") /\ flights' = [flights EXCEPT ![s] = rows[s]]
      BY <1>0, <2>2 DEF Load, Authenticates, GrantsAreBacked, TypeOK
    <3> QED BY <1>0, <2>1, <3>1 DEF TypeOK, OnlyGrantedAreUsed
  <2>3. CASE SaveBack(s)
    BY <1>0, <2>1, <2>3 DEF TypeOK, OnlyGrantedAreUsed, SaveBack
  <2> QED BY <1>2, <2>2, <2>3
<1>3. ASSUME NEW s \in Sid, Logout(s) PROVE OnlyGrantedAreUsed'
  <2>1. UNCHANGED <<account, logins, flights>> /\ At(s, "GRANTED")
    BY <1>0, <1>3 DEF Logout, RevokeGrant, DestroySession, DisconnectSession, OnlyGrantedAreUsed
  <2>2. \E step \in {"REVOKED", "DESTROYED", "DONE"} : logouts' = [logouts EXCEPT ![s] = step]
    BY <1>3 DEF Logout, RevokeGrant, DestroySession, DisconnectSession
  <2>3. UNCHANGED sockets \/ sockets' = Disconnected({k \in Socket : SessionOf(k) = s})
    BY <1>3 DEF Logout, RevokeGrant, DestroySession, DisconnectSession
  <2>4. \A k \in Socket : /\ sockets'[k].sid = sockets[k].sid
                          /\ sockets'[k].state = "NONE" <=> sockets[k].state = "NONE"
    BY <1>0, <2>3, DisconnectedType
  <2> QED BY <1>0, <2>1, <2>2, <2>4 DEF TypeOK, OnlyGrantedAreUsed
<1>4. ASSUME NEW t \in Token, Reset(t) PROVE OnlyGrantedAreUsed'
  <2>1. UNCHANGED <<logins, flights, logouts>>
    BY <1>4 DEF Reset, Invalidate, CreateToken, Consume, DeleteSessions, DisconnectSessions
  <2>2. account'.version \in {account.version, account.version + 1}
    BY <1>0, <1>4 DEF Reset, Invalidate, CreateToken, Consume, DeleteSessions, DisconnectSessions, TypeOK
  <2>3. UNCHANGED sockets \/ sockets' = Disconnected({k \in Socket : SessionOf(k) \in resets[t].sids})
    BY <1>4 DEF Reset, Invalidate, CreateToken, Consume, DeleteSessions, DisconnectSessions
  <2>4. \A k \in Socket : /\ sockets'[k].sid = sockets[k].sid
                          /\ sockets'[k].state = "NONE" <=> sockets[k].state = "NONE"
    BY <1>0, <2>3, DisconnectedType
  <2>5. \A s \in Sid : logins[s].version \in Nat /\ account.version \in Nat
    BY <1>0 DEF TypeOK
  <2> QED BY <1>0, <2>1, <2>2, <2>4, <2>5 DEF OnlyGrantedAreUsed
<1>5. ASSUME NEW k \in Socket, NEW s \in Sid, Authenticate(k, s) PROVE OnlyGrantedAreUsed'
  BY <1>0, <1>5 DEF TypeOK, OnlyGrantedAreUsed, Authenticate
<1>6. ASSUME UNCHANGED <<account, logins, flights, logouts>>,
             \A k \in Socket : /\ sockets'[k].sid = sockets[k].sid
                               /\ sockets'[k].state = "NONE" <=> sockets[k].state = "NONE"
      PROVE  OnlyGrantedAreUsed'
  BY <1>0, <1>6 DEF OnlyGrantedAreUsed
<1>7. ASSUME NEW k \in Socket, Admit(k) \/ Leave(k) PROVE OnlyGrantedAreUsed'
  <2>1. CASE Admit(k)
    <3>1. PICK state \in {"OPEN", "CLOSED"} : sockets' = [sockets EXCEPT ![k].state = state]
      BY <2>1 DEF Admit
    <3>2. sockets[k].state # "NONE"
      BY <2>1 DEF Admit
    <3> QED BY <1>0, <1>6, <2>1, <3>1, <3>2 DEF TypeOK, Admit
  <2>2. CASE Leave(k)
    BY <1>0, <1>6, <2>2, DisconnectedType DEF Leave
  <2> QED BY <1>7, <2>1, <2>2
<1>8. ASSUME (\E s \in Sid : Prune(s)) \/ Sweep \/ Publish \/ UNCHANGED vars PROVE OnlyGrantedAreUsed'
  <2>1. UNCHANGED <<account, logins, flights, logouts>> /\ (UNCHANGED sockets \/ \E S : sockets' = Disconnected(S))
    BY <1>8 DEF Prune, Sweep, SweepStarts, SweepReads, SweepEnds, SweepFails, Publish, PublishStarts,
                PublishReads, PublishDisconnects, Emit, PublishEnds, vars
  <2> QED BY <1>0, <1>6, <2>1, DisconnectedType
<1> QED BY <1>1, <1>2, <1>3, <1>4, <1>5, <1>7, <1>8 DEF Next

\* A session that is used and not valid has lost its grant, or carries a version the
\* account has left behind: no step makes it valid again.
LEMMA RevokedStays ==
  ASSUME IInv, [Next]_vars, NEW s \in Sid, At(s, "GRANTED"), ~Valid(s)
  PROVE  ~Valid(s)'
<1>0. TypeOK /\ GrantsAreBacked /\ OnlyGrantedAreUsed
  BY DEF IInv
<1>1. TypeOK' /\ GrantsAreBacked' /\ OnlyGrantedAreUsed'
  BY StepType, StepBacked, StepUsed DEF IInv
<1>2. logins'[s] = logins[s]
  <2>1. CASE UNCHANGED logins
    BY <2>1
  <2>2. ASSUME NEW u \in Sid, Login(u) PROVE logins'[s] = logins[s]
    BY <1>0, <2>2 DEF Login, Validate, SaveSession, Grant, GrantFails, LoginFails, CleanUpLogin, TypeOK
  <2>3. UNCHANGED logins \/ \E u \in Sid : Login(u)
    <3>1. ASSUME NEW u \in Sid, Load(u) \/ SaveBack(u) \/ Prune(u) \/ Logout(u) PROVE UNCHANGED logins
      BY <3>1 DEF Load, SaveBack, Prune, Logout, RevokeGrant, DestroySession, DisconnectSession
    <3>2. ASSUME NEW t \in Token, Reset(t) PROVE UNCHANGED logins
      BY <3>2 DEF Reset, Invalidate, CreateToken, Consume, DeleteSessions, DisconnectSessions
    <3>3. ASSUME NEW k \in Socket, (\E u \in Sid : Authenticate(k, u)) \/ Admit(k) \/ Leave(k)
          PROVE  UNCHANGED logins
      BY <3>3 DEF Authenticate, Admit, Leave
    <3>4. Sweep \/ Publish \/ UNCHANGED vars => UNCHANGED logins
      BY DEF Sweep, SweepStarts, SweepReads, SweepEnds, SweepFails, Publish, PublishStarts,
             PublishReads, PublishDisconnects, Emit, PublishEnds, vars
    <3> QED BY <3>1, <3>2, <3>3, <3>4 DEF Next
  <2> QED BY <2>1, <2>2, <2>3
<1>3. account.version <= account'.version
  <2>1. ASSUME NEW t \in Token, Reset(t) PROVE account'.version \in {account.version, account.version + 1}
    BY <1>0, <2>1 DEF Reset, Invalidate, CreateToken, Consume, DeleteSessions, DisconnectSessions, TypeOK
  <2>2. UNCHANGED account \/ \E t \in Token : Reset(t)
    <3>1. ASSUME NEW u \in Sid, Login(u) PROVE UNCHANGED account
      BY <3>1 DEF Login, Validate, SaveSession, Grant, GrantFails, LoginFails, CleanUpLogin
    <3>2. ASSUME NEW u \in Sid, Load(u) \/ SaveBack(u) \/ Prune(u) \/ Logout(u) PROVE UNCHANGED account
      BY <3>2 DEF Load, SaveBack, Prune, Logout, RevokeGrant, DestroySession, DisconnectSession
    <3>3. ASSUME NEW k \in Socket, (\E u \in Sid : Authenticate(k, u)) \/ Admit(k) \/ Leave(k)
          PROVE  UNCHANGED account
      BY <3>3 DEF Authenticate, Admit, Leave
    <3>4. Sweep \/ Publish \/ UNCHANGED vars => UNCHANGED account
      BY DEF Sweep, SweepStarts, SweepReads, SweepEnds, SweepFails, Publish, PublishStarts,
             PublishReads, PublishDisconnects, Emit, PublishEnds, vars
    <3> QED BY <3>1, <3>2, <3>3, <3>4 DEF Next
  <2> QED BY <1>0, <2>1, <2>2 DEF TypeOK
<1>4. grants'[s] \in {grants[s], NoVersion}
  <2>1. ASSUME NEW u \in Sid, Login(u) PROVE grants'[s] = grants[s]
    <3>1. u # s
      BY <2>1 DEF Login, Validate, SaveSession, Grant, GrantFails, LoginFails, CleanUpLogin
    <3>2. \/ UNCHANGED grants \/ Destroy(u)
          \/ \E version \in {account.version, NoVersion} : grants' = [grants EXCEPT ![u] = version]
      BY <2>1 DEF Login, Validate, SaveSession, Grant, GrantFails, LoginFails, CleanUpLogin
    <3> QED BY <1>0, <3>1, <3>2, Destroyed DEF TypeOK
  <2>2. ASSUME NEW u \in Sid, Load(u) \/ SaveBack(u) \/ Prune(u) \/ Logout(u)
        PROVE  grants'[s] \in {grants[s], NoVersion}
    <3>1. UNCHANGED grants \/ Destroy(u) \/ grants' = [grants EXCEPT ![u] = NoVersion]
      BY <2>2 DEF Load, SaveBack, Prune, Logout, RevokeGrant, DestroySession, DisconnectSession
    <3> QED BY <1>0, <3>1, Destroyed DEF TypeOK
  <2>3. ASSUME NEW t \in Token, Reset(t) PROVE grants'[s] \in {grants[s], NoVersion}
    BY <2>3 DEF Reset, Invalidate, CreateToken, Consume, DeleteSessions, DisconnectSessions
  <2>4. ASSUME NEW k \in Socket, (\E u \in Sid : Authenticate(k, u)) \/ Admit(k) \/ Leave(k)
        PROVE  UNCHANGED grants
    BY <2>4 DEF Authenticate, Admit, Leave
  <2>5. Sweep \/ Publish \/ UNCHANGED vars => UNCHANGED grants
    BY DEF Sweep, SweepStarts, SweepReads, SweepEnds, SweepFails, Publish, PublishStarts,
           PublishReads, PublishDisconnects, Emit, PublishEnds, vars
  <2> QED BY <2>1, <2>2, <2>3, <2>4, <2>5 DEF Next
<1>5. ASSUME grants'[s] = account'.version, rows'[s] = account'.version PROVE Valid(s)
  <2>1. account'.version = logins[s].version
    BY <1>1, <1>2, <1>5 DEF TypeOK, GrantsAreBacked
  <2>2. account.version = account'.version
    <3>1. account.version \in Nat /\ account'.version \in Nat /\ logins[s].version \in Nat
      BY <1>0, <1>1 DEF TypeOK
    <3>2. logins[s].version <= account.version
      BY <1>0 DEF OnlyGrantedAreUsed
    <3> QED BY <1>3, <2>1, <3>1, <3>2
  <2>3. grants[s] = account.version /\ rows[s] = account.version
    BY <1>0, <1>1, <1>4, <1>5, <2>1, <2>2 DEF TypeOK, GrantsAreBacked
  <2> QED BY <1>0, <2>3 DEF TypeOK, Valid
<1> QED BY <1>5 DEF Valid

\* A socket that has a session keeps it.
LEMMA SessionKept ==
  ASSUME IInv, [Next]_vars, NEW k \in Socket, SessionOf(k) \in Sid
  PROVE  sockets'[k].sid = sockets[k].sid
<1>0. TypeOK /\ OnlyGrantedAreUsed
  BY DEF IInv
<1>1. ASSUME UNCHANGED sockets \/ \E S : sockets' = Disconnected(S) PROVE sockets'[k].sid = sockets[k].sid
  BY <1>0, <1>1, DisconnectedType
<1>2. ASSUME NEW j \in Socket, NEW s \in Sid, Authenticate(j, s) PROVE sockets'[k].sid = sockets[k].sid
  BY <1>0, <1>2 DEF TypeOK, OnlyGrantedAreUsed, Authenticate
<1>3. ASSUME NEW j \in Socket, Admit(j) PROVE sockets'[k].sid = sockets[k].sid
  BY <1>0, <1>3 DEF TypeOK, Admit
<1>4. ASSUME NEW s \in Sid, Login(s) \/ Load(s) \/ SaveBack(s) \/ Prune(s) \/ Logout(s)
      PROVE  UNCHANGED sockets \/ \E S : sockets' = Disconnected(S)
  BY <1>4 DEF Login, Validate, SaveSession, Grant, GrantFails, LoginFails, CleanUpLogin,
              Load, SaveBack, Prune, Logout, RevokeGrant, DestroySession, DisconnectSession
<1>5. ASSUME NEW t \in Token, Reset(t) PROVE UNCHANGED sockets \/ \E S : sockets' = Disconnected(S)
  BY <1>5 DEF Reset, Invalidate, CreateToken, Consume, DeleteSessions, DisconnectSessions
<1>6. ASSUME NEW j \in Socket, Leave(j) PROVE \E S : sockets' = Disconnected(S)
  BY <1>6 DEF Leave
<1>7. Sweep \/ Publish \/ UNCHANGED vars => UNCHANGED sockets \/ \E S : sockets' = Disconnected(S)
  BY DEF Sweep, SweepStarts, SweepReads, SweepEnds, SweepFails, Publish, PublishStarts,
         PublishReads, PublishDisconnects, Emit, PublishEnds, vars
<1> QED BY <1>1, <1>2, <1>3, <1>4, <1>5, <1>6, <1>7 DEF Next

\* A publication sends to nobody whose session was at an end when it began.
LEMMA StepRevoked == IInv /\ [Next]_vars => RevokedAreLeftOut'
<1> SUFFICES ASSUME IInv, [Next]_vars PROVE RevokedAreLeftOut'
  OBVIOUS
<1>0. TypeOK /\ OnlyGrantedAreUsed /\ RevokedAreLeftOut
  BY DEF IInv
<1>1. ASSUME NEW k \in publication.revoked
      PROVE  SessionOf(k)' \in Sid /\ ~Valid(SessionOf(k))'
  <2>1. k \in Socket /\ SessionOf(k) \in Sid /\ ~Valid(SessionOf(k))
    BY <1>0 DEF TypeOK, RevokedAreLeftOut
  <2>2. SessionOf(k)' = SessionOf(k)
    BY <2>1, SessionKept
  <2>3. At(SessionOf(k), "GRANTED")
    BY <1>0, <2>1 DEF OnlyGrantedAreUsed
  <2>4. PICK s \in Sid : s = SessionOf(k)
    BY <2>1
  <2>5. ~Valid(s)'
    BY <2>1, <2>3, <2>4, RevokedStays
  <2> QED BY <2>1, <2>2, <2>4, <2>5 DEF Valid
<1>2. ASSUME UNCHANGED publication PROVE RevokedAreLeftOut'
  BY <1>0, <1>1, <1>2 DEF RevokedAreLeftOut
<1>3. CASE PublishStarts
  <2>1. /\ publication'.revoked = {k \in Socket : SessionOf(k) \in Sid /\ ~Valid(SessionOf(k))}
        /\ publication'.allowed = {} /\ publication'.sent = {}
        /\ UNCHANGED <<account, rows, grants, sockets>>
    BY <1>3 DEF PublishStarts, Unpublished
  <2> QED BY <2>1 DEF RevokedAreLeftOut, Valid
<1>4. CASE PublishReads
  <2>1. /\ publication'.revoked = publication.revoked /\ publication'.sent = publication.sent
        /\ publication'.allowed = {k \in publication.candidates : Valid(SessionOf(k))}
    BY <1>0, <1>4 DEF TypeOK, PublishReads
  <2> QED BY <1>0, <1>1, <2>1 DEF RevokedAreLeftOut
<1>5. CASE PublishDisconnects
  <2>1. /\ publication'.revoked = publication.revoked /\ publication'.sent = publication.sent
        /\ publication'.allowed = publication.allowed \cap Open
    BY <1>0, <1>5 DEF TypeOK, PublishDisconnects
  <2> QED BY <1>0, <1>1, <2>1 DEF RevokedAreLeftOut
<1>6. CASE Emit
  <2>1. /\ publication'.revoked = publication.revoked /\ publication'.allowed = publication.allowed
        /\ publication'.sent \subseteq publication.allowed
    BY <1>0, <1>6 DEF TypeOK, Emit
  <2> QED BY <1>0, <1>1, <2>1 DEF RevokedAreLeftOut
<1>7. CASE PublishEnds
  BY <1>7 DEF PublishEnds, Unpublished, RevokedAreLeftOut
<1>8. UNCHANGED publication \/ Publish
  <2>1. ASSUME NEW s \in Sid, Login(s) \/ Load(s) \/ SaveBack(s) \/ Prune(s) \/ Logout(s)
        PROVE  UNCHANGED publication
    BY <2>1 DEF Login, Validate, SaveSession, Grant, GrantFails, LoginFails, CleanUpLogin,
                Load, SaveBack, Prune, Logout, RevokeGrant, DestroySession, DisconnectSession
  <2>2. ASSUME NEW t \in Token, Reset(t) PROVE UNCHANGED publication
    BY <2>2 DEF Reset, Invalidate, CreateToken, Consume, DeleteSessions, DisconnectSessions
  <2>3. ASSUME NEW k \in Socket, (\E s \in Sid : Authenticate(k, s)) \/ Admit(k) \/ Leave(k)
        PROVE  UNCHANGED publication
    BY <2>3 DEF Authenticate, Admit, Leave
  <2>4. Sweep \/ UNCHANGED vars => UNCHANGED publication
    BY DEF Sweep, SweepStarts, SweepReads, SweepEnds, SweepFails, vars
  <2> QED BY <2>1, <2>2, <2>3, <2>4 DEF Next
<1> QED BY <1>2, <1>3, <1>4, <1>5, <1>6, <1>7, <1>8 DEF Publish

\* The invariant holds in every reachable state.
LEMMA Invariant == Spec => []IInv
<1>1. IInv /\ [Next]_vars => IInv'
  BY StepType, StepBacked, StepUsed, StepRevoked DEF IInv
<1> QED BY InitInv, <1>1, PTL DEF Spec

-----------------------------------------------------------------------------
\* Every reachable state is well typed, for any number of sessions, reset tokens and
\* sockets.
THEOREM TypeCorrect == Spec => []TypeOK
<1>1. IInv => TypeOK
  BY DEF IInv
<1> QED BY <1>1, Invariant, PTL

\* Whoever the session middleware or the realtime gateway authenticates has proved the
\* password the account has now and has not logged out: any number of logins, resets
\* and requests that write their session back may have raced, and any statement of
\* their cleanups may have failed.
THEOREM PasswordProved == Spec => []SessionsProveThePassword
<1>1. IInv => SessionsProveThePassword
  BY DEF IInv, TypeOK, GrantsAreBacked, SessionsProveThePassword, Authenticates, Valid
<1> QED BY <1>1, Invariant, PTL

\* RealtimeDeliveryService.publish() reaches no socket whose session was at an end
\* when it began, whoever has failed to disconnect it.
THEOREM RevokedNeverHears == Spec => []RevokedHearsNothing
<1>1. IInv => RevokedHearsNothing
  BY DEF IInv, RevokedAreLeftOut, RevokedHearsNothing
<1> QED BY <1>1, Invariant, PTL

\* The end of a session is final: once its login is over, a session that does not
\* count any more never counts again, whatever is written back.
THEOREM EndIsFinal ==
  Spec => [][\A s \in Sid : At(s, "GRANTED") /\ ~Valid(s) => ~Valid(s)']_vars
<1>1. IInv /\ [Next]_vars => [\A s \in Sid : At(s, "GRANTED") /\ ~Valid(s) => ~Valid(s)']_vars
  BY RevokedStays
<1> QED BY <1>1, Invariant, PTL DEF Spec

=============================================================================
