------------------------- MODULE RefreshTokensProofs -------------------------
(* Proofs about RefreshTokens, for every value of its constants. *)
EXTENDS RefreshTokens, TLAPS

LEMMA Initially == Init => IInv
<1> SUFFICES ASSUME Init PROVE IInv
  OBVIOUS
<1>1. TypeOK
  BY DEF Init, TypeOK, Token, NoToken, Request, NoRequest, Tokens
<1>2. FamilyIsOrigin /\ CommittedOnce /\ OneLiveToken /\ EndedStaysEnded
  BY DEF Init, FamilyIsOrigin, CommittedOnce, OneLiveToken, EndedStaysEnded,
         Tokens, NoToken, NoRequest, Live
<1> QED BY <1>1, <1>2 DEF IInv

-----------------------------------------------------------------------------
(* The browser's steps, Lookup and Expire leave the token table alone. *)

\* The verdict of a lookup is on a cookie the request carries.
LEMMA VerdictType ==
  ASSUME NEW t
  PROVE  /\ Verdict(t) \in {"rotate", "replay", "denied"}
         /\ Verdict(t) # "denied" => t # Null
  BY DEF Verdict

\* What the steps that send a request do to req: the new request presents the
\* cookie, the others lose at most their promise.
LEMMA SendStep ==
  ASSUME IInv, NEW b \in Tabs,
         Mount(b) \/ \E r \in Requests : LogIn(r, b) \/ Refresh(r, b) \/ LogOut(r, b)
  PROVE  IInv'
<1>1. UNCHANGED <<token, expired, cookie, access, history>>
  BY DEF Mount, LogIn, Refresh, LogOut, browser
<1>2. tab' \in [Tabs -> {"loading", "in", "out"}]
  <2>1. \/ tab' = tab
        \/ \E v \in {"loading", "in"} : tab' = [tab EXCEPT ![b] = v]
    BY DEF Mount, LogIn, Refresh, LogOut, browser
  <2> QED BY <2>1 DEF IInv, TypeOK
<1>3. Forgotten(b) \in [Requests -> Request]
      /\ \A s \in Requests : /\ Forgotten(b)[s].presented = req[s].presented
                             /\ Forgotten(b)[s].server = req[s].server
                             /\ Forgotten(b)[s].kind = req[s].kind
  <2>1. req \in [Requests -> Request]
    BY DEF IInv, TypeOK
  <2>2. \A s \in Requests :
          \/ Forgotten(b)[s] = req[s]
          \/ Forgotten(b)[s] = [req[s] EXCEPT !.awaited = FALSE]
    BY DEF Forgotten
  <2>3. \A s \in Requests :
          LET q == [req[s] EXCEPT !.awaited = FALSE] IN
          /\ q \in Request /\ q.presented = req[s].presented
          /\ q.server = req[s].server /\ q.kind = req[s].kind
    BY <2>1 DEF Request
  <2>4. \A s \in Requests :
          /\ Forgotten(b)[s] \in Request
          /\ Forgotten(b)[s].presented = req[s].presented
          /\ Forgotten(b)[s].server = req[s].server
          /\ Forgotten(b)[s].kind = req[s].kind
    BY <2>1, <2>2, <2>3
  <2> QED BY <2>4 DEF Forgotten
<1>4. \A k \in {"login", "refresh", "restore", "logout"} :
        /\ Sent(k, b) \in Request
        /\ Sent(k, b).presented = cookie /\ Sent(k, b).server = "sent"
  BY DEF IInv, TypeOK, Sent, Request, Tokens
<1>5. \/ req' = Forgotten(b)
      \/ \E r \in Requests, k \in {"login", "refresh", "restore", "logout"} :
           /\ req[r] = NoRequest
           /\ \/ req' = [Forgotten(b) EXCEPT ![r] = Sent(k, b)]
              \/ req' = [req EXCEPT ![r] = Sent(k, b)]
  BY DEF Mount, LogIn, Refresh, LogOut
<1> DEFINE ReqOK ==
      /\ req' \in [Requests -> Request]
      /\ \A s \in Requests :
           \/ /\ req'[s].presented = req[s].presented
              /\ req'[s].server = req[s].server
              /\ req'[s].kind = req[s].kind
           \/ /\ req[s].server = "idle"
              /\ req'[s].presented = cookie /\ req'[s].server = "sent"
<1>6. ReqOK
  <2>0. req \in [Requests -> Request]
    BY DEF IInv, TypeOK
  <2>1. CASE req' = Forgotten(b)
    BY <1>3, <2>1
  <2>2. ASSUME NEW r \in Requests,
               NEW k \in {"login", "refresh", "restore", "logout"},
               req[r] = NoRequest,
               req' = [Forgotten(b) EXCEPT ![r] = Sent(k, b)]
        PROVE  ReqOK
    BY <1>3, <1>4, <2>2 DEF NoRequest
  <2>3. ASSUME NEW r \in Requests,
               NEW k \in {"login", "refresh", "restore", "logout"},
               req[r] = NoRequest,
               req' = [req EXCEPT ![r] = Sent(k, b)]
        PROVE  ReqOK
    BY <1>4, <2>0, <2>3 DEF NoRequest
  <2> QED BY <1>5, <2>1, <2>2, <2>3
<1>7. TypeOK'
  BY <1>1, <1>2, <1>6 DEF IInv, TypeOK, history, Tokens
<1>8. CommittedOnce'
  BY <1>1, <1>6 DEF IInv, CommittedOnce, Tokens
<1>9. FamilyIsOrigin' /\ OneLiveToken' /\ EndedStaysEnded'
  BY <1>1 DEF IInv, FamilyIsOrigin, OneLiveToken, EndedStaysEnded, Tokens,
              Live, history
<1> QED BY <1>7, <1>8, <1>9 DEF IInv

LEMMA AnswerStep ==
  ASSUME IInv, NEW r \in Requests,
         Lookup(r) \/ Expire(r) \/ Answer(r) \/ GiveUp(r)
  PROVE  IInv'
<1>1. UNCHANGED <<token, origin, stray, ended, outrun>>
  BY DEF Lookup, Expire, Answer, Accept, Refuse, AcceptLogout, GiveUp, history
<1>2. /\ req' \in [Requests -> Request]
      /\ \A s \in Requests :
           /\ req'[s].presented = req[s].presented
           /\ req'[s].kind = req[s].kind
           /\ req'[s].server = "ok" <=> req[s].server = "ok"
           /\ req'[s].server \in {"rotate", "replay"}
                => req'[s].presented # Null
                     /\ req'[s].kind \in {"refresh", "restore"}
  <2>1. CASE Lookup(r)
    <3>1. req \in [Requests -> Request]
      BY DEF IInv, TypeOK
    <3>2. /\ req[r].kind \in {"refresh", "restore"} /\ req[r].server = "sent"
          /\ req' = [req EXCEPT ![r].server = Verdict(req[r].presented)]
      BY <2>1 DEF Lookup
    <3>3. /\ Verdict(req[r].presented) \in {"rotate", "replay", "denied"}
          /\ Verdict(req[r].presented) # "denied" => req[r].presented # Null
      BY VerdictType
    <3>4. /\ req' \in [Requests -> Request]
          /\ \A s \in Requests : /\ req'[s].presented = req[s].presented
                                 /\ req'[s].kind = req[s].kind
          /\ req'[r].server = Verdict(req[r].presented)
          /\ \A s \in Requests \ {r} : req'[s].server = req[s].server
      BY <3>1, <3>2, <3>3 DEF Request
    <3> QED BY <3>2, <3>3, <3>4 DEF IInv, TypeOK
  <2>2. CASE Expire(r)
    BY <2>2 DEF IInv, TypeOK, Expire
  <2>3. CASE Answer(r) \/ GiveUp(r)
    <3>1. req' = [req EXCEPT ![r].awaited = FALSE]
      BY <2>3 DEF Answer, Accept, Refuse, AcceptLogout, GiveUp, Settled
    <3>2. req \in [Requests -> Request]
      BY DEF IInv, TypeOK
    <3>3. /\ req' \in [Requests -> Request]
          /\ \A s \in Requests : /\ req'[s].presented = req[s].presented
                                 /\ req'[s].kind = req[s].kind
                                 /\ req'[s].server = req[s].server
      BY <3>1, <3>2 DEF Request
    <3> QED BY <3>3 DEF IInv, TypeOK
  <2> QED BY <2>1, <2>2, <2>3
<1>3. /\ expired' \subseteq Tokens
      /\ access' \in BOOLEAN
      /\ tab' \in [Tabs -> {"loading", "in", "out"}]
  BY DEF IInv, TypeOK, Lookup, Expire, Answer, Accept, Refuse, AcceptLogout,
         GiveUp, ClearAuth, browser
\* The cookie an answer sets is the token its request committed.
<1>4. cookie' \in Tokens \cup {Null}
  BY DEF IInv, TypeOK, CommittedOnce, Lookup, Expire, Answer, Accept, Refuse,
         AcceptLogout, GiveUp, browser
<1>5. left' \subseteq Tokens
  <2>1. req[r].presented \in Tokens \cup {Null} /\ left \subseteq Tokens
    BY DEF IInv, TypeOK
  <2>2. \A u \in Tokens : origin[u] \in Tokens
    BY DEF IInv, FamilyIsOrigin, Tokens
  <2>3. \/ left' = left
        \/ /\ req[r].presented # Null
           /\ left' = left \cup {origin[req[r].presented]}
    BY DEF Lookup, Expire, Answer, Accept, Refuse, AcceptLogout, GiveUp, history
  <2> QED BY <2>1, <2>2, <2>3
<1>6. TypeOK'
  BY <1>1, <1>2, <1>3, <1>4, <1>5 DEF IInv, TypeOK, Tokens
<1>7. CommittedOnce'
  BY <1>1, <1>2 DEF IInv, CommittedOnce, Tokens
<1>8. FamilyIsOrigin' /\ OneLiveToken' /\ EndedStaysEnded'
  BY <1>1 DEF IInv, FamilyIsOrigin, OneLiveToken, EndedStaysEnded, Tokens, Live
<1> QED BY <1>6, <1>7, <1>8 DEF IInv

-----------------------------------------------------------------------------
(* The four commits. *)

\* TypeOK's part about the requests, with T for the tokens.
WellFormed(requests, T) ==
  /\ requests \in [Requests -> Request]
  /\ \A s \in Requests :
       /\ requests[s].presented \in T \cup {Null}
       /\ requests[s].server \in {"rotate", "replay"}
            => requests[s].presented # Null
                 /\ requests[s].kind \in {"refresh", "restore"}

\* What a commit does to the requests: that of r becomes "ok" or "denied".
LEMMA ServedRequest ==
  ASSUME IInv, NEW r \in Requests, NEW a \in {"ok", "denied"},
         req' = [req EXCEPT ![r].server = a]
  PROVE  /\ WellFormed(req', Tokens)
         /\ \A s \in Requests :
              /\ req'[s].kind = req[s].kind
              /\ req'[s].server = IF s = r THEN a ELSE req[s].server
<1>1. req \in [Requests -> Request]
  BY DEF IInv, TypeOK
<1>2. /\ req' \in [Requests -> Request]
      /\ \A s \in Requests : /\ req'[s].presented = req[s].presented
                             /\ req'[s].kind = req[s].kind
                             /\ req'[s].server = IF s = r THEN a
                                                 ELSE req[s].server
  BY <1>1 DEF Request
<1> QED BY <1>2 DEF IInv, TypeOK, WellFormed

\* A login's token has a name no token had.
LEMMA LoginStep ==
  ASSUME IInv, NEW r \in Requests, CommitLogin(r)
  PROVE  IInv'
<1>1. r \notin Tokens /\ origin[r] = Null
  BY DEF IInv, CommittedOnce, FamilyIsOrigin, CommitLogin
<1>2. /\ UNCHANGED <<expired, browser, stray, ended, left, outrun>>
      /\ req[r].kind = "login"
      /\ origin' = [origin EXCEPT ![r] = r]
      /\ token' = [token EXCEPT ![r] = [state |-> "live", family |-> r]]
  BY DEF CommitLogin
<1>3. Tokens' = Tokens \cup {r}
  BY <1>2 DEF IInv, TypeOK, Tokens
<1>4. /\ WellFormed(req', Tokens)
      /\ \A s \in Requests :
           /\ req'[s].kind = req[s].kind
           /\ req'[s].server = IF s = r THEN "ok" ELSE req[s].server
  <2>1. req' = [req EXCEPT ![r].server = "ok"]
    BY DEF CommitLogin
  <2> QED BY <2>1, ServedRequest
<1>5. TypeOK'
  <2>1. token' \in [Requests -> Token]
    BY <1>2 DEF IInv, TypeOK, Token
  <2>2. WellFormed(req', Tokens')
    BY <1>3, <1>4 DEF WellFormed
  <2>3. origin' \in [Requests -> Requests \cup {Null}]
    BY <1>2 DEF IInv, TypeOK
  <2>4. stray' \subseteq Tokens' /\ ended' \subseteq Tokens'
          /\ left' \subseteq Tokens' /\ outrun' \subseteq Tokens'
          /\ expired' \subseteq Tokens' /\ cookie' \in Tokens' \cup {Null}
    BY <1>2, <1>3 DEF IInv, TypeOK, WellFormed, browser
  <2> QED BY <1>2, <2>1, <2>2, <2>3, <2>4 DEF IInv, TypeOK, WellFormed, browser
<1>6. FamilyIsOrigin'
  BY <1>1, <1>2, <1>3 DEF IInv, TypeOK, FamilyIsOrigin
<1>7. CommittedOnce'
  BY <1>2, <1>3, <1>4 DEF IInv, CommittedOnce
\* No other token descends from this login.
<1>8. \A s \in Requests \ {r} : origin'[s] # r /\ origin'[s] = origin[s]
                                  /\ token'[s] = token[s]
  <2> TAKE s \in Requests \ {r}
  <2>1. origin'[s] = origin[s] /\ token'[s] = token[s]
    BY <1>2 DEF IInv, TypeOK
  <2>2. origin[s] \in Tokens \/ origin[s] = Null
    BY DEF IInv, FamilyIsOrigin
  <2> QED BY <1>1, <2>1, <2>2, NullAssumption
<1>9. OneLiveToken'
  BY <1>2, <1>8 DEF IInv, TypeOK, OneLiveToken, Live
<1>10. EndedStaysEnded'
  <2>1. r \notin ended /\ origin'[r] = r
    BY <1>1, <1>2 DEF IInv, TypeOK
  <2> QED BY <1>2, <1>8, <2>1 DEF IInv, EndedStaysEnded, Live
<1> QED BY <1>5, <1>6, <1>7, <1>9, <1>10 DEF IInv

\* A rotation of a live token leaves its login with one live token; that of any
\* other adds a stray.
LEMMA RotateStep ==
  ASSUME IInv, NEW r \in Requests, Rotate(r)
  PROVE  IInv'
<1> DEFINE t == req[r].presented
<1>1. /\ t \in Tokens /\ t # r
      /\ r \notin Tokens /\ origin[r] = Null
      /\ req[r].kind \in {"refresh", "restore"}
  BY NullAssumption DEF IInv, TypeOK, CommittedOnce, FamilyIsOrigin, Rotate,
                        Tokens
<1>2. /\ UNCHANGED <<expired, browser, ended, left, outrun>>
      /\ origin' = [origin EXCEPT ![r] = origin[t]]
      /\ stray' = IF Live(t) /\ t \notin stray THEN stray ELSE stray \cup {r}
      /\ req' = [req EXCEPT ![r].server = "ok"]
  BY DEF Rotate
<1>s. /\ WellFormed(req', Tokens)
      /\ \A s \in Requests :
           /\ req'[s].kind = req[s].kind
           /\ req'[s].server = IF s = r THEN "ok" ELSE req[s].server
  BY <1>2, ServedRequest
<1>3. /\ token' \in [Requests -> Token]
      /\ token'[r] = [state |-> "live", family |-> token[t].family]
      /\ token'[t] = [state |-> "revoked", family |-> token[t].family]
      /\ \A s \in Requests \ {r, t} : token'[s] = token[s]
  BY <1>1 DEF IInv, TypeOK, Rotate, Rotated, Token, NoToken, Tokens
<1>4. Tokens' = Tokens \cup {r}
  BY <1>1, <1>3 DEF Tokens
<1>5. /\ origin'[r] = origin[t] /\ origin[t] \in Tokens
      /\ \A s \in Requests \ {r} : origin'[s] = origin[s]
  <2>1. origin \in [Requests -> Requests \cup {Null}]
    BY DEF IInv, TypeOK
  <2>2. origin[t] \in Tokens
    BY <1>1 DEF IInv, FamilyIsOrigin, Tokens
  <2> QED BY <1>2, <2>1, <2>2
<1>6. TypeOK'
  <2>1. WellFormed(req', Tokens')
    BY <1>4, <1>s DEF WellFormed
  <2>2. origin' \in [Requests -> Requests \cup {Null}]
    BY <1>2, <1>5 DEF IInv, TypeOK, Tokens
  <2>3. stray' \subseteq Tokens' /\ ended' \subseteq Tokens'
          /\ left' \subseteq Tokens' /\ outrun' \subseteq Tokens'
          /\ expired' \subseteq Tokens'
    BY <1>2, <1>4 DEF IInv, TypeOK
  <2> QED BY <1>2, <1>3, <1>4, <2>1, <2>2, <2>3 DEF IInv, TypeOK, WellFormed, browser
<1>7. FamilyIsOrigin'
  <2>1. \A s \in Tokens : token[s].family = origin[s] /\ origin[s] \in Tokens
    BY DEF IInv, FamilyIsOrigin, Tokens
  <2>2. \A s \in Requests \ Tokens : origin[s] = Null
    BY DEF IInv, FamilyIsOrigin
  <2>3. \A s \in Requests \ {r} : token'[s].family = token[s].family
    BY <1>1, <1>3
  <2>4. token'[r].family = origin'[r]
    BY <1>1, <1>3, <1>5, <2>1
  <2>5. \A s \in Tokens' : token'[s].family = origin'[s] /\ origin'[s] \in Tokens'
    BY <1>1, <1>4, <1>5, <2>1, <2>3, <2>4 DEF Tokens
  <2>6. \A s \in Requests \ Tokens' : origin'[s] = Null
    BY <1>4, <1>5, <2>2
  <2> QED BY <2>5, <2>6 DEF FamilyIsOrigin
<1>8. CommittedOnce'
  BY <1>1, <1>4, <1>s DEF IInv, CommittedOnce
\* The tokens that are live afterwards, r apart, were live before.
<1>9. \A s \in Requests \ {r} : token'[s].state = "live" => Live(s) /\ s # t
  BY <1>1, <1>3 DEF Live
<1>10. r \notin stray' => Live(t) /\ t \notin stray
  BY <1>2
<1>11. stray \subseteq stray'
  BY <1>2
<1>12. OneLiveToken'
  BY <1>1, <1>5, <1>9, <1>10, <1>11 DEF IInv, OneLiveToken, Live, Tokens
<1>13. EndedStaysEnded'
  BY <1>1, <1>2, <1>5, <1>9, <1>10, <1>11
     DEF IInv, EndedStaysEnded, Live, Tokens
<1> QED BY <1>6, <1>7, <1>8, <1>12, <1>13 DEF IInv

\* Revoking tokens keeps everything that says where they come from.
LEMMA RevokedFacts ==
  ASSUME IInv, NEW S \in SUBSET Tokens, token' = Revoked(S)
  PROVE  /\ token' \in [Requests -> Token]
         /\ Tokens' = Tokens
         /\ \A s \in Requests : /\ token'[s].family = token[s].family
                                /\ token'[s].state = "live" <=>
                                     Live(s) /\ s \notin S
  BY DEF IInv, TypeOK, Revoked, Token, NoToken, Tokens, Live

LEMMA RevokeStep ==
  ASSUME IInv, NEW r \in Requests, RevokeFamily(r) \/ CommitLogout(r)
  PROVE  IInv'
<1> DEFINE t == req[r].presented
<1>1. PICK S \in SUBSET Tokens, a \in {"ok", "denied"} :
        /\ token' = Revoked(S)
        /\ req' = [req EXCEPT ![r].server = a]
        /\ a = "ok" => req[r].kind = "logout"
        /\ req[r].server # "ok"
        /\ \/ ended' = ended
           \/ t \in Tokens /\ S = FamilyOf(t) /\ ended' = ended \cup {origin[t]}
  <2>1. CASE RevokeFamily(r)
    <3>1. FamilyOf(t) \in SUBSET Tokens /\ t \in Tokens
      BY <2>1 DEF IInv, TypeOK, RevokeFamily, FamilyOf
    <3> QED BY <2>1, <3>1 DEF RevokeFamily
  <2>2. CASE CommitLogout(r)
    <3>1. t \in Tokens \cup {Null}
      BY DEF IInv, TypeOK
    <3>2. t = Null => token = Revoked({})
      BY DEF Revoked, IInv, TypeOK
    <3> QED BY <2>2, <3>1, <3>2 DEF CommitLogout, history
  <2> QED BY <2>1, <2>2
<1>2. UNCHANGED <<expired, browser, origin, stray, left>>
  BY DEF RevokeFamily, CommitLogout, history
<1>3. /\ token' \in [Requests -> Token]
      /\ Tokens' = Tokens
      /\ \A s \in Requests : /\ token'[s].family = token[s].family
                             /\ token'[s].state = "live" <=>
                                  Live(s) /\ s \notin S
  BY <1>1, RevokedFacts
\* The family is everything that descends from the login.
<1>4. t \in Tokens =>
        FamilyOf(t) = {s \in Tokens : origin[s] = origin[t]} /\ origin[t] \in Tokens
  BY DEF IInv, FamilyIsOrigin, FamilyOf, Tokens
<1>5. TypeOK'
  <2>1. WellFormed(req', Tokens')
    BY <1>1, <1>3, ServedRequest DEF WellFormed
  <2>2. ended' \subseteq Tokens /\ outrun' \subseteq Tokens
    <3>0. t \in Tokens \cup {Null}
      BY DEF IInv, TypeOK
    <3>1. outrun' = outrun \/ (t # Null /\ outrun' = outrun \cup {origin[t]})
      BY DEF RevokeFamily, CommitLogout
    <3> QED BY <3>0, <1>1, <1>4, <3>1 DEF IInv, TypeOK
  <2> QED BY <1>2, <1>3, <2>1, <2>2 DEF IInv, TypeOK, WellFormed, browser
<1>6. FamilyIsOrigin'
  BY <1>2, <1>3 DEF IInv, FamilyIsOrigin
<1>7. CommittedOnce'
  BY <1>1, <1>3, ServedRequest DEF IInv, CommittedOnce
<1>8. OneLiveToken'
  BY <1>2, <1>3 DEF IInv, OneLiveToken, Live
<1>9. EndedStaysEnded'
  BY <1>1, <1>2, <1>3, <1>4 DEF IInv, EndedStaysEnded, Live, Tokens
<1> QED BY <1>5, <1>6, <1>7, <1>8, <1>9 DEF IInv

-----------------------------------------------------------------------------

LEMMA Inductive == IInv /\ [Next]_vars => IInv'
<1> SUFFICES ASSUME IInv, [Next]_vars PROVE IInv'
  OBVIOUS
<1>1. CASE \E b \in Tabs : Mount(b)
  BY <1>1, SendStep
<1>2. CASE \E r \in Requests, b \in Tabs :
             LogIn(r, b) \/ Refresh(r, b) \/ LogOut(r, b)
  BY <1>2, SendStep
<1>3. CASE \E r \in Requests : Serve(r) \/ Answer(r) \/ GiveUp(r) \/ Expire(r)
  BY <1>3, AnswerStep, LoginStep, RotateStep, RevokeStep DEF Serve
<1>4. CASE UNCHANGED vars
  BY <1>4 DEF vars, browser, history, IInv, TypeOK, FamilyIsOrigin,
              CommittedOnce, OneLiveToken, EndedStaysEnded, Tokens, Live
<1> QED BY <1>1, <1>2, <1>3, <1>4 DEF Next

\* The inductive invariant holds whatever the tabs and the faults.
THEOREM Invariance == Spec => []IInv
  BY Initially, Inductive, PTL DEF Spec

\* The handlers of /auth/login, /auth/refresh and /auth/logout and the browser
\* keep the token table and the requests well formed.
THEOREM TypeCorrect == Spec => []TypeOK
<1>1. IInv => TypeOK
  BY DEF IInv
<1> QED BY Invariance, <1>1, PTL

\* rotate_refresh_token's one commit keeps a login at one live token, however
\* many tabs and refreshes there are, but for the strays.
THEOREM OneLive == Spec => []OneLiveToken
<1>1. IInv => OneLiveToken
  BY DEF IInv
<1> QED BY Invariance, <1>1, PTL

\* A replay revokes every descendant of its login for good, but for the strays.
THEOREM EndedForGood == Spec => []EndedStaysEnded
<1>1. IInv => EndedStaysEnded
  BY DEF IInv
<1> QED BY Invariance, <1>1, PTL

-----------------------------------------------------------------------------
(* A login that was left stays left, under any of the faults. *)

\* No step gives a login that is logged out a live token but a stray: a login is
\* new, and the rotation of a token that is not live, or a stray, adds a stray.
LEMMA LoggedOutStep ==
  ASSUME IInv, NEW login \in Tokens, LoggedOut(login), [Next]_vars
  PROVE  LoggedOut(login)'
<1> DEFINE Counts(t) == t \notin stray /\ Live(t)
<1>1. outrun \subseteq outrun' /\ stray \subseteq stray'
  BY DEF Next, Mount, LogIn, Refresh, LogOut, Serve, Lookup, Rotate, RevokeFamily,
     CommitLogin, CommitLogout, Answer, Accept, Refuse, AcceptLogout, GiveUp, Expire,
     vars, history
<1> SUFFICES ASSUME login \notin outrun, NEW t \in Requests, Counts(t)', origin'[t] = login
             PROVE  FALSE
  BY <1>1 DEF LoggedOut
<1>2. \A s \in Requests : Counts(s) => origin[s] # login
  BY <1>1 DEF LoggedOut
<1>3. /\ token \in [Requests -> Token] /\ origin \in [Requests -> Requests \cup {Null}]
      /\ Tokens \subseteq Requests
  BY DEF IInv, TypeOK, Tokens
<1>4. ASSUME UNCHANGED <<token, origin, stray>> PROVE FALSE
  BY <1>2, <1>4 DEF Live
<1>5. CASE \/ \E b \in Tabs : Mount(b)
           \/ \E r \in Requests, b \in Tabs : LogIn(r, b) \/ Refresh(r, b) \/ LogOut(r, b)
           \/ \E r \in Requests : Lookup(r) \/ Answer(r) \/ GiveUp(r) \/ Expire(r)
           \/ UNCHANGED vars
  BY <1>4, <1>5 DEF Mount, LogIn, Refresh, LogOut, Lookup, Answer, Accept, Refuse,
     AcceptLogout, GiveUp, Expire, vars, history
<1>6. ASSUME NEW r \in Requests, CommitLogin(r) PROVE FALSE
  <2>1. /\ r \notin Tokens /\ stray' = stray
        /\ origin' = [origin EXCEPT ![r] = r]
        /\ token' = [token EXCEPT ![r] = [state |-> "live", family |-> r]]
    BY <1>6 DEF CommitLogin, IInv, CommittedOnce
  <2>2. t # r
    BY <1>3, <2>1
  <2> QED BY <1>2, <1>3, <2>1, <2>2 DEF Live
<1>7. ASSUME NEW r \in Requests, Rotate(r) PROVE FALSE
  <2> DEFINE p == req[r].presented
  <2>1. /\ p \in Tokens /\ r \notin Tokens /\ r # p
        /\ token' = Rotated(p, r)
        /\ origin' = [origin EXCEPT ![r] = origin[p]]
        /\ stray' = IF Live(p) /\ p \notin stray THEN stray ELSE stray \cup {r}
    BY <1>7 DEF Rotate, IInv, TypeOK, CommittedOnce
  <2>2. CASE t = r
    <3>1. Counts(p)
      BY <2>1, <2>2
    <3>2. origin'[r] = origin[p]
      BY <1>3, <2>1
    <3> QED BY <1>2, <1>3, <2>1, <2>2, <3>1, <3>2
  <2>3. CASE t # r
    <3>1. origin[t] = origin'[t] /\ t \notin stray
      BY <1>1, <1>3, <2>1, <2>3
    <3>2. Live(t)
      BY <1>3, <2>1, <2>3 DEF Rotated, Live, Token, NoToken, Tokens
    <3> QED BY <1>2, <3>1, <3>2
  <2> QED BY <2>2, <2>3
<1>8. ASSUME NEW r \in Requests, RevokeFamily(r) \/ CommitLogout(r) PROVE FALSE
  <2>1. /\ token' = token \/ \E S \in SUBSET Requests : token' = Revoked(S)
        /\ UNCHANGED <<origin, stray>>
    <3>1. CASE RevokeFamily(r)
      BY <1>3, <3>1 DEF RevokeFamily, FamilyOf
    <3>2. CASE CommitLogout(r)
      <4>1. req[r].presented \in Tokens \cup {Null}
        BY DEF IInv, TypeOK
      <4> QED BY <1>3, <3>2, <4>1 DEF CommitLogout
    <3> QED BY <1>8, <3>1, <3>2
  <2>2. Live(t)
    BY <1>3, <2>1 DEF Revoked, Live, Token, NoToken
  <2> QED BY <1>2, <2>1, <2>2
<1> QED BY <1>5, <1>6, <1>7, <1>8 DEF Next, Serve

\* The logout's commit revokes the one live token of its login, or finds that
\* another has replaced it.
LEMMA LogoutCommits ==
  ASSUME IInv, NEW r \in Requests, CommitLogout(r), req[r].presented # Null,
         NEW login, login = origin[req[r].presented]
  PROVE  LoggedOut(login)'
<1> DEFINE p == req[r].presented
<1>1. p \in Tokens /\ token \in [Requests -> Token] /\ Tokens \subseteq Requests
  BY DEF IInv, TypeOK, Tokens
<1>2. /\ token' = Revoked({p}) /\ UNCHANGED <<origin, stray>>
      /\ outrun' = IF Replaced(p) THEN outrun \cup {login} ELSE outrun
  BY DEF CommitLogout
<1>3. CASE Replaced(p)
  BY <1>2, <1>3 DEF LoggedOut
<1>4. CASE ~ Replaced(p)
  <2> HIDE DEF p
  <2>1. \A t \in Requests : Live(t)' => t # p /\ Live(t)
    BY <1>1, <1>2 DEF Revoked, Live, Token, NoToken
  <2>2. \A t \in Requests \ stray : origin[t] = origin[p] => ~ Live(t)'
    BY <1>4, <2>1 DEF Replaced
  <2>3. login = origin[p]
    BY DEF p
  <2> QED BY <1>2, <2>2, <2>3 DEF LoggedOut
<1> QED BY <1>3, <1>4

\* Only its commit ends a logout at the server, and it presents what it did.
LEMMA NextRequest ==
  ASSUME IInv, [Next]_vars, NEW r \in Requests,
         req'[r].kind = "logout", req'[r].server = "ok"
  PROVE  /\ req'[r].presented = req[r].presented
         /\ \/ CommitLogout(r)
            \/ req[r].kind = "logout" /\ req[r].server = "ok"
<1> DEFINE Same(q) == /\ q.presented = req[r].presented /\ q.kind = req[r].kind
                      /\ q.server = req[r].server
           Silent(q) == [q EXCEPT !.awaited = FALSE]
<1>1. req \in [Requests -> Request]
  BY DEF IInv, TypeOK
<1>2. Same(req[r]) /\ Same(Silent(req[r]))
  BY <1>1 DEF Request
<1>3. ASSUME Same(req'[r]) PROVE req[r].kind = "logout" /\ req[r].server = "ok"
                                  /\ req'[r].presented = req[r].presented
  BY <1>3
<1>4. \A kind, b : Sent(kind, b).server # "ok"
  BY DEF Sent
<1>5. ASSUME NEW b \in Tabs, Mount(b) PROVE Same(req'[r])
  <2>1. Forgotten(b)[r] = req[r] \/ Forgotten(b)[r] = Silent(req[r])
    BY DEF Forgotten
  <2>2. \/ req'[r] = Forgotten(b)[r]
        \/ req'[r] = Sent("restore", b)
    <3>1. \/ req' = Forgotten(b)
          \/ \E s \in Requests : req' = [Forgotten(b) EXCEPT ![s] = Sent("restore", b)]
      BY <1>5 DEF Mount
    <3> QED BY <3>1 DEF Forgotten
  <2>3. req'[r] # Sent("restore", b)
    BY <1>4
  <2> QED BY <1>2, <2>1, <2>2, <2>3
<1>6. ASSUME NEW s \in Requests, NEW b \in Tabs, LogIn(s, b) \/ Refresh(s, b) \/ LogOut(s, b)
      PROVE  Same(req'[r])
  <2>1. req'[r] = req[r] \/ \E kind \in {"login", "refresh", "logout"} : req'[r] = Sent(kind, b)
    BY <1>1, <1>6 DEF LogIn, Refresh, LogOut
  <2> QED BY <1>2, <1>4, <2>1
<1>7. ASSUME NEW s \in Requests, Answer(s) \/ GiveUp(s) \/ Expire(s) PROVE Same(req'[r])
  <2>1. req'[r] = req[r] \/ req'[r] = Silent(req[r])
    BY <1>1, <1>7 DEF Answer, Accept, Refuse, AcceptLogout, GiveUp, Expire, Settled
  <2> QED BY <1>2, <2>1
<1>8. ASSUME NEW s \in Requests, Serve(s)
      PROVE  \/ Same(req'[r])
             \/ CommitLogout(r) /\ req'[r].presented = req[r].presented
  <2>1. PICK v : req' = [req EXCEPT ![s].server = v]
    BY <1>8 DEF Serve, Lookup, Rotate, RevokeFamily, CommitLogin, CommitLogout
  <2>2. /\ s # r => req'[r] = req[r]
        /\ s = r => /\ req'[r].presented = req[r].presented
                    /\ req'[r].kind = req[r].kind /\ req'[r].server = v
    BY <1>1, <2>1 DEF Request
  <2>3. CASE s = r
    <3>1. req[r].kind = "logout" /\ v = "ok"
      BY <2>2, <2>3
    <3>2. CommitLogout(s)
      <4>1. ~ Lookup(s) /\ ~ CommitLogin(s)
        BY <2>3, <3>1 DEF Lookup, CommitLogin
      <4>2. ~ Rotate(s) /\ ~ RevokeFamily(s)
        BY <2>3, <3>1 DEF Rotate, RevokeFamily, IInv, TypeOK
      <4> QED BY <1>8, <4>1, <4>2 DEF Serve
    <3> QED BY <2>2, <2>3, <3>2
  <2> QED BY <1>2, <2>2, <2>3
<1>9. CASE UNCHANGED vars
  BY <1>2, <1>3, <1>9 DEF vars
<1> QED BY <1>3, <1>5, <1>6, <1>7, <1>8, <1>9 DEF Next

LEMMA LeftStep ==
  ASSUME IInv, LogoutOK, LeftStaysLeft, [Next]_vars
  PROVE  LogoutOK' /\ LeftStaysLeft'
<1> DEFINE Done(r) == /\ req[r].kind = "logout" /\ req[r].server = "ok"
                      /\ req[r].presented # Null
<1>1. \A r \in Requests : req[r].presented \in Tokens \cup {Null}
  BY DEF IInv, TypeOK
<1>2. /\ \A t \in Tokens : origin[t] \in Tokens
      /\ origin \in [Requests -> Requests \cup {Null}]
      /\ Tokens \subseteq Requests
  BY DEF IInv, TypeOK, FamilyIsOrigin, Tokens
\* A token descends from one login for ever.
<1>3. \A t \in Tokens : origin'[t] = origin[t]
  <2>1. ASSUME NEW r \in Requests, CommitLogin(r) \/ Rotate(r)
        PROVE  /\ r \notin Tokens
               /\ \A s \in Requests \ {r} : origin'[s] = origin[s]
    <3>1. req[r].server # "ok"
      BY <2>1 DEF CommitLogin, Rotate
    <3>2. r \notin Tokens
      BY <3>1 DEF IInv, CommittedOnce
    <3>3. \E o : origin' = [origin EXCEPT ![r] = o]
      BY <2>1 DEF CommitLogin, Rotate
    <3> QED BY <1>2, <3>2, <3>3
  <2>2. CASE \E r \in Requests : CommitLogin(r) \/ Rotate(r)
    BY <1>2, <2>1, <2>2
  <2>3. CASE ~ \E r \in Requests : CommitLogin(r) \/ Rotate(r)
    BY <2>3 DEF Next, Mount, LogIn, Refresh, LogOut, Serve, Lookup, RevokeFamily,
       CommitLogout, Answer, Accept, Refuse, AcceptLogout, GiveUp, Expire, vars, history
  <2> QED BY <2>2, <2>3
<1>4. \A login \in Tokens : LoggedOut(login) => LoggedOut(login)'
  BY LoggedOutStep
<1>5. LogoutOK'
  <2>1. ASSUME NEW r \in Requests, NEW login \in Tokens',
               req'[r].kind = "logout" /\ req'[r].server = "ok",
               req'[r].presented # Null /\ origin'[req'[r].presented] = login
        PROVE  LoggedOut(login)'
    <3> DEFINE p == req[r].presented
    <3>1. /\ req'[r].presented = p
          /\ CommitLogout(r) \/ Done(r)
      BY <2>1, NextRequest
    <3>2. p \in Tokens /\ p # Null
      BY <1>1, <2>1, <3>1
    <3>3. origin[p] = login /\ login \in Tokens
      BY <1>2, <1>3, <2>1, <3>1, <3>2
    <3>4. CASE Done(r)
      BY <1>4, <3>3, <3>4 DEF LogoutOK
    <3>5. CASE CommitLogout(r)
      BY <3>2, <3>3, <3>5, LogoutCommits
    <3> QED BY <3>1, <3>4, <3>5
  <2> QED BY <2>1, Zenon DEF LogoutOK
<1>6. LeftStaysLeft'
  <2>1. \A login \in left' : \/ login \in left
                             \/ \E r \in Requests : Done(r) /\ login = origin[req[r].presented]
    <3>1. CASE \E r \in Requests : AcceptLogout(r)
      BY <3>1 DEF AcceptLogout
    <3>2. CASE ~ \E r \in Requests : AcceptLogout(r)
      BY <3>2 DEF Next, Mount, LogIn, Refresh, LogOut, Serve, Lookup, Rotate,
         RevokeFamily, CommitLogin, CommitLogout, Answer, Accept, Refuse, GiveUp, Expire,
         vars, history
    <3> QED BY <3>1, <3>2
  <2>2. \A login \in left : LoggedOut(login) /\ login \in Tokens
    BY DEF LeftStaysLeft, IInv, TypeOK
  <2>3. ASSUME NEW r \in Requests, Done(r)
        PROVE  origin[req[r].presented] \in Tokens /\ LoggedOut(origin[req[r].presented])
    BY <1>1, <1>2, <2>3 DEF LogoutOK
  <2> QED BY <1>4, <2>1, <2>2, <2>3 DEF LeftStaysLeft
<1> QED BY <1>5, <1>6

\* "Revoke a refresh token to log a user out" (routers/auth.py:199), with any number of
\* tabs, page loads, refreshes under way and lost answers: a login the user was told
\* to have left has no live token, but for the successor that had replaced the
\* cookie's before the logout came, and the strays of overlapping rotations.
THEOREM LeftForGood == Spec => []LeftStaysLeft
<1>1. Init => LogoutOK /\ LeftStaysLeft
  <2> SUFFICES ASSUME Init PROVE LogoutOK /\ LeftStaysLeft
    OBVIOUS
  <2>1. \A r \in Requests : req[r].kind = "none"
    BY DEF Init, NoRequest
  <2>2. LogoutOK
    BY <2>1 DEF LogoutOK
  <2> QED BY <2>2 DEF Init, LeftStaysLeft
<1>2. IInv /\ LogoutOK /\ LeftStaysLeft /\ [Next]_vars => LogoutOK' /\ LeftStaysLeft'
  BY LeftStep
<1> QED BY <1>1, <1>2, Invariance, PTL DEF Spec

-----------------------------------------------------------------------------
(* One tab that does one thing at a time, while only tokens expire. *)

\* A request that the server works on is the only one, and has the cookie.
LEMMA OnlyRequest ==
  ASSUME IInv, AloneOK, NEW r \in Requests,
         r \in Pending \/ req[r].server \in {"sent", "rotate", "replay"}
  PROVE  /\ Pending = {r} /\ PendingOK(r)
         /\ req \in [Requests -> Request] /\ token \in [Requests -> Token]
         /\ cookie \in Tokens \cup {Null} /\ Tokens \subseteq Requests
<1>1. r \in Pending
  BY DEF AloneOK
<1>2. Pending = {r}
  BY <1>1 DEF AloneOK
<1> QED BY <1>1, <1>2 DEF AloneOK, IInv, TypeOK, Tokens

\* The tab sends when it waits for nothing.
LEMMA NothingPending ==
  ASSUME Alone, IInv, AloneOK, NEW b \in Tabs,
         Mount(b) \/ \E r \in Requests : LogIn(r, b) \/ Refresh(r, b) \/ LogOut(r, b)
  PROVE  Pending = {}
<1> SUFFICES ASSUME NEW s \in Pending PROVE FALSE
  OBVIOUS
<1>1. req[s].tab = b /\ tab[b] = ShownDuring(req[s].kind)
  BY DEF AloneOK, PendingOK, Alone
<1>2. tab[b] = "out" => req[s].kind = "login"
  BY <1>1 DEF ShownDuring
<1>3. Faults \subseteq {"expiry"}
  BY DEF Alone
<1> QED BY <1>1, <1>2, <1>3 DEF Mount, LogIn, Refresh, LogOut, Undisturbed

LEMMA AloneSend ==
  ASSUME Alone, IInv, AloneOK, NEW b \in Tabs,
         Mount(b) \/ \E r \in Requests : LogIn(r, b) \/ Refresh(r, b) \/ LogOut(r, b)
  PROVE  AloneOK'
<1>1. UNCHANGED <<token, expired, cookie, access, origin, stray, ended, left>>
  BY DEF Mount, LogIn, Refresh, LogOut, browser, history
<1>2. Pending = {}
  BY NothingPending
<1>3. Usable(cookie)
  BY <1>2 DEF AloneOK
<1>4. req \in [Requests -> Request] /\ tab \in [Tabs -> {"loading", "in", "out"}]
  BY DEF IInv, TypeOK
\* The page forgets nothing.
<1>5. /\ Forgotten(b) \in [Requests -> Request]
      /\ \A s \in Requests : /\ ~ Forgotten(b)[s].awaited
                             /\ Forgotten(b)[s].server = req[s].server
  <2>1. \A s \in Requests : ~ req[s].awaited
    BY <1>2 DEF Pending
  <2>2. \A s \in Requests :
          \/ Forgotten(b)[s] = req[s]
          \/ Forgotten(b)[s] = [req[s] EXCEPT !.awaited = FALSE]
    BY DEF Forgotten
  <2>3. \A s \in Requests :
          LET q == [req[s] EXCEPT !.awaited = FALSE] IN
          q \in Request /\ ~ q.awaited /\ q.server = req[s].server
    BY <1>4 DEF Request
  <2>4. \A s \in Requests : /\ Forgotten(b)[s] \in Request
                            /\ ~ Forgotten(b)[s].awaited
                            /\ Forgotten(b)[s].server = req[s].server
    BY <1>4, <2>1, <2>2, <2>3
  <2> QED BY <2>4 DEF Forgotten
<1>6. ASSUME req' = Forgotten(b), access, tab' = [tab EXCEPT ![b] = "in"]
      PROVE  AloneOK'
  <2>1. Pending' = {}
    BY <1>5, <1>6 DEF Pending
  <2>2. cookie # Null
    BY <1>6 DEF AloneOK
  <2>3. \A r \in Requests : req'[r].server \notin {"sent", "rotate", "replay"}
    BY <1>2, <1>5, <1>6 DEF AloneOK
  <2> QED BY <1>1, <1>3, <2>1, <2>2, <2>3 DEF AloneOK, Usable, Live
<1>7. ASSUME NEW r \in Requests,
             NEW k \in {"login", "refresh", "restore", "logout"},
             NEW old \in {req, Forgotten(b)},
             req' = [old EXCEPT ![r] = Sent(k, b)],
             tab' \in [Tabs -> {"loading", "in", "out"}],
             tab'[b] = ShownDuring(k),
             tab'[b] = "in" => tab[b] = "in"
      PROVE  AloneOK'
  <2>1. /\ req'[r] = Sent(k, b)
        /\ \A s \in Requests \ {r} : /\ ~ req'[s].awaited
                                     /\ req'[s].server = req[s].server
    BY <1>2, <1>4, <1>5, <1>7 DEF Pending
  <2>2. Pending' = {r}
    BY <2>1 DEF Pending, Sent
  <2>3. PendingOK(r)'
    <3>1. /\ req'[r].tab = b /\ req'[r].kind = k /\ req'[r].presented = cookie
          /\ req'[r].server = "sent"
      BY <2>1 DEF Sent
    <3>2. Usable(cookie)'
      BY <1>1, <1>3 DEF Usable, Live
    <3>3. tab'[req'[r].tab] = ShownDuring(req'[r].kind)
      BY <1>7, <3>1
    <3> QED BY <1>1, <3>1, <3>2, <3>3 DEF PendingOK, ShownDuring
  <2>4. \A s \in Requests \ {r} :
          req'[s].server \notin {"sent", "rotate", "replay"}
    BY <1>2, <2>1 DEF AloneOK
  <2>5. \A a \in Tabs : tab'[a] = "in" => tab[a] = "in"
    BY <1>7 DEF Alone
  <2> QED BY <1>1, <2>2, <2>3, <2>4, <2>5 DEF AloneOK
<1>8. AloneOK'
  <2>1. CASE Mount(b)
    <3>1. CASE access /\ tab' = [tab EXCEPT ![b] = "in"] /\ req' = Forgotten(b)
      BY <1>6, <3>1
    <3>2. ASSUME NEW r \in Requests, tab' = [tab EXCEPT ![b] = "loading"],
                 req' = [Forgotten(b) EXCEPT ![r] = Sent("restore", b)]
          PROVE  AloneOK'
      <4>1. tab'[b] = ShownDuring("restore") /\ tab'[b] = "loading"
        BY <1>4, <3>2 DEF ShownDuring
      <4>2. tab' \in [Tabs -> {"loading", "in", "out"}]
        BY <1>4, <3>2
      <4> QED BY <1>7, <3>2, <4>1, <4>2
    <3> QED BY <2>1, <3>1, <3>2 DEF Mount
  <2>2. ASSUME NEW r \in Requests, LogIn(r, b) \/ Refresh(r, b) \/ LogOut(r, b)
        PROVE  AloneOK'
    <3>1. PICK k \in {"login", "refresh", "logout"} :
            /\ req' = [req EXCEPT ![r] = Sent(k, b)] /\ tab' = tab
            /\ tab[b] = ShownDuring(k)
      BY <2>2 DEF LogIn, Refresh, LogOut, browser, ShownDuring
    <3> QED BY <1>4, <1>7, <3>1
  <2> QED BY <2>1, <2>2
<1> QED BY <1>8

LEMMA AloneServe ==
  ASSUME Alone, IInv, AloneOK, NEW r \in Requests,
         Serve(r) \/ Expire(r)
  PROVE  AloneOK'
<1>1. CASE Expire(r)
  <2>1. UNCHANGED <<token, cookie, access, tab, req, origin, stray, ended, left>>
    BY <1>1 DEF Expire, browser, history
  <2> QED BY <2>1 DEF AloneOK, PendingOK, Pending, Usable, Live
\* What the steps of the server have in common: a verdict, in place.
<1>2. ASSUME Serve(r)
      PROVE  /\ Pending = {r} /\ PendingOK(r)
             /\ req \in [Requests -> Request] /\ token \in [Requests -> Token]
             /\ cookie \in Tokens \cup {Null} /\ Tokens \subseteq Requests
             /\ req[r].server # "ok" /\ req[r].server # "replay"
             /\ Usable(cookie) /\ req[r].presented = cookie
             /\ UNCHANGED <<cookie, access, tab, left>>
  <2>1. req[r].server \in {"sent", "rotate", "replay"}
    BY <1>2 DEF Serve, Lookup, Rotate, RevokeFamily, CommitLogin, CommitLogout
  <2>2. /\ Pending = {r} /\ PendingOK(r)
        /\ req \in [Requests -> Request] /\ token \in [Requests -> Token]
        /\ cookie \in Tokens \cup {Null} /\ Tokens \subseteq Requests
    BY <2>1, OnlyRequest
  <2>3. UNCHANGED <<cookie, access, tab, left>>
    BY <1>2 DEF Serve, Lookup, Rotate, RevokeFamily, CommitLogin, CommitLogout,
           browser, history
  <2> QED BY <2>1, <2>2, <2>3 DEF PendingOK
<1>3. ASSUME Serve(r), NEW v \in {"rotate", "denied", "ok"},
             req' = [req EXCEPT ![r].server = v],
             stray' = {}, ended' = {},
             v # "ok" => Usable(cookie)',
             v = "ok" /\ req[r].kind # "logout" => Live(r)'
      PROVE  AloneOK'
  <2>1. /\ req'[r].server = v /\ req'[r].kind = req[r].kind
        /\ req'[r].tab = req[r].tab /\ req'[r].presented = req[r].presented
        /\ req'[r].awaited = req[r].awaited
        /\ \A s \in Requests \ {r} : req'[s] = req[s]
    BY <1>2, <1>3 DEF Request
  <2>2. Pending' = {r}
    BY <1>2, <1>3, <2>1 DEF Pending
  <2>3. PendingOK(r)'
    BY <1>2, <1>3, <2>1 DEF PendingOK, ShownDuring
  <2> QED BY <1>2, <1>3, <2>1, <2>2, <2>3 DEF AloneOK
\* The cookie is live: no lookup finds a replay.
<1>4. CASE Lookup(r)
  <2>1. Serve(r)
    BY <1>4 DEF Serve
  <2>2. UNCHANGED <<token, origin, stray, ended, left, cookie>>
    BY <1>4 DEF Lookup, history, browser
  <2>3. Verdict(cookie) \in {"rotate", "denied"}
    BY <1>2, <2>1 DEF Verdict, Usable
  <2>4. req' = [req EXCEPT ![r].server = Verdict(cookie)]
    BY <1>2, <1>4, <2>1 DEF Lookup
  <2>5. Usable(cookie)'
    BY <1>2, <2>1, <2>2 DEF Usable, Live
  <2> QED BY <1>3, <2>1, <2>2, <2>3, <2>4, <2>5 DEF AloneOK
\* The successor of a live token.
<1>5. CASE Rotate(r)
  <2>1. Serve(r)
    BY <1>5 DEF Serve
  <2>2. cookie # Null /\ cookie \in Tokens /\ Live(cookie)
    BY <1>2, <1>5, <2>1 DEF IInv, TypeOK, Rotate, Usable
  <2>3. r \notin Tokens /\ r # cookie /\ req[r].kind \in {"refresh", "restore"}
    BY <1>5, <2>2 DEF IInv, TypeOK, CommittedOnce, Rotate
  <2>4. /\ token' = Rotated(cookie, r)
        /\ origin' = [origin EXCEPT ![r] = origin[cookie]]
        /\ stray' = {} /\ ended' = {}
        /\ req' = [req EXCEPT ![r].server = "ok"]
    BY <1>2, <1>5, <2>1, <2>2 DEF Rotate, AloneOK
  <2>5. /\ Live(r)'
        /\ \A s \in Requests \ {r} : Live(s)' => Live(s)
    BY <1>2, <2>1, <2>2, <2>3, <2>4 DEF Rotated, Live, Token, NoToken, Tokens
  <2> QED BY <1>3, <2>1, <2>3, <2>4, <2>5
<1>6. CASE RevokeFamily(r)
  <2>1. Serve(r) /\ req[r].server = "replay"
    BY <1>6 DEF Serve, RevokeFamily
  <2> QED BY <1>2, <2>1
<1>7. CASE CommitLogin(r)
  <2>1. Serve(r)
    BY <1>7 DEF Serve
  <2>2. r \notin Tokens /\ req[r].kind = "login"
    BY <1>7 DEF IInv, CommittedOnce, CommitLogin
  <2>3. /\ token' = [token EXCEPT ![r] = [state |-> "live", family |-> r]]
        /\ origin' = [origin EXCEPT ![r] = r]
        /\ stray' = {} /\ ended' = {}
        /\ req' = [req EXCEPT ![r].server = "ok"]
    BY <1>7 DEF CommitLogin, AloneOK
  <2>4. /\ Live(r)'
        /\ \A s \in Requests \ {r} : Live(s)' => Live(s)
    BY <1>2, <2>1, <2>3 DEF Live
  <2> QED BY <1>3, <2>1, <2>2, <2>3, <2>4
<1>8. CASE CommitLogout(r)
  <2>1. Serve(r)
    BY <1>8 DEF Serve
  <2>2. /\ token' = IF cookie = Null THEN token ELSE Revoked({cookie})
        /\ UNCHANGED <<origin, stray, ended>>
        /\ req[r].kind = "logout"
        /\ req' = [req EXCEPT ![r].server = "ok"]
    BY <1>2, <1>8, <2>1 DEF CommitLogout, history
  <2> QED BY <1>3, <2>1, <2>2 DEF AloneOK
<1> QED BY <1>1, <1>4, <1>5, <1>6, <1>7, <1>8 DEF Serve

LEMMA AloneAnswer ==
  ASSUME Alone, IInv, AloneOK, NEW r \in Requests,
         Answer(r) \/ GiveUp(r)
  PROVE  AloneOK'
<1> DEFINE b == req[r].tab
<1>1. ~ GiveUp(r)
  BY DEF Alone, GiveUp
<1>2. /\ Pending = {r} /\ PendingOK(r)
      /\ req \in [Requests -> Request] /\ token \in [Requests -> Token]
      /\ cookie \in Tokens \cup {Null} /\ Tokens \subseteq Requests
  <2>1. r \in Pending
    BY <1>1 DEF Answer, Accept, Refuse, AcceptLogout
  <2> QED BY <2>1, OnlyRequest
<1>3. /\ UNCHANGED <<token, origin, stray, ended>>
      /\ req' = [req EXCEPT ![r].awaited = FALSE]
  BY <1>1 DEF Answer, Accept, Refuse, AcceptLogout, Settled, history
<1>4. \A s \in Requests : ~ req'[s].awaited /\ req'[s].server = req[s].server
  BY <1>2, <1>3 DEF Pending, Request
<1>5. Pending' = {}
  BY <1>4 DEF Pending
<1>6. \A s \in Requests : req'[s].server \notin {"sent", "rotate", "replay"}
  <2>1. req[r].server \in {"ok", "denied"}
    BY <1>1 DEF Answer, Accept, Refuse, AcceptLogout
  <2> QED BY <1>2, <1>4, <2>1 DEF AloneOK
<1>7. stray' = {} /\ ended' = {}
  BY <1>3 DEF AloneOK
<1>8. tab \in [Tabs -> {"loading", "in", "out"}] /\ b \in Tabs
  BY <1>2 DEF IInv, TypeOK, PendingOK
<1>9. CASE Accept(r)
  <2>1. cookie' = r /\ left' = left /\ Live(r)
    BY <1>2, <1>9 DEF Accept, PendingOK, history
  <2>2. Usable(cookie)' /\ cookie' # Null
    BY <1>3, <2>1, NullAssumption DEF Usable, Live
  <2> QED BY <1>3, <1>5, <1>6, <1>7, <2>1, <2>2
          DEF AloneOK
<1>10. ASSUME ClearAuth(b) PROVE ~ access' /\ \A a \in Tabs : tab'[a] # "in"
  BY <1>8, <1>10 DEF ClearAuth, Alone
<1>11. CASE Refuse(r)
  <2>1. cookie' = cookie /\ left' = left /\ ClearAuth(b)
    BY <1>11 DEF Refuse, history
  <2>2. Usable(cookie)'
    BY <1>2, <1>3, <1>11, <2>1 DEF Refuse, PendingOK, Usable, Live
  <2> QED BY <1>3, <1>5, <1>6, <1>7, <1>10, <2>1, <2>2
          DEF AloneOK
<1>12. CASE AcceptLogout(r)
  <2>1. cookie' = Null /\ ClearAuth(b)
    BY <1>12 DEF AcceptLogout
  <2>2. Usable(cookie)'
    BY <2>1 DEF Usable
  <2> QED BY <1>5, <1>6, <1>7, <1>10, <2>1, <2>2 DEF AloneOK
<1> QED BY <1>1, <1>9, <1>11, <1>12 DEF Answer

LEMMA AloneInvariance ==
  ASSUME Alone PROVE Spec => [](IInv /\ AloneOK)
<1>1. Init => AloneOK
  <2> SUFFICES ASSUME Init PROVE AloneOK
    OBVIOUS
  <2>1. Pending = {} /\ \A r \in Requests : req[r].server = "idle"
    BY DEF Init, Pending, NoRequest
  <2> QED BY <2>1 DEF Init, AloneOK, Usable
<1>2. IInv /\ AloneOK /\ [Next]_vars => AloneOK'
  <2> SUFFICES ASSUME IInv, AloneOK, [Next]_vars PROVE AloneOK'
    OBVIOUS
  <2>1. CASE \E b \in Tabs : Mount(b)
    BY <2>1, AloneSend
  <2>2. CASE \E r \in Requests, b \in Tabs :
               LogIn(r, b) \/ Refresh(r, b) \/ LogOut(r, b)
    BY <2>2, AloneSend
  <2>3. CASE \E r \in Requests : Serve(r) \/ Answer(r) \/ GiveUp(r) \/ Expire(r)
    BY <2>3, AloneServe, AloneAnswer
  <2>4. CASE UNCHANGED vars
    BY <2>4 DEF vars, browser, history, AloneOK, PendingOK, Pending,
           Usable, Live
  <2> QED BY <2>1, <2>2, <2>3, <2>4 DEF Next
<1> QED BY <1>1, <1>2, Invariance, PTL DEF Spec

\* "The legitimate client rotated long ago" (routers/auth.py:154): a browser
\* with one tab that does one thing at a time, whose answers all arrive, is never
\* taken for a thief, so the replay branch of /auth/refresh never ends its session.
THEOREM NeverFalse == ASSUME Alone PROVE Spec => []NoFalseReplay
<1>1. AloneOK => NoFalseReplay
  BY DEF AloneOK, NoFalseReplay
<1> QED BY <1>1, AloneInvariance, PTL

\* The cookie keeps step with the token table: a page that shows the user signed
\* in, with nothing on the way, has a cookie, and /auth/refresh would rotate what it
\* holds, unless that is past its expires_at (rotate_refresh_token, apiClient.ts,
\* AuthContext). One tab that does one thing at a time, whose answers all arrive.
THEOREM CanRefresh == ASSUME Alone PROVE Spec => []SignedInCanRefresh
<1>1. AloneOK => SignedInCanRefresh
  BY DEF AloneOK, SignedInCanRefresh, Usable, Verdict
<1> QED BY <1>1, AloneInvariance, PTL

-----------------------------------------------------------------------------
(* What a page that shows "Loading..." waits for, under any of the faults. *)

\* The silent refresh of a tab is given up only by what ends the loading: its
\* answer, or a page load, which sends another.
LEMMA LoadingStep == ASSUME IInv, LoadingWaits, [Next]_vars PROVE LoadingWaits'
<1> DEFINE Waits(r, b) == /\ req[r].awaited /\ req[r].tab = b
                          /\ req[r].kind = "restore" /\ req[r].server # "idle"
<1>1. /\ req \in [Requests -> Request]
      /\ tab \in [Tabs -> {"loading", "in", "out"}]
  BY DEF IInv, TypeOK
<1>2. \A b \in Tabs : tab[b] = "loading" => \E r \in Requests : Waits(r, b)
  BY DEF LoadingWaits, Pending
<1> SUFFICES ASSUME NEW b \in Tabs, tab'[b] = "loading"
             PROVE  \E r \in Requests : Waits(r, b)'
  BY DEF LoadingWaits, Pending
<1>3. ASSUME tab[b] = "loading",
             \A r \in Requests : Waits(r, b) => Waits(r, b)'
      PROVE  \E r \in Requests : Waits(r, b)'
  BY <1>2, <1>3
<1>4. ASSUME NEW c \in Tabs, Mount(c) PROVE \E r \in Requests : Waits(r, b)'
  <2>1. \A r \in Requests :
          Forgotten(c)[r] = IF req[r].tab = c THEN [req[r] EXCEPT !.awaited = FALSE]
                            ELSE req[r]
    BY DEF Forgotten
  <2>2. CASE tab' = [tab EXCEPT ![c] = "in"] /\ req' = Forgotten(c)
    <3>1. b # c /\ tab[b] = "loading"
      BY <1>1, <2>2
    <3> QED BY <1>3, <2>1, <2>2, <3>1
  <2>3. ASSUME NEW r \in Requests, req[r] = NoRequest,
               tab' = [tab EXCEPT ![c] = "loading"],
               req' = [Forgotten(c) EXCEPT ![r] = Sent("restore", c)]
        PROVE  \E s \in Requests : Waits(s, b)'
    <3>1. /\ req'[r] = Sent("restore", c)
          /\ \A s \in Requests \ {r} : req'[s] = Forgotten(c)[s]
      BY <2>3 DEF Forgotten
    <3>2. CASE b = c
      BY <3>1, <3>2 DEF Sent
    <3>3. CASE b # c
      <4>1. tab[b] = "loading"
        BY <1>1, <2>3, <3>3
      <4>2. \A s \in Requests : Waits(s, b) => s # r
        BY <2>3 DEF NoRequest
      <4> QED BY <1>3, <2>1, <3>1, <3>3, <4>1, <4>2
    <3> QED BY <3>2, <3>3
  <2> QED BY <1>4, <2>2, <2>3 DEF Mount
<1>5. ASSUME NEW r \in Requests, NEW c \in Tabs,
             LogIn(r, c) \/ Refresh(r, c) \/ LogOut(r, c)
      PROVE  \E s \in Requests : Waits(s, b)'
  <2>1. /\ tab' = tab /\ req[r] = NoRequest
        /\ \A s \in Requests \ {r} : req'[s] = req[s]
    BY <1>1, <1>5 DEF LogIn, Refresh, LogOut, browser
  <2>2. \A s \in Requests : Waits(s, b) => s # r
    BY <2>1 DEF NoRequest
  <2> QED BY <1>3, <2>1, <2>2
<1>6. ASSUME NEW r \in Requests, Serve(r)
      PROVE  \E s \in Requests : Waits(s, b)'
  <2>1. /\ tab' = tab
        /\ \E v \in {"rotate", "replay", "denied", "ok"} :
             req' = [req EXCEPT ![r].server = v]
    BY <1>6, VerdictType
       DEF Serve, Lookup, Rotate, RevokeFamily, CommitLogin, CommitLogout, browser
  <2>2. \A s \in Requests : /\ req'[s].awaited = req[s].awaited
                            /\ req'[s].tab = req[s].tab
                            /\ req'[s].kind = req[s].kind
                            /\ req[s].server # "idle" => req'[s].server # "idle"
    BY <1>1, <2>1 DEF Request
  <2> QED BY <1>3, <2>1, <2>2
\* The answer to the refresh that is waited for ends the loading.
<1>7. ASSUME NEW r \in Requests, Answer(r) \/ GiveUp(r)
      PROVE  \E s \in Requests : Waits(s, b)'
  <2>1. /\ req' = [req EXCEPT ![r].awaited = FALSE]
        /\ \/ tab' = tab /\ req[r].kind # "restore"
           \/ \E v \in {"in", "out"} : tab' = [tab EXCEPT ![req[r].tab] = v]
    BY <1>7 DEF Answer, Accept, Refuse, AcceptLogout, GiveUp, Settled, ClearAuth
  <2>2. tab[b] = "loading" /\ (req[r].kind = "restore" => req[r].tab # b)
    BY <1>1, <2>1
  <2>3. \A s \in Requests \ {r} : req'[s] = req[s]
    BY <1>1, <2>1
  <2> QED BY <1>3, <2>2, <2>3
<1>8. ASSUME NEW r \in Requests, Expire(r)
      PROVE  \E s \in Requests : Waits(s, b)'
  BY <1>3, <1>8 DEF Expire, browser
<1>9. CASE UNCHANGED vars
  BY <1>3, <1>9 DEF vars, browser
<1> QED BY <1>4, <1>5, <1>6, <1>7, <1>8, <1>9 DEF Next

\* However tabs, page loads, lost answers and rotations interleave, a page at
\* "Loading..." has a silent refresh on the way whose answer, or error, will end
\* it (AuthContext, apiClient.silentRefresh): the safety half of LoadingEnds.
THEOREM LoadingHasRequest == Spec => []LoadingWaits
<1>1. Init => LoadingWaits
  BY DEF Init, LoadingWaits
<1>2. IInv /\ LoadingWaits /\ [Next]_vars => LoadingWaits'
  BY LoadingStep
<1> QED BY <1>1, <1>2, Invariance, PTL DEF Spec

=============================================================================
