---------------------------- MODULE RefreshTokens ----------------------------
(***************************************************************************)
(* Refresh tokens and the browser of one user.                             *)
(*                                                                         *)
(* A login starts a family of refresh tokens.  POST /auth/refresh revokes  *)
(* the token it is given and commits a successor in the same family; a     *)
(* revoked token given again is a replay and revokes the whole family.     *)
(* The tabs of the browser share the cookie and localStorage; whether a    *)
(* refresh is in flight is known to each tab alone (apiClient.ts keeps it  *)
(* in module-level variables).                                             *)
(*                                                                         *)
(* A request that creates a token gives it its name.  What a handler reads *)
(* and what it commits are steps of their own, and so is the arrival of    *)
(* the answer, which sets the cookie and runs the tab's continuation.      *)
(***************************************************************************)

CONSTANTS
  Tabs,
  Requests,  \* calls of /auth/login, /auth/refresh and /auth/logout
  Faults,    \* which of these can happen, see Mount, GiveUp, Undisturbed, Expire
  Null

ASSUME NullAssumption == Null \notin Requests
ASSUME FaultsAssumption ==
  Faults \subseteq {"reload", "lost answer", "overlap", "expiry"}

VARIABLES
  token,    \* the refreshtoken table; a token has the name of its request
  expired,  \* tokens past their expires_at
  cookie,   \* the refresh_token cookie of the browser
  access,   \* is there an access token in localStorage?
  tab,      \* what AuthContext shows in each tab
  req,      \* requests, seen from both ends
  origin,   \* history: the login a token descends from
  stray,    \* history: tokens that descend from one that was not live
  ended,    \* history: logins ended by a replay while still alive
  left,     \* history: logins the user has logged out of
  outrun    \* history: logins of which a logout has come too late for the token
            \* it was sent with, which a refresh had replaced

browser == <<cookie, access, tab>>
history == <<origin, stray, ended, left, outrun>>
vars == <<token, expired, browser, req, history>>

-----------------------------------------------------------------------------

NoToken == [state |-> "none", family |-> Null]
Token == {NoToken} \cup [state: {"live", "revoked"}, family: Requests]

Request == [kind: {"none", "login", "refresh", "restore", "logout"},
            tab: Tabs \cup {Null},
            presented: Requests \cup {Null},  \* the cookie it was sent with
            server: {"idle", "sent", "rotate", "replay", "ok", "denied"},
            awaited: BOOLEAN]  \* is there still a promise for its answer?
NoRequest == [kind |-> "none", tab |-> Null, presented |-> Null,
              server |-> "idle", awaited |-> FALSE]

Live(t) == token[t].state = "live"
Tokens == {t \in Requests : token[t].state # "none"}
Pending == {r \in Requests : req[r].awaited}
Refreshing(b) == {r \in Pending : req[r].tab = b
                                    /\ req[r].kind \in {"refresh", "restore"}}

TypeOK ==
  /\ token \in [Requests -> Token]
  /\ expired \subseteq Tokens
  /\ cookie \in Tokens \cup {Null}
  /\ access \in BOOLEAN
  /\ tab \in [Tabs -> {"loading", "in", "out"}]
  /\ req \in [Requests -> Request]
  /\ \A r \in Requests : /\ req[r].presented \in Tokens \cup {Null}
                         /\ req[r].server \in {"rotate", "replay"}
                              => /\ req[r].presented # Null
                                 /\ req[r].kind \in {"refresh", "restore"}
  /\ origin \in [Requests -> Requests \cup {Null}]
  /\ stray \subseteq Tokens /\ ended \subseteq Tokens
  /\ left \subseteq Tokens /\ outrun \subseteq Tokens

Init ==
  /\ token = [r \in Requests |-> NoToken]
  /\ expired = {}
  /\ cookie = Null
  /\ access = FALSE
  /\ tab = [b \in Tabs |-> "out"]
  /\ req = [r \in Requests |-> NoRequest]
  /\ origin = [r \in Requests |-> Null]
  /\ stray = {} /\ ended = {} /\ left = {} /\ outrun = {}

-----------------------------------------------------------------------------
(* The tabs send *)

Sent(kind, b) == [kind |-> kind, tab |-> b, presented |-> cookie,
                  server |-> "sent", awaited |-> TRUE]

\* A page load forgets the promises of the page that was there before; without
\* the fault "reload" there are none.
Forgotten(b) ==
  [r \in Requests |-> IF req[r].tab = b THEN [req[r] EXCEPT !.awaited = FALSE]
                      ELSE req[r]]

\* AuthProvider mounts: an access token that has not expired will do, else the
\* session is restored by a silent refresh.
Mount(b) ==
  /\ "reload" \in Faults \/ \A r \in Pending : req[r].tab # b
  /\ \/ /\ access
        /\ tab' = [tab EXCEPT ![b] = "in"]
        /\ req' = Forgotten(b)
     \/ \E r \in Requests :
          /\ req[r] = NoRequest
          /\ tab' = [tab EXCEPT ![b] = "loading"]
          /\ req' = [Forgotten(b) EXCEPT ![r] = Sent("restore", b)]
  /\ UNCHANGED <<token, expired, cookie, access, history>>

LogIn(r, b) ==
  /\ req[r] = NoRequest
  /\ tab[b] = "out"
  /\ \A s \in Pending : req[s].tab = b => req[s].kind # "login"
  /\ req' = [req EXCEPT ![r] = Sent("login", b)]
  /\ UNCHANGED <<token, expired, browser, history>>

\* Without the fault "overlap" a tab does not log out while it refreshes.
Undisturbed(b) == "overlap" \in Faults \/ \A r \in Pending : req[r].tab # b

\* Mutant: no shared promise.
RefreshEach(r, b) ==
  /\ req[r] = NoRequest
  /\ tab[b] = "in"
  /\ req' = [req EXCEPT ![r] = Sent("refresh", b)]
  /\ UNCHANGED <<token, expired, browser, history>>

\* A call of the tab has met a 401; if the tab is refreshing already, it waits
\* for that refresh.
Refresh(r, b) ==
  /\ req[r] = NoRequest
  /\ tab[b] = "in"
  /\ Refreshing(b) = {}
  /\ Undisturbed(b)
  /\ req' = [req EXCEPT ![r] = Sent("refresh", b)]
  /\ UNCHANGED <<token, expired, browser, history>>

LogOut(r, b) ==
  /\ req[r] = NoRequest
  /\ tab[b] = "in"
  /\ \A s \in Pending : req[s].tab = b => req[s].kind # "logout"
  /\ Undisturbed(b)
  /\ req' = [req EXCEPT ![r] = Sent("logout", b)]
  /\ UNCHANGED <<token, expired, browser, history>>

-----------------------------------------------------------------------------
(* The server *)

Expire(t) ==
  /\ "expiry" \in Faults
  /\ t \in Tokens \ expired
  /\ expired' = expired \cup {t}
  /\ UNCHANGED <<token, browser, req, history>>

\* Mutant: a missing cookie is not refused.
VerdictOnAnything(t) ==
  IF t \in expired THEN "denied"
  ELSE IF t # Null /\ Live(t) THEN "rotate" ELSE "replay"

\* What the refresh handler decides on the row it has looked up.
Verdict(t) ==
  IF t = Null \/ t \in expired THEN "denied"
  ELSE IF Live(t) THEN "rotate" ELSE "replay"

Lookup(r) ==
  /\ req[r].kind \in {"refresh", "restore"}
  /\ req[r].server = "sent"
  /\ req' = [req EXCEPT ![r].server = Verdict(req[r].presented)]
  /\ UNCHANGED <<token, expired, browser, history>>

\* Mutants: the successor begins a family of its own; the presented token
\* stays live.
RotatedAway(t, r) ==
  [token EXCEPT ![t].state = "revoked",
                ![r] = [state |-> "live", family |-> r]]
RotatedKeeping(t, r) ==
  [token EXCEPT ![r] = [state |-> "live", family |-> token[t].family]]

\* The presented token is revoked and its successor inherits the family.
Rotated(t, r) ==
  [token EXCEPT ![t].state = "revoked",
                ![r] = [state |-> "live", family |-> token[t].family]]

\* Both in one commit, even if t is no longer what the lookup saw: the UPDATE
\* has only the key of the row in its WHERE.
Rotate(r) ==
  LET t == req[r].presented IN
  /\ req[r].server = "rotate"
  /\ token' = Rotated(t, r)
  /\ origin' = [origin EXCEPT ![r] = origin[t]]
  /\ stray' = IF Live(t) /\ t \notin stray THEN stray ELSE stray \cup {r}
  /\ req' = [req EXCEPT ![r].server = "ok"]
  /\ UNCHANGED <<expired, browser, ended, left, outrun>>

\* WHERE family_id = the family of t: the rows committed when the statement
\* starts; it misses the successor a rotation is about to commit, which is
\* Rotate after RevokeFamily.
FamilyOf(t) == {s \in Tokens : token[s].family = token[t].family}

Revoked(S) ==
  [t \in Requests |-> IF t \in S THEN [token[t] EXCEPT !.state = "revoked"]
                      ELSE token[t]]

\* A replay revokes the family and answers 401.
RevokeFamily(r) ==
  LET t == req[r].presented IN
  /\ req[r].server = "replay"
  /\ token' = Revoked(FamilyOf(t))
  /\ ended' = IF \E s \in Tokens : Live(s) /\ origin[s] = origin[t]
              THEN ended \cup {origin[t]} ELSE ended
  /\ req' = [req EXCEPT ![r].server = "denied"]
  /\ UNCHANGED <<expired, browser, origin, stray, left, outrun>>

\* A login's token is the first of its family.
CommitLogin(r) ==
  /\ req[r].kind = "login" /\ req[r].server = "sent"
  /\ token' = [token EXCEPT ![r] = [state |-> "live", family |-> r]]
  /\ origin' = [origin EXCEPT ![r] = r]
  /\ req' = [req EXCEPT ![r].server = "ok"]
  /\ UNCHANGED <<expired, browser, stray, ended, left, outrun>>

\* Mutant: logout leaves the token to expire.
LogoutKeeps(r) ==
  /\ req[r].kind = "logout" /\ req[r].server = "sent"
  /\ req' = [req EXCEPT ![r].server = "ok"]
  /\ UNCHANGED <<token, expired, browser, history>>

\* Is a token of t's login live besides it, strays apart?
Replaced(t) ==
  \E s \in Requests \ (stray \cup {t}) : Live(s) /\ origin[s] = origin[t]

\* Logout revokes the token it is given; none, or one already revoked, is fine.
CommitLogout(r) ==
  LET t == req[r].presented IN
  /\ req[r].kind = "logout" /\ req[r].server = "sent"
  /\ token' = IF t = Null THEN token ELSE Revoked({t})
  /\ outrun' = IF t # Null /\ Replaced(t) THEN outrun \cup {origin[t]} ELSE outrun
  /\ req' = [req EXCEPT ![r].server = "ok"]
  /\ UNCHANGED <<expired, browser, origin, stray, ended, left>>

-----------------------------------------------------------------------------
(* The answer arrives, or an error in its place *)

\* AuthContext.clearAuth, in tab b; localStorage is every tab's.
ClearAuth(b) == access' = FALSE /\ tab' = [tab EXCEPT ![b] = "out"]

Settled(r) == req' = [req EXCEPT ![r].awaited = FALSE]

\* Mutant: the answer to a refresh sets no cookie.
AcceptWithoutCookie(r) ==
  LET b == req[r].tab IN
  /\ r \in Pending /\ req[r].server = "ok"
  /\ req[r].kind \in {"login", "refresh", "restore"}
  /\ cookie' = IF req[r].kind = "refresh" THEN cookie ELSE r
  /\ access' = TRUE
  /\ tab' = IF req[r].kind = "refresh" THEN tab ELSE [tab EXCEPT ![b] = "in"]
  /\ Settled(r)
  /\ UNCHANGED <<token, expired, history>>

\* A new cookie and a new access token.  Only a restore or a login shows the
\* user; a refresh that comes late finds the tab as it is by then.
Accept(r) ==
  LET b == req[r].tab IN
  /\ r \in Pending /\ req[r].server = "ok"
  /\ req[r].kind \in {"login", "refresh", "restore"}
  /\ cookie' = r
  /\ access' = TRUE
  /\ tab' = IF req[r].kind = "refresh" THEN tab ELSE [tab EXCEPT ![b] = "in"]
  /\ Settled(r)
  /\ UNCHANGED <<token, expired, history>>

\* Mutant: a refused restore leaves the page loading.
RefuseSilently(r) ==
  /\ r \in Pending /\ req[r].server = "denied"
  /\ access' = FALSE
  /\ tab' = IF req[r].kind = "restore" THEN tab
            ELSE [tab EXCEPT ![req[r].tab] = "out"]
  /\ Settled(r)
  /\ UNCHANGED <<token, expired, cookie, history>>

\* 401: the cookie stays, the user is logged out of this tab.
Refuse(r) ==
  /\ r \in Pending /\ req[r].server = "denied"
  /\ ClearAuth(req[r].tab)
  /\ Settled(r)
  /\ UNCHANGED <<token, expired, cookie, history>>

\* The answer to a logout deletes the cookie.
AcceptLogout(r) ==
  /\ r \in Pending /\ req[r].kind = "logout" /\ req[r].server = "ok"
  /\ cookie' = Null
  /\ ClearAuth(req[r].tab)
  /\ left' = IF req[r].presented = Null THEN left
             ELSE left \cup {origin[req[r].presented]}
  /\ Settled(r)
  /\ UNCHANGED <<token, expired, origin, stray, ended, outrun>>

\* A network error, a 500, or a closed connection, whatever the handler has
\* done or will do; one that raises or dies is one that does nothing more.
\* A refresh then changes nothing, a restore and a logout clear the tab.
GiveUp(r) ==
  /\ r \in Pending
  /\ "lost answer" \in Faults
  /\ IF req[r].kind \in {"restore", "logout"} THEN ClearAuth(req[r].tab)
     ELSE UNCHANGED <<access, tab>>
  /\ Settled(r)
  /\ UNCHANGED <<token, expired, cookie, history>>

-----------------------------------------------------------------------------

Serve(r) == \/ Lookup(r) \/ Rotate(r) \/ RevokeFamily(r)
            \/ CommitLogin(r) \/ CommitLogout(r)

Answer(r) == Accept(r) \/ Refuse(r) \/ AcceptLogout(r)

Next ==
  \/ \E b \in Tabs : Mount(b)
  \/ \E r \in Requests, b \in Tabs : LogIn(r, b) \/ Refresh(r, b) \/ LogOut(r, b)
  \/ \E r \in Requests : Serve(r) \/ Answer(r) \/ GiveUp(r) \/ Expire(r)

\* A request that was sent is served, and answered or given up by the browser.
Fairness ==
  \A r \in Requests : /\ WF_vars(Serve(r))
                      /\ WF_vars(Answer(r) \/ GiveUp(r))

Spec == Init /\ [][Next]_vars /\ Fairness

-----------------------------------------------------------------------------
(* Properties *)

\* A login is good for one token at a time: however refreshes overlap, at most
\* one of its tokens is live, not counting those that descend from a rotation
\* of a token that was no longer live (rotate_refresh_token's one commit).
OneLiveToken ==
  \A s, t \in Requests \ stray :
    Live(s) /\ Live(t) /\ origin[s] = origin[t] => s = t

\* "A single UPDATE ... revokes the entire chain" (docs/Pull Requests/
\* QCSD_Security_Hardening_Release.md:48): once a replay has ended a login, no
\* successor of its tokens is live, the strays of overlapping rotations apart.
EndedStaysEnded ==
  \A t \in Requests \ stray : origin[t] \in ended => ~ Live(t)

\* A page never stays at "Loading..." (AuthContext sets isLoading to false
\* however the silent refresh ends).
LoadingEnds == \A b \in Tabs : tab[b] = "loading" ~> tab[b] # "loading"

\* A revoked token that is presented again "is a reuse attempt (the legitimate
\* client rotated long ago)" (routers/auth.py:154): a browser on its own never
\* ends its own session that way.
NoFalseReplay == ended = {}

\* A tab that shows the user signed in, with nothing on the way, can renew its
\* access token, unless its time is over: the cookie and the token table have kept
\* step, so that /auth/refresh would rotate what the cookie holds.
SignedInCanRefresh ==
  \A b \in Tabs :
    tab[b] = "in" /\ Pending = {} =>
      /\ cookie # Null
      /\ cookie \in expired \/ Verdict(cookie) = "rotate"

\* The login has no live token, unless its logout was outrun, strays apart.
LoggedOut(login) ==
  login \in outrun
    \/ \A t \in Requests \ stray : origin[t] = login => ~ Live(t)

\* "Revoke a refresh token to log a user out" (routers/auth.py:199): however requests
\* overlap and answers are lost, a login the user was told to have left has no live
\* token, and gets none again, but for two: the successor that had replaced the token
\* before the logout came, and the stray of a rotation that had looked it up by then.
LeftStaysLeft == \A login \in left : LoggedOut(login)

-----------------------------------------------------------------------------
(* The inductive invariant behind OneLiveToken and EndedStaysEnded *)

\* The family column follows the descent from a login, which is what makes
\* revoking by family revoke the descendants.
FamilyIsOrigin ==
  \A t \in Requests :
    IF t \in Tokens THEN token[t].family = origin[t] /\ origin[t] \in Tokens
    ELSE origin[t] = Null

\* A request has its token once the server has committed it.
CommittedOnce ==
  \A r \in Requests :
    r \in Tokens <=> req[r].server = "ok" /\ req[r].kind # "logout"

IInv == TypeOK /\ FamilyIsOrigin /\ CommittedOnce
          /\ OneLiveToken /\ EndedStaysEnded

(* What LeftStaysLeft rests on: it holds from the logout's commit on *)

LogoutOK ==
  \A r \in Requests, login \in Tokens :
    req[r].kind = "logout" /\ req[r].server = "ok" /\ req[r].presented # Null
      /\ origin[req[r].presented] = login => LoggedOut(login)

(* What holds besides for one tab that does one thing at a time, while only tokens
   expire *)

Alone == (\A a, b \in Tabs : a = b) /\ Faults \subseteq {"expiry"}

Usable(t) == t = Null \/ Live(t)

\* What a tab shows while it waits for the answer to a request.
ShownDuring(kind) ==
  CASE kind = "login" -> "out" [] kind = "restore" -> "loading" [] OTHER -> "in"

\* The one request on the way carries the cookie that the browser still has;
\* the cookie is used up only where the answer is about to replace it.
PendingOK(r) ==
  /\ req[r].tab \in Tabs /\ tab[req[r].tab] = ShownDuring(req[r].kind)
  /\ req[r].presented = cookie
  /\ req[r].server # "replay"
  /\ req[r].server # "ok" => Usable(cookie)
  /\ req[r].server = "ok" /\ req[r].kind # "logout" => Live(r)

AloneOK ==
  /\ stray = {} /\ ended = {}
  /\ \A r, s \in Pending : r = s
  /\ \A r \in Requests : req[r].server \in {"sent", "rotate", "replay"} =>
                           r \in Pending
  /\ \A r \in Pending : PendingOK(r)
  /\ Pending = {} => Usable(cookie)
  /\ cookie = Null => ~ access /\ \A b \in Tabs : tab[b] # "in"

(* What LoadingEnds rests on *)

\* A page that shows "Loading..." still holds the promise of its silent refresh,
\* and the request is with the server or answered: an end of it is to come.
LoadingWaits ==
  \A b \in Tabs : tab[b] = "loading" =>
    \E r \in Pending : /\ req[r].tab = b
                       /\ req[r].kind = "restore"
                       /\ req[r].server # "idle"

=============================================================================
