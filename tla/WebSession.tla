------------------------------ MODULE WebSession ------------------------------
(***************************************************************************)
(* The session of a browser in web mode, of all its tabs together: the     *)
(* bridge that mints the cookie, the requests that heal a 401 by a new     *)
(* mint, and the logout (frontend/src/lib/api.ts, authApi.ts and the       *)
(* session hooks; backend routes/auth.ts, auth/authProvider.ts,            *)
(* db/jwtDenylistRepository.ts, routes/logoutPage.ts).                     *)
(*                                                                         *)
(* Tabs share the cookie jar and nothing else.  A request is sent, is      *)
(* answered by the server, lands in the jar, and is then seen by the page; *)
(* anything may happen between.  The proxy (oauth2-proxy, external) has a   *)
(* session of its own, which sign_out ends.                                *)
(***************************************************************************)
EXTENDS Naturals, Sequences

CONSTANTS
    Tabs,       \* tabs of one browser
    Reqs,       \* requests of pages, at most so many at a time
    Retries,    \* RETRY_DELAYS_MS.length
    MaxTokens   \* bound: cookies minted

ASSUME SessionAssumption == Retries \in Nat /\ MaxTokens \in Nat

VARIABLES
    stage,   \* of each tab
    tries,   \* bootstrap attempts that have failed
    sync,    \* of each tab: the bootstrap's sync, later reSyncInFlight
    post,    \* the POST /logout under way
    req,     \* the requests of the pages
    tokens,  \* the JWTs minted: for which tab; live, revoked or expired
    cookie,  \* the one in the jar; 0 is none
    proxy,    \* the browser has a session at oauth2-proxy
    active   \* the account is

sessVars == <<stage, tries, sync, post, req, tokens, cookie, proxy, active>>

NoSync == [phase |-> "none", token |-> 0, result |-> "error", upset |-> FALSE]
NoPost == [phase |-> "none", cookie |-> 0]
NoReq == [tab |-> 0, phase |-> "idle", cookie |-> 0, upset |-> FALSE]

\* verifyAuthToken, the denylist and the account.
Honoured(n) == n # 0 /\ tokens[n].is = "live"
Usable(n) == Honoured(n) /\ active

\* The page is loaded, and logoutInProgress.
Leaving(t) == stage[t] \in {"leave", "post", "signout", "landing"}
Running(t) == stage[t] = "open" \/ Leaving(t)

SessInit ==
    /\ stage = [t \in Tabs |-> "new"] /\ tries = [t \in Tabs |-> 0]
    /\ sync = [t \in Tabs |-> NoSync]
    /\ post = [t \in Tabs |-> NoPost]
    /\ req = [r \in Reqs |-> NoReq]
    /\ tokens = <<>> /\ cookie = 0 /\ proxy = FALSE /\ active = TRUE

\* A cookie is taken away, or what it stands for: what counted on it is excused.
Upset ==
    /\ sync' = [t \in Tabs |-> [sync[t] EXCEPT !.upset = sync[t].phase # "none"]]
    /\ req' = [r \in Reqs |-> [req[r] EXCEPT
                  !.upset = @ \/ req[r].phase \in {"wait", "again"}]]

-----------------------------------------------------------------------------
(* syncWebSession and ensureWebSession. *)

\* The POST; without a session at the proxy it never gets to the bridge.
Sent == [NoSync EXCEPT !.phase = IF proxy THEN "sent" ELSE "landed"]

\* A page is opened or signed in: the proxy has sent the user to Google.
OpenTab(t) ==
    /\ stage[t] \in {"new", "out"}
    /\ stage' = [stage EXCEPT ![t] = "boot"] /\ tries' = [tries EXCEPT ![t] = 0]
    /\ proxy' = TRUE
    /\ UNCHANGED <<sync, post, req, tokens, cookie, active>>

\* useSessionBootstrap calls syncWebSession directly.
BootSync(t) ==
    /\ stage[t] = "boot" /\ sync[t] = NoSync
    /\ sync' = [sync EXCEPT ![t] = Sent]
    /\ UNCHANGED <<stage, tries, post, req, tokens, cookie, proxy, active>>

\* The keep-alive, a waking tab, the alerts stream: ensureWebSession, which
\* does nothing while logging out, while another is in flight, or (unless
\* forced) while the cookie looks fresh.
KeepAlive(t) ==
    /\ stage[t] = "open" /\ sync[t] = NoSync
    /\ sync' = [sync EXCEPT ![t] = Sent]
    /\ UNCHANGED <<stage, tries, post, req, tokens, cookie, proxy, active>>

\* POST /auth/oauth2/sync: a JWT for an active account that the proxy lets in.
Bridge(t) ==
    /\ sync[t].phase = "sent"
    /\ \/ /\ active /\ Len(tokens) < MaxTokens
          /\ tokens' = Append(tokens, [by |-> t, is |-> "live"])
          /\ sync' = [sync EXCEPT ![t].phase = "answered", ![t].result = "ok",
                                  ![t].token = Len(tokens')]
       \/ /\ ~active
          /\ sync' = [sync EXCEPT ![t].phase = "answered", ![t].result = "definite"]
          /\ UNCHANGED tokens
    /\ UNCHANGED <<stage, tries, post, req, cookie, proxy, active>>

\* The answer's cookie goes into the jar, before the page reads the answer.
SyncLands(t) ==
    /\ sync[t].phase = "answered"
    /\ cookie' = IF sync[t].result = "ok" THEN sync[t].token ELSE cookie
    /\ sync' = [sync EXCEPT ![t].phase = "landed"]
    /\ UNCHANGED <<stage, tries, post, req, tokens, proxy, active>>

\* The signal fires, the network fails, or the proxy's session has ended.
SyncFails(t) ==
    /\ sync[t].phase \in {"sent", "answered"}
    /\ sync' = [sync EXCEPT ![t] = [NoSync EXCEPT !.phase = "landed"]]
    /\ UNCHANGED <<stage, tries, post, req, tokens, cookie, proxy, active>>

\* What the requests that await a re-mint do when it has settled.
Resume(t, s) ==
    [r \in Reqs |->
       IF req[r].tab # t THEN req[r]
       ELSE IF req[r].phase = "held" THEN [req[r] EXCEPT !.phase = "sent", !.cookie = cookie]
       ELSE IF req[r].phase # "wait" THEN req[r]
       ELSE IF s.result # "ok" THEN [req[r] EXCEPT !.phase = "denied"]
       ELSE [req[r] EXCEPT !.phase = "again", !.cookie = cookie, !.upset = @ \/ s.upset]]

\* The promise settles: the bootstrap is done or tries again, and what has
\* waited for the re-mint goes on.
Settles(t) ==
    LET s == sync[t]
        boot == stage[t] = "boot"
        retry == boot /\ s.result = "error" /\ tries[t] < Retries
    IN  /\ s.phase = "landed" /\ (Running(t) \/ boot)
        /\ sync' = [sync EXCEPT ![t] = NoSync]
        /\ tries' = IF retry THEN [tries EXCEPT ![t] = @ + 1] ELSE tries
        /\ stage' = IF boot /\ ~retry THEN [stage EXCEPT ![t] = "open"] ELSE stage
        /\ req' = IF boot THEN req ELSE Resume(t, s)
        /\ UNCHANGED <<post, tokens, cookie, proxy, active>>

-----------------------------------------------------------------------------
(* apiFetch of anything but an auth path. *)

\* It waits for a re-mint in flight.
Ask(r, t) ==
    /\ req[r].phase \in {"idle", "ok", "denied", "blocked"} /\ Running(t)
    /\ req' = [req EXCEPT ![r] =
                 [tab |-> t, upset |-> FALSE,
                  phase |-> IF sync[t] = NoSync THEN "sent" ELSE "held",
                  cookie |-> IF sync[t] = NoSync THEN cookie ELSE 0]]
    /\ UNCHANGED <<stage, tries, sync, post, tokens, cookie, proxy, active>>

\* The server's answer to the request, or to its one retry.
Answered(r) ==
    /\ \/ /\ req[r].phase = "sent"
          /\ req' = [req EXCEPT ![r].phase = IF Usable(req[r].cookie) THEN "ok" ELSE "401"]
       \/ /\ req[r].phase = "again"
          /\ req' = [req EXCEPT ![r].phase = IF Usable(req[r].cookie) THEN "ok" ELSE "blocked"]
    /\ UNCHANGED <<stage, tries, sync, post, tokens, cookie, proxy, active>>

\* MUTANT: a cookie that looks fresh is not minted again.
LooksFresh(t) == \E n \in DOMAIN tokens : tokens[n].by = t /\ tokens[n].is # "expired"
RecoverUnforced(r) ==
    LET t == req[r].tab IN
    /\ req[r].phase = "401"
    /\ req' = [req EXCEPT ![r].phase = IF Leaving(t) THEN "denied"
                                       ELSE IF LooksFresh(t) THEN "again" ELSE "wait"]
    /\ sync' = IF ~Leaving(t) /\ ~LooksFresh(t) /\ sync[t] = NoSync
               THEN [sync EXCEPT ![t] = Sent] ELSE sync
    /\ UNCHANGED <<stage, tries, post, tokens, cookie, proxy, active>>

\* A 401 joins the re-mint in flight or starts one, forced; not at logout.
Recover(r) ==
    LET t == req[r].tab IN
    /\ req[r].phase = "401"
    /\ req' = [req EXCEPT ![r].phase = IF Leaving(t) THEN "denied" ELSE "wait"]
    /\ sync' = IF ~Leaving(t) /\ sync[t] = NoSync
               THEN [sync EXCEPT ![t] = Sent] ELSE sync
    /\ UNCHANGED <<stage, tries, post, tokens, cookie, proxy, active>>

-----------------------------------------------------------------------------
(* logout *)

\* beginLogout raises its flag ...
BeginLogout(t) ==
    /\ stage[t] = "open"
    /\ stage' = [stage EXCEPT ![t] = "leave"]
    /\ UNCHANGED <<tries, sync, post, req, tokens, cookie, proxy, active>>

\* MUTANT: what is in flight is not waited for.
PostLogoutAtOnce(t) ==
    /\ stage[t] = "leave"
    /\ stage' = [stage EXCEPT ![t] = "post"]
    /\ post' = [post EXCEPT ![t] = [phase |-> "sent", cookie |-> cookie]]
    /\ UNCHANGED <<tries, sync, req, tokens, cookie, proxy, active>>

\* ... and waits for the syncs in flight; then POST /auth/logout.
PostLogout(t) ==
    /\ stage[t] = "leave"
    /\ sync[t] = NoSync
    /\ stage' = [stage EXCEPT ![t] = "post"]
    /\ post' = [post EXCEPT ![t] = [phase |-> "sent", cookie |-> cookie]]
    /\ UNCHANGED <<tries, sync, req, tokens, cookie, proxy, active>>

\* The jti goes on the denylist, if the token verifies and the write succeeds.
Revoke(t) ==
    /\ post[t].phase = "sent"
    /\ \/ Usable(post[t].cookie) /\ tokens' = [tokens EXCEPT ![post[t].cookie].is = "revoked"]
       \/ UNCHANGED tokens
    /\ post' = [post EXCEPT ![t].phase = "answered"]
    /\ Upset
    /\ UNCHANGED <<stage, tries, cookie, proxy, active>>

\* The answer deletes the cookie; a failure does not keep the user.
LogoutEnds(t) ==
    /\ stage[t] = "post"
    /\ \/ post[t].phase = "answered" /\ cookie' = 0
       \/ UNCHANGED cookie
    /\ post' = [post EXCEPT ![t] = NoPost]
    /\ stage' = [stage EXCEPT ![t] = "signout"]
    /\ Upset
    /\ UNCHANGED <<tries, tokens, proxy, active>>

\* /oauth2/sign_out, and its redirect to /delogat, which deletes the cookie
\* once more.  The page is gone; what it has sent may still land.
SignOut(t) ==
    /\ stage[t] = "signout"
    /\ stage' = [stage EXCEPT ![t] = "landing"]
    /\ proxy' = FALSE
    /\ UNCHANGED <<tries, sync, post, req, tokens, cookie, active>>
Land(t) ==
    /\ stage[t] = "landing"
    /\ stage' = [stage EXCEPT ![t] = "out"]
    /\ cookie' = 0
    /\ sync' = [u \in Tabs |-> [sync[u] EXCEPT !.upset = sync[u].phase # "none"]]
    /\ req' = [r \in Reqs |-> IF req[r].tab = t THEN NoReq
                 ELSE [req[r] EXCEPT !.upset = @ \/ req[r].phase \in {"wait", "again"}]]
    /\ UNCHANGED <<tries, post, tokens, proxy, active>>

-----------------------------------------------------------------------------
(* The rest of the world. *)

\* A tab is closed, and the browser drops what it has under way; a page that
\* is loaded again is another tab.
CloseTab(t) ==
    /\ stage[t] \notin {"new", "closed"}
    /\ stage' = [stage EXCEPT ![t] = "closed"]
    /\ sync' = [sync EXCEPT ![t] = NoSync]
    /\ post' = [post EXCEPT ![t] = NoPost]
    /\ req' = [r \in Reqs |-> IF req[r].tab = t THEN NoReq ELSE req[r]]
    /\ UNCHANGED <<tries, tokens, cookie, proxy, active>>

\* Tokens expire in the order they were minted, and their hour is longer than
\* the ten seconds that an answer may take; an expired jti may then leave the
\* denylist (purgeExpiredJti).
Expires(n) ==
    /\ n \in DOMAIN tokens /\ tokens[n].is # "expired"
    /\ \A m \in 1..(n - 1) : tokens[m].is = "expired"
    /\ \A t \in Tabs : sync[t].phase = "answered" => sync[t].token # n
    /\ tokens' = [tokens EXCEPT ![n].is = "expired"]
    /\ Upset
    /\ UNCHANGED <<stage, tries, post, cookie, proxy, active>>

\* The user clears the cookies; an administrator suspends the account.
ClearCookies ==
    /\ cookie # 0 /\ cookie' = 0 /\ proxy' = FALSE /\ Upset
    /\ UNCHANGED <<stage, tries, post, tokens, active>>
Suspend ==
    /\ active /\ active' = FALSE /\ Upset
    /\ UNCHANGED <<stage, tries, post, tokens, cookie, proxy>>

SessNext ==
    \/ \E t \in Tabs :
         \/ OpenTab(t) \/ BootSync(t) \/ KeepAlive(t)
         \/ Bridge(t) \/ SyncLands(t) \/ SyncFails(t) \/ Settles(t)
         \/ \E r \in Reqs : Ask(r, t)
         \/ BeginLogout(t) \/ PostLogout(t) \/ Revoke(t) \/ LogoutEnds(t)
         \/ SignOut(t) \/ Land(t) \/ CloseTab(t)
    \/ \E r \in Reqs : Answered(r) \/ Recover(r)
    \/ \E n \in 1..MaxTokens : Expires(n)
    \/ ClearCookies \/ Suspend

SessSpec == SessInit /\ [][SessNext]_sessVars

-----------------------------------------------------------------------------
(* Properties. *)

SessTypeOK ==
    /\ stage \in [Tabs -> {"new", "closed", "boot", "open", "leave", "post", "signout", "landing", "out"}]
    /\ tries \in [Tabs -> 0..Retries]
    /\ cookie \in 0..Len(tokens)
    /\ \A n \in DOMAIN tokens : tokens[n].is \in {"live", "revoked", "expired"}
    /\ proxy \in BOOLEAN /\ active \in BOOLEAN

\* Who sees the page "Ai fost delogat" has no live session in the jar that
\* this tab has asked for, whatever was in flight when the logout began and
\* however the logout's own requests fail (api.ts:82-99, logoutPage.ts:62-75).
SignedOutStays ==
    \A t \in Tabs : stage[t] = "out" => ~(Honoured(cookie) /\ tokens[cookie].by = t)

\* A request that meets a 401 is served on its one retry, unless the bridge
\* refuses a session or the session is taken away again meanwhile
\* (api.ts:124-142).
RetryIsServed == \A r \in Reqs : req[r].phase = "blocked" => req[r].upset
===============================================================================
