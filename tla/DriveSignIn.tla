----------------------------- MODULE DriveSignIn -----------------------------
(* How a device comes to hold Google Drive tokens and keeps them: the        *)
(* sign-in in a browser, through the relay and back by an obsidian:// link   *)
(* (storage/adapters/google-drive-auth.ts, relay google-oauth.ts), and the   *)
(* refresh its parallel requests share (google-drive.ts). A token is known   *)
(* by the sign-in it comes from and a number Google gives it.                *)
EXTENDS Naturals, Sequences

CONSTANTS
    Device, Account, Worker, None,
    workerOf,     \* the device each worker's requests go out from
    Races,        \* among {"sign-in"}: a sign-in ends while a refresh is under way
    Rotates,      \* whether a refresh replaces the refresh token at Google
    MaxSignIns, MaxVisits, MaxExpiries

VARIABLES
    started,      \* who started each sign-in, by its nonce
    pending,      \* localStorage: the nonce of the sign-in this device started
    cookie,       \* the state in its browser's cookie
    pages,        \* Google's consent pages that are open: browser and state
    returns,      \* Google's redirects to /auth: browser, state, account
    links,        \* the obsidian:// links the relay sent browsers to
    lapsed,       \* the sign-ins whose ten minutes are over
    granted,      \* the accounts that allowed the application once
    config,       \* the Drive config: tokens, and the access token not expired
    issued, dead, \* how many tokens Google gave, and those it no longer takes
    refreshing,   \* the refresh token of the refresh under way, or NoToken
    work,         \* each worker's request
    visits, expiries
gvars == <<started, pending, cookie, pages, returns, links, lapsed, granted, config,
           issued, dead, refreshing, work, visits, expiries>>
flow == <<started, pending, cookie, pages, returns, links, lapsed, granted, visits>>

NoToken == [n |-> 0, of |-> None, nonce |-> 0]
Resting == [at |-> "idle", token |-> NoToken, retried |-> FALSE, since |-> 0]

GInit ==
    /\ started = <<>>
    /\ pending = [d \in Device |-> 0] /\ cookie = [d \in Device |-> 0]
    /\ pages = {} /\ returns = {} /\ links = {} /\ lapsed = {} /\ granted = {}
    /\ config = [d \in Device |-> [access |-> NoToken, refresh |-> NoToken, fresh |-> FALSE]]
    /\ issued = 0 /\ dead = {}
    /\ refreshing = [d \in Device |-> NoToken]
    /\ work = [w \in Worker |-> Resting]
    /\ visits = 0 /\ expiries = 0

-----------------------------------------------------------------------------
(* googleLoginUrl: a nonce of this device, before its browser opens /auth.   *)
Login(d) ==
    /\ Len(started) < MaxSignIns /\ started' = Append(started, d)
    /\ pending' = [pending EXCEPT ![d] = Len(started')]
    /\ UNCHANGED <<cookie, pages, returns, links, lapsed, granted, config, issued,
                   dead, refreshing, work, visits, expiries>>

(* /auth?nonce: the relay signs the nonce into a state, which the browser    *)
(* keeps in a cookie and Google carries. Any browser may open the address.   *)
Visit(d) ==
    /\ visits < MaxVisits /\ visits' = visits + 1
    /\ \E n \in DOMAIN started :
           /\ cookie' = [cookie EXCEPT ![d] = n]
           /\ pages' = pages \cup {[browser |-> d, state |-> n]}
    /\ UNCHANGED <<started, pending, returns, links, lapsed, granted, config, issued,
                   dead, refreshing, work, expiries>>

Lapse ==
    /\ \E n \in DOMAIN started \ lapsed : lapsed' = lapsed \cup {n}
    /\ UNCHANGED <<started, pending, cookie, pages, returns, links, granted, config,
                   issued, dead, refreshing, work, visits, expiries>>

(* The person consents, with one account or another, or refuses.             *)
Consent ==
    /\ \E page \in pages, account \in Account \cup {None} :
           /\ pages' = pages \ {page}
           /\ returns' = returns \cup
                  {[browser |-> page.browser, state |-> page.state, account |-> account]}
    /\ UNCHANGED <<started, pending, cookie, links, lapsed, granted, config, issued,
                   dead, refreshing, work, visits, expiries>>

(* An error goes back with its nonce if its state counts, and needs no       *)
(* cookie (handleAuthCallback).                                              *)
ConsentRefused ==
    /\ \E r \in returns :
           /\ r.account = None
           /\ returns' = returns \ {r}
           /\ links' = links \cup {[nonce |-> IF r.state \in lapsed THEN 0 ELSE r.state,
                                    access |-> NoToken, refresh |-> NoToken]}
    /\ UNCHANGED <<started, pending, cookie, pages, lapsed, granted, config, issued,
                   dead, refreshing, work, visits, expiries>>

(* Mutant: consent is not forced: Google gives a refresh token only the      *)
(* first time an account allows the application.                             *)
givesRefreshOnce(account) == account \notin granted

(* consentUrl: prompt=consent, so that a refresh token comes back.           *)
givesRefresh(account) == account \in Account

(* A code counts with a state the relay signed lately and the browser's      *)
(* cookie; it is exchanged and sent on by a link, and the cookie is cleared  *)
(* either way (handleAuthCallback, exchange, callbackUrl).                   *)
CodeExchanged ==
    /\ \E r \in returns :
           /\ r.account # None
           /\ returns' = returns \ {r}
           /\ cookie' = [cookie EXCEPT ![r.browser] = 0]
           /\ LET token(n) == [n |-> n, of |-> r.account, nonce |-> r.state]
              IN  IF r.state \notin lapsed /\ cookie[r.browser] = r.state
                  THEN /\ issued' = issued + 2
                       /\ granted' = granted \cup {r.account}
                       /\ links' = links \cup
                             {[nonce |-> r.state, access |-> token(issued + 1),
                               refresh |-> IF givesRefresh(r.account)
                                           THEN token(issued + 2) ELSE NoToken]}
                  ELSE UNCHANGED <<issued, granted, links>>
    /\ UNCHANGED <<started, pending, pages, lapsed, config, dead, refreshing, work,
                   visits, expiries>>

(* Mutant: a link is taken while any sign-in waits.                          *)
takesAny(d, nonce) == nonce # 0 /\ pending[d] # 0

(* takeLogin: the nonce that waits here, while it counts, and once.          *)
takesLogin(d, nonce) == nonce # 0 /\ pending[d] = nonce /\ nonce \notin lapsed

(* handleGoogleDriveProtocol: the link may open on any device, and again.    *)
OpenLink(d) ==
    /\ "sign-in" \in Races \/ refreshing[d] = NoToken
    /\ \E link \in links :
          /\ takesLogin(d, link.nonce)
          /\ pending' = [pending EXCEPT ![d] = 0]
          /\ config' = IF link.access = NoToken THEN config
                       ELSE [config EXCEPT ![d] =
                               [access |-> link.access, fresh |-> TRUE,
                                refresh |-> IF link.refresh = NoToken
                                            THEN @.refresh ELSE link.refresh]]
    /\ UNCHANGED <<started, cookie, pages, returns, links, lapsed, granted, issued,
                   dead, refreshing, work, visits, expiries>>

-----------------------------------------------------------------------------
needsRefresh(d) == config[d].access = NoToken \/ ~config[d].fresh

(* refreshOnce: a refresh under way is waited for, not doubled.              *)
joinsRefresh(d) ==
    refreshing' = IF refreshing[d] = NoToken
                  THEN [refreshing EXCEPT ![d] = config[d].refresh] ELSE refreshing

(* authorized, getHeaders: a token known to be over is replaced first.       *)
BeginRequest(w) ==
    LET d == workerOf[w]
    IN  /\ work[w].at = "idle" /\ config[d].refresh # NoToken
        /\ IF needsRefresh(d)
           THEN /\ work' = [work EXCEPT ![w] = [Resting EXCEPT !.at = "waits"]]
                /\ joinsRefresh(d)
           ELSE /\ work' = [work EXCEPT ![w] = [Resting EXCEPT !.at = "sent",
                                !.token = config[d].access, !.since = expiries]]
                /\ UNCHANGED refreshing
    /\ UNCHANGED <<flow, config, issued, dead, expiries>>

Answered(w) ==
    /\ work[w].at = "sent" /\ work[w].token.n \notin dead
    /\ work' = [work EXCEPT ![w] = Resting]
    /\ UNCHANGED <<flow, config, issued, dead, refreshing, expiries>>

(* 401: the token is replaced once and the request sent again.               *)
Unauthorized(w) ==
    /\ work[w].at = "sent" /\ work[w].token.n \in dead /\ ~work[w].retried
    /\ work' = [work EXCEPT ![w].at = "waits", ![w].retried = TRUE]
    /\ joinsRefresh(workerOf[w])
    /\ UNCHANGED <<flow, config, issued, dead, expiries>>

Fails(w) ==
    /\ work[w].at = "sent" /\ work[w].token.n \in dead /\ work[w].retried
    /\ work' = [work EXCEPT ![w].at = "failed"]
    /\ UNCHANGED <<flow, config, issued, dead, refreshing, expiries>>

(* The caller sees the failure, and a later request starts over.             *)
GivesUp(w) ==
    /\ work[w].at = "failed" /\ work' = [work EXCEPT ![w] = Resting]
    /\ UNCHANGED <<flow, config, issued, dead, refreshing, expiries>>

waits(d) == {w \in Worker : workerOf[w] = d /\ work[w].at = "waits"}

(* Mutant: a request that waited is sent with the headers it had.            *)
resentAsWas(w, token) == [work[w] EXCEPT !.at = "sent", !.since = expiries]

resent(w, token) == [work[w] EXCEPT !.at = "sent", !.token = token, !.since = expiries]

(* The refresh ends for all that wait. The relay passes on the access token  *)
(* alone (handleTokenRefresh), so the refresh token stays                    *)
(* (refreshAccessToken).                                                     *)
Refreshed(d) ==
    LET used == refreshing[d]
        token == [used EXCEPT !.n = issued + 1]
    IN  /\ used # NoToken /\ used.n \notin dead
        /\ refreshing' = [refreshing EXCEPT ![d] = NoToken]
        /\ issued' = issued + 1
        /\ dead' = IF Rotates THEN dead \cup {used.n} ELSE dead
        /\ config' = [config EXCEPT ![d].access = token, ![d].fresh = TRUE]
        /\ work' = [w \in Worker |-> IF w \in waits(d) THEN resent(w, token) ELSE work[w]]
    /\ UNCHANGED <<flow, expiries>>

(* The refresh is refused, or nobody answers: all that wait fail.            *)
RefreshFails(d) ==
    /\ refreshing[d] # NoToken
    /\ refreshing' = [refreshing EXCEPT ![d] = NoToken]
    /\ work' = [w \in Worker |-> IF w \in waits(d) THEN Resting ELSE work[w]]
    /\ UNCHANGED <<flow, config, issued, dead, expiries>>

(* An access token is over, and the device knows it by the clock or not.     *)
Expire(d) ==
    /\ expiries < MaxExpiries /\ expiries' = expiries + 1
    /\ config[d].access.n \notin dead \cup {0}
    /\ dead' = dead \cup {config[d].access.n}
    /\ \E known \in BOOLEAN : config' = [config EXCEPT ![d].fresh = @ /\ ~known]
    /\ UNCHANGED <<flow, issued, refreshing, work>>

GNext ==
    \/ Lapse \/ Consent \/ ConsentRefused \/ CodeExchanged
    \/ \E d \in Device :
          \/ Login(d) \/ Visit(d) \/ OpenLink(d)
          \/ Refreshed(d) \/ RefreshFails(d) \/ Expire(d)
    \/ \E w \in Worker :
          \/ BeginRequest(w) \/ Answered(w) \/ Unauthorized(w) \/ Fails(w) \/ GivesUp(w)

-----------------------------------------------------------------------------
(* A device holds tokens of a sign-in it started itself, both of one         *)
(* account: its vault is never pointed at another Drive by a link.           *)
OwnSignIn ==
    \A d \in Device : config[d].refresh # NoToken =>
        /\ started[config[d].refresh.nonce] = d
        /\ config[d].access.nonce = config[d].refresh.nonce

(* A request a worker waited with goes out with the token the refresh got:   *)
(* it fails only if a token ended again since.                               *)
OutlivesItsToken ==
    \A w \in Worker : work[w].at = "failed" => work[w].since < expiries

SignInSafe == OwnSignIn /\ OutlivesItsToken

(* "Google rotates refresh tokens on some accounts: dropping the new one     *)
(* leaves the next refresh holding a revoked credential."                    *)
KeepsItsCredential == \A d \in Device : config[d].refresh.n \notin dead
=============================================================================
