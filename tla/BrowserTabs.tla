---------------------------- MODULE BrowserTabs ----------------------------
(***************************************************************************)
(* The tabs of browsers that log in and authorize clients at the same      *)
(* time.  The tabs of a browser share its cookies: a request carries those *)
(* the browser has when it is sent, and the Set-Cookie headers of a reply  *)
(* take effect when the reply arrives, in any order.                       *)
(*                                                                         *)
(* The server is a table of the secrets it has handed out, which are named *)
(* in the order of their creation; it handles a request in one step here,  *)
(* at the moment it is sent (OIDCFlow, PasskeyCeremony and AccountSession  *)
(* model the handlers' steps and how those of several requests interleave).*)
(***************************************************************************)
EXTENDS Naturals, Sequences

CONSTANTS Tabs, Browsers,
          MaxSecrets,  \* bound of the secrets handed out, the last one a session
          NoSecret     \* no cookie; also the application as a place to go

ASSUME SecretsAssumption == MaxSecrets \in Nat \ {0} /\ NoSecret \notin 1..MaxSecrets

VARIABLES jar,     \* the cookies of each browser
          tab,     \* what each tab shows or waits for
          origin,  \* origin[s]: what secret s was made for
          spent    \* transactions and ceremonies used, sessions logged out

vars == <<jar, tab, origin, spent>>

Secrets == 1..MaxSecrets

(* Where a login returns to: resumes a transaction, or the application.    *)
Returns == Secrets \cup {NoSecret}

Cookies == {"session", "state", "redirect", "transaction", "passkey"}

Jars == [Cookies -> Returns]

(* A Set-Cookie header names a cookie; the value NoSecret deletes it.      *)
NoChange == [c \in {} |-> NoSecret]

Headers == UNION {[changed -> Returns] : changed \in SUBSET Cookies}

(* A page, or a URL that is being requested, with its parameter; back is   *)
(* where the login page a page belongs to was told to return.              *)
Places == [at: {"app", "login", "authenticator", "error", "client",
                "authorize", "page", "begin", "callback", "options", "verify",
                "resume", "logout"},
           arg: Returns]

Place(at, arg) == [at |-> at, arg |-> arg]

TypeOK ==
  /\ jar \in [Browsers -> Jars]
  /\ tab \in [Tabs -> [browser: Browsers, waiting: BOOLEAN, place: Places,
                       headers: Headers, next: Places]]
  /\ origin \in Seq([kind: {"session", "state", "transaction", "passkey"},
                    browser: Browsers, back: Returns])
  /\ spent \subseteq Secrets

NoCookies == [c \in Cookies |-> NoSecret]

Resting(browser, place) ==
  [browser |-> browser, waiting |-> FALSE, place |-> place, headers |-> NoChange,
   next |-> Place("app", NoSecret)]

Init ==
  /\ jar = [b \in Browsers |-> NoCookies]
  /\ \E opened \in [Tabs -> Browsers] :
       tab = [t \in Tabs |-> Resting(opened[t], Place("app", NoSecret))]
  /\ origin = <<>>
  /\ spent = {}
-----------------------------------------------------------------------------
(***************************************************************************)
(* The browser                                                             *)
(***************************************************************************)
Known(kind) == {s \in DOMAIN origin : origin[s].kind = kind}

(* What a tab at rest may request next.  URLs of requests can be opened in *)
(* any tab of any browser: they are in a history, a link, a bookmark.      *)
Links(place) ==
  {Place("authorize", NoSecret), Place("page", NoSecret), Place("logout", NoSecret)}
  \cup {Place("resume", s) : s \in Known("transaction")}
  \cup {Place("page", s) : s \in Known("transaction")}
  \cup {Place("callback", s) : s \in Known("state")}
  \cup (IF place.at = "login"
          THEN {Place("begin", place.arg), Place("options", place.arg)} ELSE {})
  \cup (IF place.at = "authenticator" THEN {Place("verify", place.arg)} ELSE {})

Requested == {"authorize", "page", "begin", "callback", "options", "verify", "resume", "logout"}

(* The user of tab t follows a link to url, or the browser a redirect.     *)
Sends(t, url) ==
  /\ ~tab[t].waiting
  /\ url \in IF tab[t].place.at \in Requested THEN {tab[t].place} ELSE Links(tab[t].place)

(* From an error page or the client's page one can go where one can go     *)
(* from anywhere.                                                          *)
Shown(next) == IF next.at \in {"error", "client"} THEN Place("app", NoSecret) ELSE next

(* The reply arrives: its cookies are set, its page is shown. *)
Deliver(t) ==
  LET b == tab[t].browser
  IN /\ tab[t].waiting
     /\ jar' = [jar EXCEPT ![b] = [c \in Cookies |-> IF c \in DOMAIN tab[t].headers
                                                       THEN tab[t].headers[c] ELSE @[c]]]
     /\ tab' = [tab EXCEPT ![t] = Resting(@.browser, Shown(tab[t].next))]
     /\ UNCHANGED <<origin, spent>>

(* The connection breaks: the tab never sees the reply. *)
Break(t) ==
  /\ tab[t].waiting
  /\ tab' = [tab EXCEPT ![t] = Resting(@.browser, Place("app", NoSecret))]
  /\ UNCHANGED <<jar, origin, spent>>

(* A state cookie lives 300 s, the redirect cookie set with it 1800 s.     *)
StateExpires(b) ==
  /\ jar[b]["state"] # NoSecret
  /\ jar' = [jar EXCEPT ![b]["state"] = NoSecret]
  /\ UNCHANGED <<tab, origin, spent>>
-----------------------------------------------------------------------------
(***************************************************************************)
(* The server                                                              *)
(***************************************************************************)
Cookie(t, name) == jar[tab[t].browser][name]

Answer(t, url, headers, next) ==
  /\ tab' = [tab EXCEPT ![t] = [browser |-> @.browser, waiting |-> TRUE, place |-> url,
                                headers |-> headers, next |-> next]]
  /\ UNCHANGED jar

(* A reply that sets no cookie may as well arrive at once. *)
Show(t, place) ==
  /\ tab' = [tab EXCEPT ![t] = Resting(@.browser, place)]
  /\ UNCHANGED <<jar, origin, spent>>

Refuse(t) == Show(t, Place("app", NoSecret))

(* A new secret for the browser of tab t. *)
MutantLast == Len(origin)

Newest == Len(origin) + 1

HandOut(t, kind, back) ==
  /\ Newest <= IF kind = "session" THEN MaxSecrets ELSE MaxSecrets - 1
  /\ origin' = Append(origin, [kind |-> kind, browser |-> tab[t].browser, back |-> back])

SignedIn(t) == LET s == Cookie(t, "session") IN s # NoSecret /\ s \notin spent

(* GET /authorize: a code for the session, or a transaction (no session,   *)
(* or prompt=login).                                                       *)
Authorize(t) ==
  LET url == Place("authorize", NoSecret)
  IN /\ Sends(t, url)
     /\ \/ /\ SignedIn(t)
           /\ Answer(t, url, NoChange, Place("client", Cookie(t, "session")))
           /\ UNCHANGED <<origin, spent>>
        \/ /\ HandOut(t, "transaction", NoSecret)
           /\ Answer(t, url, [c \in {"transaction"} |-> Newest], Place("page", Newest))
           /\ UNCHANGED spent

(* The front end's login page sends a user that is signed in back at once. *)
Return(back) == IF back = NoSecret THEN Place("app", NoSecret) ELSE Place("resume", back)

LoginPage(t, back) ==
  /\ Sends(t, Place("page", back))
  /\ \/ SignedIn(t) /\ Show(t, Return(back))
     \/ Show(t, Place("login", back))

(* GET /auth/:provider/login: state and return URL, in one reply.          *)
MutantRedirectKept(secret, back) == [c \in {"state"} |-> secret]

LoginCookies(secret, back) ==
  [c \in {"state", "redirect"} |-> IF c = "state" THEN secret ELSE back]

Login(t, back) ==
  /\ Sends(t, Place("begin", back))
  /\ HandOut(t, "state", back)
  /\ Answer(t, Place("begin", back), LoginCookies(Newest, back), Place("callback", Newest))
  /\ UNCHANGED spent

(* A completed login: the new session; what began the login is cleared.    *)
LoggedIn(secret, began) ==
  [c \in {"session", began, "redirect"} |-> IF c = "session" THEN secret ELSE NoSecret]

(* GET /auth/:provider/callback: the state must be that of the cookie.     *)
ValidState(t, state) == Cookie(t, "state") = state

Callback(t, state) ==
  LET url == Place("callback", state)
  IN /\ Sends(t, url)
     /\ \/ Refuse(t)
        \/ /\ ValidState(t, state)
           /\ HandOut(t, "session", NoSecret)
           /\ Answer(t, url, LoggedIn(Newest, "state"), Return(Cookie(t, "redirect")))
           /\ UNCHANGED spent

(* POST /passkeys/login/options *)
PasskeyCookies(secret, back) ==
  [c \in {"passkey", "redirect"} |-> IF c = "passkey" THEN secret ELSE back]

PasskeyOptions(t, back) ==
  /\ Sends(t, Place("options", back))
  /\ HandOut(t, "passkey", back)
  /\ Answer(t, Place("options", back), PasskeyCookies(Newest, back),
            Place("authenticator", Newest))
  /\ UNCHANGED spent

(* POST /passkeys/login/verify: the assertion is for the challenge of the  *)
(* page, the ceremony is that of the cookie.                               *)
PasskeyVerify(t, challenge) ==
  LET url == Place("verify", challenge)
  IN /\ Sends(t, url)
     /\ \/ Refuse(t)
        \/ /\ Cookie(t, "passkey") = challenge
           /\ challenge \notin spent
           /\ spent' = spent \cup {challenge}
           /\ HandOut(t, "session", NoSecret)
           /\ Answer(t, url, LoggedIn(Newest, "passkey"), Return(Cookie(t, "redirect")))

(* GET /authorize/resume.  The session may have ended, the transaction be  *)
(* another one, used or expired.                                           *)
MutantBoundToAny(t, transaction) == Cookie(t, "transaction") # NoSecret

Bound(t, transaction) == Cookie(t, "transaction") = transaction

Unbind == [c \in {"transaction"} |-> NoSecret]

ResumeAuthorization(t, transaction) ==
  LET url == Place("resume", transaction)
  IN /\ Sends(t, url)
     /\ \/ Refuse(t)
        \/ /\ SignedIn(t)
           /\ Answer(t, url, Unbind, Place("error", NoSecret))
           /\ UNCHANGED <<origin, spent>>
        \/ /\ SignedIn(t)
           /\ Bound(t, transaction)
           /\ transaction \notin spent
           /\ spent' = spent \cup {transaction}
           /\ Answer(t, url, Unbind, Place("client", Cookie(t, "session")))
           /\ UNCHANGED origin

(* POST /auth/logout *)
Logout(t) ==
  LET url == Place("logout", NoSecret)
  IN /\ Sends(t, url)
     /\ Answer(t, url, [c \in {"session"} |-> NoSecret], Place("page", NoSecret))
     /\ spent' = spent \cup ({Cookie(t, "session")} \ {NoSecret})
     /\ UNCHANGED origin

Serve(t) ==
  \/ Authorize(t) \/ Logout(t)
  \/ \E back \in Returns : LoginPage(t, back) \/ Login(t, back) \/ PasskeyOptions(t, back)
  \/ \E s \in DOMAIN origin : Callback(t, s) \/ PasskeyVerify(t, s) \/ ResumeAuthorization(t, s)

Next ==
  \/ \E t \in Tabs : Serve(t) \/ Deliver(t) \/ Break(t)
  \/ \E b \in Browsers : StateExpires(b)

Spec == Init /\ [][Next]_vars
-----------------------------------------------------------------------------
(***************************************************************************)
(* Properties                                                              *)
(***************************************************************************)
(* Whatever URLs are opened where: a login is completed, an authorization  *)
(* is resumed and a passkey is accepted only in the browser that began it, *)
(* and a code is only issued under a session of a login of that browser    *)
(* ("authorization request is not bound to this browser",                  *)
(* handler/oidc.go:109).                                                   *)
Accepted(t, at) ==
  tab[t].waiting /\ tab[t].place.at = at /\ tab[t].next.at # "error"

BoundToBrowser ==
  \A t \in Tabs :
    LET here(s) == s \in DOMAIN origin /\ origin[s].browser = tab[t].browser
    IN /\ \A at \in {"callback", "verify", "resume"} :
            Accepted(t, at) => here(tab[t].place.arg)
       /\ tab[t].next.at = "client" => here(tab[t].next.arg)

(* A login returns where the page it was begun on was told to return - to  *)
(* its own authorization, if there is one - although the tabs of a browser *)
(* share one redirect cookie: unless a login of the other kind was begun   *)
(* in the same browser, or completed there.                                *)
Begun(b, kind) == {s \in Known(kind) : origin[s].browser = b}

ReturnsWhereAsked ==
  \A t \in Tabs :
    LET back == IF tab[t].next.at = "resume" THEN tab[t].next.arg ELSE NoSecret
        asked == origin[tab[t].place.arg].back
    IN /\ Accepted(t, "callback") /\ Begun(tab[t].browser, "passkey") = {} => back = asked
       /\ Accepted(t, "verify") /\ Begun(tab[t].browser, "state") = {} => back = asked
=============================================================================
