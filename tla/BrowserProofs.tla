--------------------------- MODULE BrowserProofs ---------------------------
(***************************************************************************)
(* Proofs about BrowserTabs, for any number of tabs, browsers and secrets. *)
(***************************************************************************)
EXTENDS BrowserTabs, TLAPS

Kinds == {"session", "state", "transaction", "passkey"}

Types ==
  /\ TypeOK
  /\ Len(origin) <= MaxSecrets

-----------------------------------------------------------------------------
(***************************************************************************)
(* Types                                                                   *)
(***************************************************************************)
LEMMA PlaceTyped ==
  ASSUME NEW at \in {"app", "login", "authenticator", "error", "client",
                     "authorize", "page", "begin", "callback", "options", "verify",
                     "resume", "logout"},
         NEW arg \in Returns
  PROVE  Place(at, arg) \in Places /\ Place(at, arg).at = at /\ Place(at, arg).arg = arg
  BY DEF Place, Places

LEMMA RestingTyped ==
  ASSUME NEW b \in Browsers, NEW place \in Places
  PROVE  Resting(b, place) \in [browser: Browsers, waiting: BOOLEAN, place: Places,
                                headers: Headers, next: Places]
<1>1. Place("app", NoSecret) \in Places
  BY DEF Place, Places, Returns
<1>2. NoChange \in Headers
  BY DEF NoChange, Headers
<1> QED
  BY <1>1, <1>2 DEF Resting

(* What a step that answers tab t leaves typed.                            *)
LEMMA AnswerTyped ==
  ASSUME TypeOK, NEW t \in Tabs, NEW url \in Places, NEW headers \in Headers,
         NEW next \in Places, Answer(t, url, headers, next)
  PROVE  /\ jar' = jar
         /\ tab' \in [Tabs -> [browser: Browsers, waiting: BOOLEAN, place: Places,
                               headers: Headers, next: Places]]
         /\ tab'[t] = [browser |-> tab[t].browser, waiting |-> TRUE, place |-> url,
                       headers |-> headers, next |-> next]
         /\ \A u \in Tabs : u # t => tab'[u] = tab[u]
  BY DEF TypeOK, Answer

LEMMA ShowTyped ==
  ASSUME TypeOK, NEW t \in Tabs, NEW place \in Places, Show(t, place)
  PROVE  /\ jar' = jar /\ origin' = origin /\ spent' = spent
         /\ tab' \in [Tabs -> [browser: Browsers, waiting: BOOLEAN, place: Places,
                               headers: Headers, next: Places]]
         /\ tab'[t] = Resting(tab[t].browser, place)
         /\ \A u \in Tabs : u # t => tab'[u] = tab[u]
<1>1. tab[t].browser \in Browsers
  BY DEF TypeOK
<1>2. Resting(tab[t].browser, place) \in [browser: Browsers, waiting: BOOLEAN, place: Places,
                                          headers: Headers, next: Places]
  BY <1>1, RestingTyped
<1> QED
  BY <1>2 DEF TypeOK, Show

LEMMA HandOutTyped ==
  ASSUME Types, NEW t \in Tabs, NEW kind \in Kinds, NEW back \in Returns,
         HandOut(t, kind, back)
  PROVE  /\ origin' \in Seq([kind: Kinds, browser: Browsers, back: Returns])
         /\ Newest \in Secrets /\ Newest \in Returns /\ Newest # NoSecret
         /\ Newest \in DOMAIN origin' /\ Newest \notin DOMAIN origin
         /\ origin'[Newest] = [kind |-> kind, browser |-> tab[t].browser, back |-> back]
         /\ Len(origin') <= MaxSecrets
         /\ \A s \in DOMAIN origin : s \in DOMAIN origin' /\ origin'[s] = origin[s]
<1>1. /\ origin \in Seq([kind: Kinds, browser: Browsers, back: Returns])
      /\ tab[t].browser \in Browsers
  BY DEF Types, TypeOK, Kinds
<1>2. [kind |-> kind, browser |-> tab[t].browser, back |-> back]
        \in [kind: Kinds, browser: Browsers, back: Returns]
  BY <1>1
<1>3. Newest \in Nat /\ 1 <= Newest /\ Newest <= MaxSecrets
  BY <1>1, SecretsAssumption DEF HandOut, Newest
<1>4. Newest \in Secrets
  BY <1>3, SecretsAssumption DEF Secrets
<1>5. Newest # NoSecret /\ Newest \in Returns
  BY <1>4, SecretsAssumption DEF Secrets, Returns
<1> QED
  BY <1>1, <1>2, <1>3, <1>4, <1>5 DEF HandOut, Newest

LEMMA SeqElement ==
  ASSUME NEW S, NEW q \in Seq(S), NEW i \in DOMAIN q
  PROVE  q[i] \in S /\ i \in 1..Len(q)
  OBVIOUS

LEMMA KnownTyped ==
  ASSUME Types, NEW s \in DOMAIN origin
  PROVE  s \in Secrets /\ s \in Returns /\ s # NoSecret
         /\ origin[s] \in [kind: Kinds, browser: Browsers, back: Returns]
<1>1. origin \in Seq([kind: Kinds, browser: Browsers, back: Returns])
  BY DEF Types, TypeOK, Kinds
<1>2. s \in 1..MaxSecrets
  BY <1>1, SecretsAssumption DEF Types
<1>3. origin[s] \in [kind: Kinds, browser: Browsers, back: Returns]
  BY <1>1, SeqElement
<1>4. s # NoSecret
  BY <1>2, SecretsAssumption
<1> QED
  BY <1>2, <1>3, <1>4 DEF Secrets, Returns

LEMMA CookieTyped ==
  ASSUME TypeOK, NEW t \in Tabs, NEW c \in Cookies
  PROVE  Cookie(t, c) \in Returns /\ tab[t].browser \in Browsers
  BY DEF TypeOK, Jars, Cookie

LEMMA ReturnTyped ==
  ASSUME NEW back \in Returns
  PROVE  Return(back) \in Places
  BY PlaceTyped DEF Return, Returns

(* The headers the handlers set.                                           *)
LEMMA HeadersTyped ==
  ASSUME NEW s \in Returns, NEW back \in Returns, NEW k \in {"state", "passkey"}
  PROVE  /\ [c \in {"transaction"} |-> s] \in Headers
         /\ [c \in {"session"} |-> s] \in Headers
         /\ LoginCookies(s, back) \in Headers
         /\ PasskeyCookies(s, back) \in Headers
         /\ LoggedIn(s, k) \in Headers
         /\ Unbind \in Headers
         /\ NoChange \in Headers
<1>0. NoSecret \in Returns
  BY DEF Returns
<1>1. ASSUME NEW changed \in SUBSET Cookies, NEW h \in [changed -> Returns]
      PROVE  h \in Headers
  BY <1>1 DEF Headers
<1>2. [c \in {"transaction"} |-> s] \in Headers
  <2>1. {"transaction"} \in SUBSET Cookies
    BY DEF Cookies
  <2> QED BY <2>1, <1>1
<1>3. [c \in {"session"} |-> s] \in Headers
  <2>1. {"session"} \in SUBSET Cookies
    BY DEF Cookies
  <2> QED BY <2>1, <1>1
<1>4. PasskeyCookies(s, back) \in Headers
  <2>1. {"passkey", "redirect"} \in SUBSET Cookies
    BY DEF Cookies
  <2>2. PasskeyCookies(s, back) \in [{"passkey", "redirect"} -> Returns]
    BY DEF PasskeyCookies
  <2> QED BY <2>1, <2>2, <1>1
<1>5. LoginCookies(s, back) \in Headers
  <2>1. {"state", "redirect"} \in SUBSET Cookies
    BY DEF Cookies
  <2>2. LoginCookies(s, back) \in [{"state", "redirect"} -> Returns]
    BY DEF LoginCookies
  <2> QED BY <2>1, <2>2, <1>1
<1>6. LoggedIn(s, k) \in Headers
  <2>1. {"session", k, "redirect"} \in SUBSET Cookies
    BY DEF Cookies
  <2>2. LoggedIn(s, k) \in [{"session", k, "redirect"} -> Returns]
    BY <1>0 DEF LoggedIn
  <2> QED BY <2>1, <2>2, <1>1
<1>7. Unbind \in Headers
  <2>1. {"transaction"} \in SUBSET Cookies
    BY DEF Cookies
  <2>2. Unbind \in [{"transaction"} -> Returns]
    BY <1>0 DEF Unbind
  <2> QED BY <2>1, <2>2, <1>1
<1>8. NoChange \in Headers
  BY DEF NoChange, Headers
<1> QED
  BY <1>2, <1>3, <1>4, <1>5, <1>6, <1>7, <1>8
-----------------------------------------------------------------------------
(***************************************************************************)
(* The invariant                                                           *)
(***************************************************************************)
(* The cookies of browser b, but for the return URL, are secrets handed    *)
(* out to b, each of its kind.                                             *)
CookiesHere(b) == \A k \in Kinds : jar[b][k] \in Begun(b, k) \cup {NoSecret}

Logins == {"state", "passkey"}

Other(k) == IF k = "state" THEN "passkey" ELSE "state"

(* While browser b began logins of one kind only, its return URL is that   *)
(* of the login it can still complete.                                     *)
CookiesPaired(b) ==
  \A k \in Logins :
    Begun(b, Other(k)) = {} /\ jar[b][k] # NoSecret => jar[b]["redirect"] = origin[jar[b][k]].back

(* The headers on their way to browser b keep both.                        *)
HeadersSound(b, h) ==
  /\ \A k \in Kinds : k \in DOMAIN h => h[k] \in Begun(b, k) \cup {NoSecret}
  /\ \A k \in Logins : k \in DOMAIN h =>
       /\ "redirect" \in DOMAIN h
       /\ Begun(b, k) # {}
       /\ h[k] # NoSecret => h["redirect"] = origin[h[k]].back
  /\ "redirect" \in DOMAIN h => \E k \in Logins : k \in DOMAIN h

(* The parts of BoundToBrowser and ReturnsWhereAsked about one tab r.      *)
Took(r, at) == r.waiting /\ r.place.at = at /\ r.next.at # "error"

BoundHere(r) ==
  LET here(s) == s \in DOMAIN origin /\ origin[s].browser = r.browser
  IN /\ \A at \in {"callback", "verify", "resume"} : Took(r, at) => here(r.place.arg)
     /\ r.next.at = "client" => here(r.next.arg)

ReturnsRight(r) ==
  LET back == IF r.next.at = "resume" THEN r.next.arg ELSE NoSecret
      asked == origin[r.place.arg].back
  IN /\ Took(r, "callback") /\ Begun(r.browser, "passkey") = {} => back = asked
     /\ Took(r, "verify") /\ Begun(r.browser, "state") = {} => back = asked

TabSound(r) == HeadersSound(r.browser, r.headers) /\ BoundHere(r) /\ ReturnsRight(r)

Sound ==
  /\ \A b \in Browsers : CookiesHere(b) /\ CookiesPaired(b)
  /\ \A t \in Tabs : TabSound(tab[t])

LEMMA SoundImplies == ASSUME Sound PROVE BoundToBrowser /\ ReturnsWhereAsked
  BY DEF Sound, TabSound, BoundHere, ReturnsRight, Took, BoundToBrowser, ReturnsWhereAsked, Accepted

(* Handing out a secret disturbs nothing that is sound.                    *)
Extends ==
  \A s \in DOMAIN origin : s \in DOMAIN origin' /\ origin'[s] = origin[s]

LEMMA BegunGrows ==
  ASSUME Types, Extends, NEW b \in Browsers, NEW k \in Kinds
  PROVE  Begun(b, k) \subseteq Begun(b, k)'
  BY DEF Extends, Begun, Known

LEMMA BegunOrigin ==
  ASSUME Types, Extends, NEW b \in Browsers, NEW k \in Kinds, NEW s \in Begun(b, k)
  PROVE  /\ s \in DOMAIN origin /\ origin[s].browser = b /\ origin[s].kind = k
         /\ s # NoSecret /\ s \in Returns
         /\ origin'[s] = origin[s] /\ s \in Begun(b, k)'
  BY KnownTyped DEF Extends, Begun, Known

LEMMA JarKept ==
  ASSUME Types, Extends, NEW b \in Browsers, CookiesHere(b), CookiesPaired(b),
         jar'[b] = jar[b]
  PROVE  CookiesHere(b)' /\ CookiesPaired(b)'
<1>1. CookiesHere(b)'
  BY BegunGrows DEF CookiesHere
<1>2. ASSUME NEW k \in Logins, Begun(b, Other(k))' = {}, jar'[b][k] # NoSecret
      PROVE  jar'[b]["redirect"] = origin'[jar'[b][k]].back
  <2>1. k \in Kinds /\ Other(k) \in Kinds
    BY DEF Kinds, Logins, Other
  <2>2. Begun(b, Other(k)) = {}
    BY <1>2, <2>1, BegunGrows
  <2>3. jar[b][k] \in Begun(b, k)
    BY <1>2, <2>1 DEF CookiesHere
  <2>4. origin'[jar[b][k]] = origin[jar[b][k]]
    BY <2>1, <2>3, BegunOrigin
  <2> QED
    BY <1>2, <2>2, <2>4 DEF CookiesPaired
<1> QED
  BY <1>1, <1>2 DEF CookiesPaired, Begun, Known

LEMMA HeadersKept ==
  ASSUME Types, Extends, NEW b \in Browsers, NEW h, HeadersSound(b, h)
  PROVE  /\ \A k \in Kinds : k \in DOMAIN h => h[k] \in Begun(b, k)' \cup {NoSecret}
         /\ \A k \in Logins : k \in DOMAIN h =>
              /\ "redirect" \in DOMAIN h
              /\ Begun(b, k)' # {}
              /\ h[k] # NoSecret => h["redirect"] = origin'[h[k]].back
<1>1. \A k \in Kinds : k \in DOMAIN h => h[k] \in Begun(b, k)' \cup {NoSecret}
  BY BegunGrows DEF HeadersSound
<1>2. ASSUME NEW k \in Logins, k \in DOMAIN h
      PROVE  /\ "redirect" \in DOMAIN h
             /\ Begun(b, k)' # {}
             /\ h[k] # NoSecret => h["redirect"] = origin'[h[k]].back
  <2>1. k \in Kinds
    BY DEF Kinds, Logins
  <2>2. "redirect" \in DOMAIN h /\ Begun(b, k) # {} /\ Begun(b, k)' # {}
    BY <1>2, <2>1, BegunGrows DEF HeadersSound
  <2>3. ASSUME h[k] # NoSecret PROVE h["redirect"] = origin'[h[k]].back
    <3>1. h[k] \in Begun(b, k) /\ h["redirect"] = origin[h[k]].back
      BY <1>2, <2>1, <2>3 DEF HeadersSound
    <3> QED
      BY <2>1, <3>1, BegunOrigin
  <2> QED
    BY <2>2, <2>3
<1> QED
  BY <1>1, <1>2

LEMMA TabKept ==
  ASSUME Types, Extends, NEW t \in Tabs, TabSound(tab[t]), tab'[t] = tab[t]
  PROVE  TabSound(tab[t])'
<1> DEFINE r == tab[t]
<1>0. r.browser \in Browsers
  BY DEF Types, TypeOK
<1>1. HeadersSound(r.browser, r.headers)'
  <2>1. PICK b \in Browsers : b = tab[t].browser
    BY <1>0
  <2>2. PICK h : h = tab[t].headers
    OBVIOUS
  <2>3. HeadersSound(b, h)
    BY <2>1, <2>2 DEF TabSound
  <2>4. HeadersSound(b, h)'
    <3>1. "redirect" \in DOMAIN h => \E k \in Logins : k \in DOMAIN h
      BY <2>3 DEF HeadersSound
    <3> QED
      BY <2>3, <3>1, HeadersKept DEF HeadersSound
  <2>5. b = tab'[t].browser /\ h = tab'[t].headers
    BY <2>1, <2>2
  <2> QED
    BY <2>4, <2>5
<1>2. BoundHere(r) /\ ReturnsRight(r)
  BY DEF TabSound
<1>3. BoundHere(r)'
  BY <1>2 DEF BoundHere, Took, Extends
<1>4. ReturnsRight(r)'
  <2>1. /\ Begun(r.browser, "passkey") \subseteq Begun(r.browser, "passkey")'
        /\ Begun(r.browser, "state") \subseteq Begun(r.browser, "state")'
    BY <1>0, BegunGrows DEF Kinds
  <2>2. \A at \in {"callback", "verify"} :
          Took(r, at) => origin'[r.place.arg] = origin[r.place.arg]
    BY <1>2 DEF BoundHere, Extends
  <2>3. ASSUME Took(r, "callback"), Begun(r.browser, "passkey")' = {}
        PROVE  (IF r.next.at = "resume" THEN r.next.arg ELSE NoSecret) = origin'[r.place.arg].back
    BY <1>2, <2>1, <2>2, <2>3 DEF ReturnsRight
  <2>4. ASSUME Took(r, "verify"), Begun(r.browser, "state")' = {}
        PROVE  (IF r.next.at = "resume" THEN r.next.arg ELSE NoSecret) = origin'[r.place.arg].back
    BY <1>2, <2>1, <2>2, <2>4 DEF ReturnsRight
  <2> QED
    BY <2>3, <2>4 DEF ReturnsRight, Took
<1> QED
  BY <1>1, <1>3, <1>4 DEF TabSound

-----------------------------------------------------------------------------
(***************************************************************************)
(* What one step makes of a tab                                            *)
(***************************************************************************)
LEMMA StepSound ==
  ASSUME Types, Sound, Extends, jar' = jar, NEW t \in Tabs,
         \A u \in Tabs : u # t => tab'[u] = tab[u],
         TabSound(tab[t])'
  PROVE  Sound'
<1>1. ASSUME NEW b \in Browsers PROVE CookiesHere(b)' /\ CookiesPaired(b)'
  BY JarKept DEF Sound
<1>2. ASSUME NEW u \in Tabs PROVE TabSound(tab[u])'
  <2>1. CASE u = t
    BY <2>1
  <2>2. CASE u # t
    BY <2>2, TabKept DEF Sound
  <2> QED
    BY <2>1, <2>2
<1> QED
  BY <1>1, <1>2 DEF Sound

LEMMA RestingSound ==
  ASSUME NEW t \in Tabs, NEW place, NEW b, tab'[t] = Resting(b, place)
  PROVE  TabSound(tab[t])'
<1>1. tab'[t].headers = NoChange /\ ~tab'[t].waiting /\ tab'[t].next.at = "app"
  BY DEF Resting, Place
<1>2. DOMAIN NoChange = {}
  BY DEF NoChange
<1> QED
  BY <1>1, <1>2 DEF TabSound, HeadersSound, BoundHere, ReturnsRight, Took

LEMMA ShowSound ==
  ASSUME Types, Sound, NEW t \in Tabs, NEW place \in Places, Show(t, place)
  PROVE  Types' /\ Sound'
<1>1. /\ jar' = jar /\ origin' = origin /\ spent' = spent
      /\ tab' \in [Tabs -> [browser: Browsers, waiting: BOOLEAN, place: Places,
                            headers: Headers, next: Places]]
      /\ tab'[t] = Resting(tab[t].browser, place)
      /\ \A u \in Tabs : u # t => tab'[u] = tab[u]
  BY ShowTyped DEF Types
<1>2. PICK b : b = tab[t].browser
  OBVIOUS
<1>3. TabSound(tab[t])'
  BY <1>1, <1>2, RestingSound
<1>4. Extends
  BY <1>1 DEF Extends
<1> QED
  BY <1>1, <1>3, <1>4, StepSound DEF Types, TypeOK

(* The cookies of the handlers' replies. *)
LEMMA HeadersMade ==
  ASSUME NEW b, NEW k \in Logins, NEW s, NEW back
  PROVE  /\ HeadersSound(b, NoChange)'
         /\ HeadersSound(b, Unbind)'
         /\ HeadersSound(b, [c \in {"session"} |-> NoSecret])'
         /\ s \in Begun(b, "transaction")' => HeadersSound(b, [c \in {"transaction"} |-> s])'
         /\ s \in Begun(b, "passkey")' /\ origin'[s].back = back
              => HeadersSound(b, PasskeyCookies(s, back))'
         /\ s \in Begun(b, "state")' /\ origin'[s].back = back
              => HeadersSound(b, LoginCookies(s, back))'
         /\ s \in Begun(b, "session")' /\ Begun(b, k)' # {} => HeadersSound(b, LoggedIn(s, k))'
<1>1. HeadersSound(b, NoChange)'
  BY DEF HeadersSound, NoChange
<1>2. HeadersSound(b, Unbind)'
  BY DEF HeadersSound, Unbind, Logins
<1>3. HeadersSound(b, [c \in {"session"} |-> NoSecret])'
  BY DEF HeadersSound, Logins
<1>4. s \in Begun(b, "transaction")' => HeadersSound(b, [c \in {"transaction"} |-> s])'
  BY DEF HeadersSound, Logins
<1>5. s \in Begun(b, "passkey")' /\ origin'[s].back = back
        => HeadersSound(b, PasskeyCookies(s, back))'
  BY DEF HeadersSound, Logins, Kinds, PasskeyCookies
<1>6. s \in Begun(b, "state")' /\ origin'[s].back = back => HeadersSound(b, LoginCookies(s, back))'
  BY DEF HeadersSound, Logins, Kinds, LoginCookies
<1>7. s \in Begun(b, "session")' /\ Begun(b, k)' # {} => HeadersSound(b, LoggedIn(s, k))'
  BY DEF HeadersSound, Logins, Kinds, LoggedIn
<1> QED
  BY <1>1, <1>2, <1>3, <1>4, <1>5, <1>6, <1>7

(* A reply to tab t of browser b, with what must be shown of it.           *)
LEMMA AnswerSound ==
  ASSUME Types, Sound, Extends, NEW t \in Tabs,
         NEW b \in Browsers, b = tab[t].browser,
         NEW url \in Places, NEW headers \in Headers, NEW next \in Places,
         Answer(t, url, headers, next),
         origin' \in Seq([kind: Kinds, browser: Browsers, back: Returns]),
         Len(origin') <= MaxSecrets,
         spent' \subseteq Secrets,
         HeadersSound(b, headers)',
         url.at \in {"callback", "verify", "resume"} /\ next.at # "error"
           => url.arg \in DOMAIN origin' /\ origin'[url.arg].browser = b,
         next.at = "client" => next.arg \in DOMAIN origin' /\ origin'[next.arg].browser = b,
         url.at = "callback" /\ Begun(b, "passkey")' = {}
           => (IF next.at = "resume" THEN next.arg ELSE NoSecret) = origin'[url.arg].back,
         url.at = "verify" /\ Begun(b, "state")' = {}
           => (IF next.at = "resume" THEN next.arg ELSE NoSecret) = origin'[url.arg].back
  PROVE  Types' /\ Sound'
<1>1. /\ jar' = jar
      /\ tab' \in [Tabs -> [browser: Browsers, waiting: BOOLEAN, place: Places,
                            headers: Headers, next: Places]]
      /\ tab'[t] = [browser |-> b, waiting |-> TRUE, place |-> url,
                    headers |-> headers, next |-> next]
      /\ \A u \in Tabs : u # t => tab'[u] = tab[u]
  BY AnswerTyped DEF Types
<1>2. /\ tab'[t].browser = b /\ tab'[t].headers = headers
      /\ tab'[t].place = url /\ tab'[t].next = next
  BY <1>1
<1>3. BoundHere(tab[t])'
  BY <1>2 DEF BoundHere, Took
<1>4. ReturnsRight(tab[t])'
  BY <1>2 DEF ReturnsRight, Took
<1>5. HeadersSound(tab[t].browser, tab[t].headers)'
  BY <1>2
<1>6. Sound'
  BY <1>1, <1>3, <1>4, <1>5, StepSound DEF TabSound
<1>7. Types'
  BY <1>1 DEF Types, TypeOK, Kinds
<1> QED
  BY <1>6, <1>7

LEMMA ReturnIs ==
  ASSUME NEW back \in Returns
  PROVE  /\ Return(back).at \in {"app", "resume"}
         /\ (IF Return(back).at = "resume" THEN Return(back).arg ELSE NoSecret) = back
  BY DEF Return, Place

LEMMA Unextended == ASSUME origin' = origin PROVE Extends
  BY DEF Extends

(* A secret that tab t was handed out now. *)
LEMMA HandedOut ==
  ASSUME Types, NEW t \in Tabs, NEW b \in Browsers, b = tab[t].browser, NEW kind \in Kinds,
         NEW back \in Returns, HandOut(t, kind, back), NEW s, s = Newest
  PROVE  /\ Extends
         /\ s \in Begun(b, kind)' /\ origin'[s].back = back
         /\ s \in Returns
         /\ origin' \in Seq([kind: Kinds, browser: Browsers, back: Returns])
         /\ Len(origin') <= MaxSecrets
<1>1. /\ origin' \in Seq([kind: Kinds, browser: Browsers, back: Returns])
      /\ s \in Returns
      /\ s \in DOMAIN origin'
      /\ origin'[s] = [kind |-> kind, browser |-> b, back |-> back]
      /\ Len(origin') <= MaxSecrets
      /\ \A q \in DOMAIN origin : q \in DOMAIN origin' /\ origin'[q] = origin[q]
  BY HandOutTyped
<1>2. Extends
  BY <1>1 DEF Extends
<1>3. s \in Begun(b, kind)' /\ origin'[s].back = back
  BY <1>1 DEF Begun, Known
<1> QED
  BY <1>1, <1>2, <1>3

LEMMA CookieIs ==
  ASSUME Types, Sound, NEW t \in Tabs, NEW k \in Kinds, Cookie(t, k) # NoSecret
  PROVE  /\ Cookie(t, k) \in Begun(tab[t].browser, k)
         /\ Cookie(t, k) \in DOMAIN origin /\ origin[Cookie(t, k)].browser = tab[t].browser
<1>1. tab[t].browser \in Browsers
  BY DEF Types, TypeOK
<1> QED
  BY <1>1 DEF Sound, CookiesHere, Cookie, Begun, Known
-----------------------------------------------------------------------------
(***************************************************************************)
(* The handlers                                                            *)
(***************************************************************************)
LEMMA AuthorizeSound ==
  ASSUME Types, Sound, NEW t \in Tabs, Authorize(t)
  PROVE  Types' /\ Sound'
<1> DEFINE url == Place("authorize", NoSecret)
<1>1. PICK b \in Browsers : b = tab[t].browser
  BY DEF Types, TypeOK
<1>2. url \in Places /\ url.at = "authorize" /\ NoSecret \in Returns
  BY DEF Place, Places, Returns
<1>3. PICK k \in Logins : TRUE
  BY DEF Logins
<1> HIDE DEF url
<1>4. CASE /\ SignedIn(t)
           /\ Answer(t, url, NoChange, Place("client", Cookie(t, "session")))
           /\ UNCHANGED <<origin, spent>>
  <2>1. PICK c : c = Cookie(t, "session")
    OBVIOUS
  <2>2. c \in Returns /\ c \in DOMAIN origin /\ origin[c].browser = b
    <3>1. c # NoSecret
      BY <1>4, <2>1 DEF SignedIn
    <3> QED
      BY <1>1, <2>1, <3>1, CookieIs, CookieTyped DEF Kinds, Cookies, Types
  <2>3. PICK next \in Places : next = Place("client", c)
    BY <2>2, PlaceTyped
  <2>4. next.at = "client" /\ next.arg = c
    BY <2>3 DEF Place
  <2>5. NoChange \in Headers /\ HeadersSound(b, NoChange)'
    BY <1>2, <1>3, HeadersTyped, HeadersMade DEF Logins
  <2>6. Answer(t, url, NoChange, next)
    BY <1>4, <2>1, <2>3
  <2>7. /\ Extends /\ origin' = origin /\ spent' = spent /\ Len(origin) <= MaxSecrets
        /\ origin \in Seq([kind: Kinds, browser: Browsers, back: Returns])
        /\ spent \subseteq Secrets
    BY <1>4, Unextended DEF Types, TypeOK, Kinds
  <2> QED
    BY <1>1, <1>2, <2>2, <2>4, <2>5, <2>6, <2>7, AnswerSound
<1>5. CASE /\ HandOut(t, "transaction", NoSecret)
           /\ Answer(t, url, [c \in {"transaction"} |-> Newest], Place("page", Newest))
           /\ UNCHANGED spent
  <2>1. PICK s : s = Newest
    OBVIOUS
  <2>2. /\ Extends /\ s \in Begun(b, "transaction")' /\ s \in Returns
        /\ origin' \in Seq([kind: Kinds, browser: Browsers, back: Returns])
        /\ Len(origin') <= MaxSecrets
    <3>1. "transaction" \in Kinds /\ HandOut(t, "transaction", NoSecret)
      BY <1>5 DEF Kinds
    <3> QED
      BY <1>1, <1>2, <2>1, <3>1, HandedOut
  <2>3. PICK next \in Places : next = Place("page", s)
    BY <2>2, PlaceTyped
  <2>4. next.at = "page"
    BY <2>3 DEF Place
  <2>5. PICK h : h = [c \in {"transaction"} |-> s]
    OBVIOUS
  <2>6. h \in Headers /\ HeadersSound(b, h)'
    BY <1>2, <1>3, <2>2, <2>5, HeadersTyped, HeadersMade DEF Logins
  <2>7. Answer(t, url, h, next)
    BY <1>5, <2>1, <2>3, <2>5
  <2>8. spent' \subseteq Secrets
    BY <1>5 DEF Types, TypeOK
  <2> QED
    BY <1>1, <1>2, <2>2, <2>4, <2>6, <2>7, <2>8, AnswerSound
<1> QED
  BY <1>4, <1>5 DEF Authorize, url

LEMMA LoginPageSound ==
  ASSUME Types, Sound, NEW t \in Tabs, NEW back \in Returns, LoginPage(t, back)
  PROVE  Types' /\ Sound'
<1>1. Place("login", back) \in Places /\ Return(back) \in Places
  BY PlaceTyped, ReturnTyped
<1> QED
  BY <1>1, ShowSound DEF LoginPage

LEMMA RefuseSound ==
  ASSUME Types, Sound, NEW t \in Tabs, Refuse(t)
  PROVE  Types' /\ Sound'
<1>1. Place("app", NoSecret) \in Places
  BY PlaceTyped DEF Returns
<1> QED
  BY <1>1, ShowSound DEF Refuse

LEMMA LoginSound ==
  ASSUME Types, Sound, NEW t \in Tabs, NEW back \in Returns, Login(t, back)
  PROVE  Types' /\ Sound'
<1>1. PICK b \in Browsers : b = tab[t].browser
  BY DEF Types, TypeOK
<1>2. PICK url \in Places : url = Place("begin", back)
  BY PlaceTyped
<1>3. url.at = "begin"
  BY <1>2 DEF Place
<1>4. PICK s : s = Newest
  OBVIOUS
<1>5. /\ Extends /\ s \in Begun(b, "state")' /\ origin'[s].back = back /\ s \in Returns
      /\ origin' \in Seq([kind: Kinds, browser: Browsers, back: Returns])
      /\ Len(origin') <= MaxSecrets
  BY <1>1, <1>4, HandedOut DEF Kinds, Login
<1>6. PICK next \in Places : next = Place("callback", s)
  BY <1>5, PlaceTyped
<1>7. next.at = "callback"
  BY <1>6 DEF Place
<1>8. PICK h : h = LoginCookies(s, back)
  OBVIOUS
<1>9. h \in Headers /\ HeadersSound(b, h)'
  BY <1>5, <1>8, HeadersTyped, HeadersMade DEF Logins
<1>10. Answer(t, url, h, next) /\ spent' \subseteq Secrets
  BY <1>2, <1>4, <1>6, <1>8 DEF Login, Types, TypeOK
<1> QED
  BY <1>1, <1>3, <1>5, <1>7, <1>9, <1>10, AnswerSound

LEMMA PasskeyOptionsSound ==
  ASSUME Types, Sound, NEW t \in Tabs, NEW back \in Returns, PasskeyOptions(t, back)
  PROVE  Types' /\ Sound'
<1>1. PICK b \in Browsers : b = tab[t].browser
  BY DEF Types, TypeOK
<1>2. PICK url \in Places : url = Place("options", back)
  BY PlaceTyped
<1>3. url.at = "options"
  BY <1>2 DEF Place
<1>4. PICK s : s = Newest
  OBVIOUS
<1>5. /\ Extends /\ s \in Begun(b, "passkey")' /\ origin'[s].back = back /\ s \in Returns
      /\ origin' \in Seq([kind: Kinds, browser: Browsers, back: Returns])
      /\ Len(origin') <= MaxSecrets
  BY <1>1, <1>4, HandedOut DEF Kinds, PasskeyOptions
<1>6. PICK next \in Places : next = Place("authenticator", s)
  BY <1>5, PlaceTyped
<1>7. next.at = "authenticator"
  BY <1>6 DEF Place
<1>8. PICK h : h = PasskeyCookies(s, back)
  OBVIOUS
<1>9. h \in Headers /\ HeadersSound(b, h)'
  BY <1>5, <1>8, HeadersTyped, HeadersMade DEF Logins
<1>10. Answer(t, url, h, next) /\ spent' \subseteq Secrets
  BY <1>2, <1>4, <1>6, <1>8 DEF PasskeyOptions, Types, TypeOK
<1> QED
  BY <1>1, <1>3, <1>5, <1>7, <1>9, <1>10, AnswerSound

(* What a login that can be completed knows of its browser. *)
LEMMA PairedIs ==
  ASSUME Types, Sound, Extends, NEW t \in Tabs, NEW k \in Logins, NEW b \in Browsers,
         b = tab[t].browser, NEW s \in DOMAIN origin, Cookie(t, k) = s
  PROVE  /\ s \in Begun(b, k)' /\ s \in DOMAIN origin' /\ origin'[s].browser = b
         /\ Begun(b, Other(k))' = {} => Cookie(t, "redirect") = origin'[s].back
<1>1. k \in Kinds /\ Other(k) \in Kinds
  BY DEF Logins, Kinds, Other
<1>2. s # NoSecret
  BY KnownTyped
<1>3. s \in Begun(b, k)
  BY <1>1, <1>2, CookieIs
<1>4. s \in Begun(b, k)' /\ origin'[s] = origin[s] /\ origin[s].browser = b
  BY <1>1, <1>3, BegunOrigin
<1>5. ASSUME Begun(b, Other(k))' = {} PROVE Cookie(t, "redirect") = origin[s].back
  <2>1. Begun(b, Other(k)) = {}
    BY <1>1, <1>5, BegunGrows
  <2> QED
    BY <1>2, <2>1 DEF Sound, CookiesPaired, Cookie
<1> QED
  BY <1>4, <1>5 DEF Extends

LEMMA CallbackSound ==
  ASSUME Types, Sound, NEW t \in Tabs, NEW state \in DOMAIN origin, Callback(t, state)
  PROVE  Types' /\ Sound'
<1>1. PICK b \in Browsers : b = tab[t].browser
  BY DEF Types, TypeOK
<1>2. PICK url : url = Place("callback", state)
  OBVIOUS
<1>3. url \in Places /\ url.at = "callback" /\ url.arg = state
  BY <1>2, KnownTyped, PlaceTyped
<1>4. SUFFICES ASSUME /\ ValidState(t, state)
                      /\ HandOut(t, "session", NoSecret)
                      /\ Answer(t, url, LoggedIn(Newest, "state"),
                                Return(Cookie(t, "redirect")))
                      /\ UNCHANGED spent
               PROVE  Types' /\ Sound'
  BY <1>2, RefuseSound DEF Callback
<1>5. PICK s : s = Newest
  OBVIOUS
<1>6. /\ Extends /\ s \in Begun(b, "session")' /\ s \in Returns
      /\ origin' \in Seq([kind: Kinds, browser: Browsers, back: Returns])
      /\ Len(origin') <= MaxSecrets
  BY <1>1, <1>4, <1>5, HandedOut DEF Kinds, Returns
<1>7. /\ state \in Begun(b, "state")' /\ state \in DOMAIN origin' /\ origin'[state].browser = b
      /\ Begun(b, "passkey")' = {} => Cookie(t, "redirect") = origin'[state].back
  <2>1. "state" \in Logins /\ Other("state") = "passkey" /\ Cookie(t, "state") = state
    BY <1>4 DEF Logins, Other, ValidState
  <2> QED
    BY <1>1, <1>6, <2>1, PairedIs
<1>8. PICK r \in Returns : r = Cookie(t, "redirect")
  BY CookieTyped DEF Cookies, Types
<1>9. PICK next \in Places : next = Return(r)
  BY ReturnTyped
<1>10. /\ next.at \in {"app", "resume"}
       /\ (IF next.at = "resume" THEN next.arg ELSE NoSecret) = r
  BY <1>9, ReturnIs
<1>11. PICK h : h = LoggedIn(s, "state")
  OBVIOUS
<1>12. h \in Headers /\ HeadersSound(b, h)'
  BY <1>6, <1>7, <1>8, <1>11, HeadersTyped, HeadersMade DEF Logins
<1>13. Answer(t, url, h, next) /\ spent' \subseteq Secrets
  BY <1>4, <1>5, <1>8, <1>9, <1>11 DEF Types, TypeOK
<1> QED
  BY <1>1, <1>3, <1>6, <1>7, <1>8, <1>10, <1>12, <1>13, AnswerSound

LEMMA PasskeyVerifySound ==
  ASSUME Types, Sound, NEW t \in Tabs, NEW challenge \in DOMAIN origin,
         PasskeyVerify(t, challenge)
  PROVE  Types' /\ Sound'
<1>1. PICK b \in Browsers : b = tab[t].browser
  BY DEF Types, TypeOK
<1>2. PICK url : url = Place("verify", challenge)
  OBVIOUS
<1>3. url \in Places /\ url.at = "verify" /\ url.arg = challenge /\ challenge \in Secrets
  BY <1>2, KnownTyped, PlaceTyped
<1>4. SUFFICES ASSUME /\ Cookie(t, "passkey") = challenge
                      /\ spent' = spent \cup {challenge}
                      /\ HandOut(t, "session", NoSecret)
                      /\ Answer(t, url, LoggedIn(Newest, "passkey"),
                                Return(Cookie(t, "redirect")))
               PROVE  Types' /\ Sound'
  BY <1>2, RefuseSound DEF PasskeyVerify
<1>5. PICK s : s = Newest
  OBVIOUS
<1>6. /\ Extends /\ s \in Begun(b, "session")' /\ s \in Returns
      /\ origin' \in Seq([kind: Kinds, browser: Browsers, back: Returns])
      /\ Len(origin') <= MaxSecrets
  BY <1>1, <1>4, <1>5, HandedOut DEF Kinds, Returns
<1>7. /\ challenge \in Begun(b, "passkey")' /\ challenge \in DOMAIN origin'
      /\ origin'[challenge].browser = b
      /\ Begun(b, "state")' = {} => Cookie(t, "redirect") = origin'[challenge].back
  <2>1. "passkey" \in Logins /\ Other("passkey") = "state"
    BY DEF Logins, Other
  <2> QED
    BY <1>1, <1>4, <1>6, <2>1, PairedIs
<1>8. PICK r \in Returns : r = Cookie(t, "redirect")
  BY CookieTyped DEF Cookies, Types
<1>9. PICK next \in Places : next = Return(r)
  BY ReturnTyped
<1>10. /\ next.at \in {"app", "resume"}
       /\ (IF next.at = "resume" THEN next.arg ELSE NoSecret) = r
  BY <1>9, ReturnIs
<1>11. PICK h : h = LoggedIn(s, "passkey")
  OBVIOUS
<1>12. h \in Headers /\ HeadersSound(b, h)'
  <2>1. "passkey" \in Logins
    BY DEF Logins
  <2> QED
    BY <1>6, <1>7, <1>8, <1>11, <2>1, HeadersTyped, HeadersMade
<1>13. Answer(t, url, h, next) /\ spent' \subseteq Secrets
  BY <1>3, <1>4, <1>5, <1>8, <1>9, <1>11 DEF Types, TypeOK
<1> QED
  BY <1>1, <1>3, <1>6, <1>7, <1>8, <1>10, <1>12, <1>13, AnswerSound

LEMMA ResumeAuthorizationSound ==
  ASSUME Types, Sound, NEW t \in Tabs, NEW transaction \in DOMAIN origin,
         ResumeAuthorization(t, transaction)
  PROVE  Types' /\ Sound'
<1>1. PICK b \in Browsers : b = tab[t].browser
  BY DEF Types, TypeOK
<1>2. PICK url : url = Place("resume", transaction)
  OBVIOUS
<1>3. /\ url \in Places /\ url.at = "resume" /\ url.arg = transaction
      /\ transaction \in Secrets /\ NoSecret \in Returns
  BY <1>2, KnownTyped, PlaceTyped DEF Returns
<1>4. PICK k \in Logins : TRUE
  BY DEF Logins
<1>5. Unbind \in Headers /\ HeadersSound(b, Unbind)'
  BY <1>3, <1>4, HeadersTyped, HeadersMade DEF Logins
<1>6. ASSUME origin' = origin
      PROVE  /\ Extends /\ Len(origin') <= MaxSecrets
             /\ origin' \in Seq([kind: Kinds, browser: Browsers, back: Returns])
  BY <1>6, Unextended DEF Types, TypeOK, Kinds
<1>7. CASE Refuse(t)
  BY <1>7, RefuseSound
<1>8. CASE /\ Answer(t, url, Unbind, Place("error", NoSecret))
           /\ UNCHANGED <<origin, spent>>
  <2>1. PICK next \in Places : next = Place("error", NoSecret)
    BY <1>3, PlaceTyped
  <2>2. next.at = "error"
    BY <2>1 DEF Place
  <2>3. Answer(t, url, Unbind, next) /\ spent' \subseteq Secrets /\ origin' = origin
    BY <1>8, <2>1 DEF Types, TypeOK
  <2> QED
    BY <1>1, <1>3, <1>5, <1>6, <2>2, <2>3, AnswerSound
<1>9. CASE /\ SignedIn(t)
           /\ Bound(t, transaction)
           /\ spent' = spent \cup {transaction}
           /\ Answer(t, url, Unbind, Place("client", Cookie(t, "session")))
           /\ UNCHANGED origin
  <2>1. PICK c : c = Cookie(t, "session")
    OBVIOUS
  <2>2. c \in Returns /\ c \in DOMAIN origin /\ origin[c].browser = b
    <3>1. c # NoSecret
      BY <1>9, <2>1 DEF SignedIn
    <3> QED
      BY <1>1, <2>1, <3>1, CookieIs, CookieTyped DEF Kinds, Cookies, Types
  <2>3. PICK next \in Places : next = Place("client", c)
    BY <2>2, PlaceTyped
  <2>4. next.at = "client" /\ next.arg = c
    BY <2>3 DEF Place
  <2>5. origin[transaction].browser = b
    <3>1. transaction # NoSecret /\ Cookie(t, "transaction") = transaction
      BY <1>9, KnownTyped DEF Bound
    <3> QED
      BY <1>1, <3>1, CookieIs DEF Kinds
  <2>6. Answer(t, url, Unbind, next) /\ spent' \subseteq Secrets /\ origin' = origin
    BY <1>3, <1>9, <2>1, <2>3 DEF Types, TypeOK
  <2> QED
    BY <1>1, <1>3, <1>5, <1>6, <2>2, <2>4, <2>5, <2>6, AnswerSound
<1> QED
  BY <1>2, <1>7, <1>8, <1>9 DEF ResumeAuthorization

LEMMA LogoutSound ==
  ASSUME Types, Sound, NEW t \in Tabs, Logout(t)
  PROVE  Types' /\ Sound'
<1>1. PICK b \in Browsers : b = tab[t].browser
  BY DEF Types, TypeOK
<1>2. PICK url : url = Place("logout", NoSecret)
  OBVIOUS
<1>3. PICK next : next = Place("page", NoSecret)
  OBVIOUS
<1>4. /\ url \in Places /\ url.at = "logout" /\ next \in Places /\ next.at = "page"
      /\ NoSecret \in Returns
  BY <1>2, <1>3 DEF Place, Places, Returns
<1>5. PICK h : h = [c \in {"session"} |-> NoSecret]
  OBVIOUS
<1>6. PICK k \in Logins : TRUE
  BY DEF Logins
<1>7. h \in Headers /\ HeadersSound(b, h)'
  BY <1>4, <1>5, <1>6, HeadersTyped, HeadersMade DEF Logins
<1>8. Answer(t, url, h, next) /\ origin' = origin
  BY <1>2, <1>3, <1>5 DEF Logout
<1>9. spent' \subseteq Secrets
  <2>1. Cookie(t, "session") \in Returns
    BY CookieTyped DEF Cookies, Types
  <2> QED
    BY <2>1 DEF Logout, Types, TypeOK, Returns
<1>10. /\ Extends /\ Len(origin') <= MaxSecrets
       /\ origin' \in Seq([kind: Kinds, browser: Browsers, back: Returns])
  BY <1>8, Unextended DEF Types, TypeOK, Kinds
<1> QED
  BY <1>1, <1>4, <1>7, <1>8, <1>9, <1>10, AnswerSound
-----------------------------------------------------------------------------
(***************************************************************************)
(* The browser's own steps                                                 *)
(***************************************************************************)
LEMMA RestingTabs ==
  ASSUME Types, NEW t \in Tabs, NEW place \in Places,
         tab' = [tab EXCEPT ![t] = Resting(@.browser, place)]
  PROVE  /\ tab' \in [Tabs -> [browser: Browsers, waiting: BOOLEAN, place: Places,
                               headers: Headers, next: Places]]
         /\ tab'[t] = Resting(tab[t].browser, place)
         /\ \A u \in Tabs : u # t => tab'[u] = tab[u]
<1>1. tab[t].browser \in Browsers
  BY DEF Types, TypeOK
<1>2. Resting(tab[t].browser, place) \in [browser: Browsers, waiting: BOOLEAN, place: Places,
                                          headers: Headers, next: Places]
  BY <1>1, RestingTyped
<1> QED
  BY <1>2 DEF Types, TypeOK

LEMMA TabsSound ==
  ASSUME Types, Sound, Extends, NEW t \in Tabs, NEW place, NEW b,
         tab'[t] = Resting(b, place),
         \A u \in Tabs : u # t => tab'[u] = tab[u]
  PROVE  \A u \in Tabs : TabSound(tab[u])'
<1> SUFFICES ASSUME NEW u \in Tabs PROVE TabSound(tab[u])'
  OBVIOUS
<1>1. CASE u = t
  BY <1>1, RestingSound
<1>2. CASE u # t
  BY <1>2, TabKept DEF Sound
<1> QED
  BY <1>1, <1>2

LEMMA BreakSound ==
  ASSUME Types, Sound, NEW t \in Tabs, Break(t)
  PROVE  Types' /\ Sound'
<1>1. Place("app", NoSecret) \in Places
  BY PlaceTyped DEF Returns
<1>2. Show(t, Place("app", NoSecret))
  BY DEF Break, Show
<1> QED
  BY <1>1, <1>2, ShowSound

LEMMA DeliverSound ==
  ASSUME Types, Sound, NEW t \in Tabs, Deliver(t)
  PROVE  Types' /\ Sound'
<1>1. PICK b \in Browsers : b = tab[t].browser
  BY DEF Types, TypeOK
<1>2. PICK h \in Headers : h = tab[t].headers
  BY DEF Types, TypeOK
<1>3. PICK place \in Places : place = Shown(tab[t].next)
  <2>1. tab[t].next \in Places
    BY DEF Types, TypeOK
  <2>2. Place("app", NoSecret) \in Places
    BY PlaceTyped DEF Returns
  <2> QED
    BY <2>1, <2>2 DEF Shown
<1>4. /\ tab' \in [Tabs -> [browser: Browsers, waiting: BOOLEAN, place: Places,
                            headers: Headers, next: Places]]
      /\ tab'[t] = Resting(b, place)
      /\ \A u \in Tabs : u # t => tab'[u] = tab[u]
  BY <1>1, <1>3, RestingTabs DEF Deliver
<1>5. origin' = origin /\ spent' = spent /\ Extends
  BY Unextended DEF Deliver
<1>6. /\ \A c \in Cookies : jar'[b][c] = IF c \in DOMAIN h THEN h[c] ELSE jar[b][c]
      /\ \A a \in Browsers : a # b => jar'[a] = jar[a]
      /\ jar' \in [Browsers -> Jars]
  <2>1. PICK new : new = [c \in Cookies |-> IF c \in DOMAIN h THEN h[c] ELSE jar[b][c]]
    OBVIOUS
  <2>2. jar' = [jar EXCEPT ![b] = new]
    BY <1>1, <1>2, <2>1 DEF Deliver
  <2>3. new \in Jars
    <3>1. \A c \in DOMAIN h : h[c] \in Returns
      BY <1>2 DEF Headers
    <3>2. \A c \in Cookies : jar[b][c] \in Returns
      BY DEF Types, TypeOK, Jars
    <3> QED
      BY <2>1, <3>1, <3>2 DEF Jars
  <2> QED
    BY <2>1, <2>2, <2>3 DEF Types, TypeOK
<1>7. HeadersSound(b, h) /\ CookiesHere(b) /\ CookiesPaired(b)
  BY <1>1, <1>2 DEF Sound, TabSound
<1>8. CookiesHere(b)'
  <2>1. \A k \in Kinds : k \in Cookies /\ Begun(b, k)' = Begun(b, k)
    BY <1>5 DEF Kinds, Cookies, Begun, Known
  <2> QED
    BY <1>6, <1>7, <2>1 DEF CookiesHere, HeadersSound
<1>9. CookiesPaired(b)'
  <2> SUFFICES ASSUME NEW k \in Logins, Begun(b, Other(k)) = {}, jar'[b][k] # NoSecret
               PROVE  jar'[b]["redirect"] = origin[jar'[b][k]].back
    BY <1>5 DEF CookiesPaired, Begun, Known
  <2>1. k \in Cookies /\ "redirect" \in Cookies /\ Logins = {k, Other(k)}
    BY DEF Logins, Cookies, Other
  <2>2. Other(k) \notin DOMAIN h
    BY <1>7, <2>1 DEF HeadersSound
  <2>3. CASE k \in DOMAIN h
    BY <1>6, <1>7, <2>1, <2>3 DEF HeadersSound
  <2>4. CASE k \notin DOMAIN h
    <3>1. "redirect" \notin DOMAIN h
      BY <1>7, <2>1, <2>2, <2>4 DEF HeadersSound
    <3>2. jar'[b][k] = jar[b][k] /\ jar'[b]["redirect"] = jar[b]["redirect"]
      BY <1>6, <2>1, <2>4, <3>1
    <3> QED
      BY <1>7, <3>2 DEF CookiesPaired
  <2> QED
    BY <2>3, <2>4
<1>10. \A a \in Browsers : CookiesHere(a)' /\ CookiesPaired(a)'
  BY <1>5, <1>6, <1>8, <1>9, JarKept DEF Sound
<1>11. \A u \in Tabs : TabSound(tab[u])'
  BY <1>4, <1>5, TabsSound
<1> QED
  BY <1>4, <1>5, <1>6, <1>10, <1>11 DEF Sound, Types, TypeOK

LEMMA StateExpiresSound ==
  ASSUME Types, Sound, NEW b \in Browsers, StateExpires(b)
  PROVE  Types' /\ Sound'
<1>1. origin' = origin /\ spent' = spent /\ tab' = tab /\ Extends
  BY Unextended DEF StateExpires
<1>2. jar[b] \in Jars /\ NoSecret \in Returns
  BY DEF Types, TypeOK, Returns
<1>3. jar' = [jar EXCEPT ![b] = [jar[b] EXCEPT !["state"] = NoSecret]]
  BY DEF StateExpires
<1>4. /\ jar' \in [Browsers -> Jars]
      /\ \A a \in Browsers : a # b => jar'[a] = jar[a]
      /\ jar'[b]["state"] = NoSecret
      /\ \A c \in Cookies : c # "state" => jar'[b][c] = jar[b][c]
  <2>1. [jar[b] EXCEPT !["state"] = NoSecret] \in Jars
    BY <1>2 DEF Jars
  <2> QED
    BY <1>2, <1>3, <2>1 DEF Types, TypeOK, Jars, Cookies
<1>5. CookiesHere(b)'
  BY <1>1, <1>4 DEF Sound, CookiesHere, Kinds, Cookies, Begun, Known
<1>6. CookiesPaired(b)'
  BY <1>1, <1>4 DEF Sound, CookiesPaired, Logins, Other, Cookies, Begun, Known
<1>7. \A a \in Browsers : CookiesHere(a)' /\ CookiesPaired(a)'
  BY <1>1, <1>4, <1>5, <1>6, JarKept DEF Sound
<1>8. \A u \in Tabs : TabSound(tab[u])'
  BY <1>1, TabKept DEF Sound
<1> QED
  BY <1>1, <1>4, <1>7, <1>8 DEF Sound, Types, TypeOK
-----------------------------------------------------------------------------
(***************************************************************************)
(* The theorems                                                            *)
(***************************************************************************)
LEMMA SoundInit == Init => Types /\ Sound
<1> SUFFICES ASSUME Init PROVE Types /\ Sound
  OBVIOUS
<1>1. NoSecret \in Returns /\ Place("app", NoSecret) \in Places
  BY PlaceTyped DEF Returns
<1>2. PICK opened \in [Tabs -> Browsers] :
        tab = [t \in Tabs |-> Resting(opened[t], Place("app", NoSecret))]
  BY DEF Init
<1>3. \A t \in Tabs : Resting(opened[t], Place("app", NoSecret))
        \in [browser: Browsers, waiting: BOOLEAN, place: Places, headers: Headers, next: Places]
  BY <1>1, RestingTyped
<1>4. NoCookies \in Jars /\ \A c \in Cookies : NoCookies[c] = NoSecret
  BY <1>1 DEF NoCookies, Jars
<1>5. Types
  BY <1>2, <1>3, <1>4, SecretsAssumption DEF Init, Types, TypeOK
<1>6. \A b \in Browsers : CookiesHere(b) /\ CookiesPaired(b)
  BY <1>4 DEF Init, CookiesHere, CookiesPaired, Kinds, Logins, Cookies
<1>7. ASSUME NEW t \in Tabs PROVE TabSound(tab[t])
  <2>1. tab[t].headers = NoChange /\ ~tab[t].waiting /\ tab[t].next.at = "app"
    BY <1>2 DEF Resting, Place
  <2>2. DOMAIN NoChange = {}
    BY DEF NoChange
  <2> QED
    BY <2>1, <2>2 DEF TabSound, HeadersSound, BoundHere, ReturnsRight, Took
<1> QED
  BY <1>5, <1>6, <1>7 DEF Sound

LEMMA SoundNext == Types /\ Sound /\ [Next]_vars => Types' /\ Sound'
<1> SUFFICES ASSUME Types, Sound, [Next]_vars PROVE Types' /\ Sound'
  OBVIOUS
<1>1. CASE \E t \in Tabs : Serve(t)
  <2>1. PICK t \in Tabs : Serve(t)
    BY <1>1
  <2>2. CASE Authorize(t) \/ Logout(t)
    BY <2>2, AuthorizeSound, LogoutSound
  <2>3. CASE \E back \in Returns : LoginPage(t, back) \/ Login(t, back) \/ PasskeyOptions(t, back)
    BY <2>3, LoginPageSound, LoginSound, PasskeyOptionsSound
  <2>4. CASE \E s \in DOMAIN origin :
               Callback(t, s) \/ PasskeyVerify(t, s) \/ ResumeAuthorization(t, s)
    BY <2>4, CallbackSound, PasskeyVerifySound, ResumeAuthorizationSound
  <2> QED
    BY <2>1, <2>2, <2>3, <2>4 DEF Serve
<1>2. CASE \E t \in Tabs : Deliver(t) \/ Break(t)
  BY <1>2, DeliverSound, BreakSound
<1>3. CASE \E b \in Browsers : StateExpires(b)
  BY <1>3, StateExpiresSound
<1>4. CASE UNCHANGED vars
  <2>1. jar' = jar /\ tab' = tab /\ origin' = origin /\ spent' = spent /\ Extends
    BY <1>4, Unextended DEF vars
  <2>2. \A b \in Browsers : CookiesHere(b)' /\ CookiesPaired(b)'
    BY <2>1, JarKept DEF Sound
  <2>3. \A t \in Tabs : TabSound(tab[t])'
    BY <2>1, TabKept DEF Sound
  <2> QED
    BY <2>1, <2>2, <2>3 DEF Sound, Types, TypeOK
<1> QED
  BY <1>1, <1>2, <1>3, <1>4 DEF Next

LEMMA SoundAlways == Spec => [](Types /\ Sound)
  BY SoundInit, SoundNext, PTL DEF Spec

(* Cookies, pages and the server's table stay within their types.          *)
THEOREM BrowserTyped == Spec => []TypeOK
<1>1. Types => TypeOK
  BY DEF Types
<1> QED
  BY <1>1, SoundAlways, PTL

(* Logins, ceremonies and authorizations are only completed in the browser *)
(* that began them, for any tabs, browsers and order of replies.           *)
THEOREM LoginsBoundToBrowser == Spec => []BoundToBrowser
<1>1. Sound => BoundToBrowser
  BY SoundImplies
<1> QED
  BY <1>1, SoundAlways, PTL

(* A login returns where it was asked to, as long as the browser began     *)
(* logins of one kind only.                                                *)
THEOREM LoginsReturnWhereAsked == Spec => []ReturnsWhereAsked
<1>1. Sound => ReturnsWhereAsked
  BY SoundImplies
<1> QED
  BY <1>1, SoundAlways, PTL
=============================================================================
