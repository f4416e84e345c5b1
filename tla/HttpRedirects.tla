--------------------------- MODULE HttpRedirects ---------------------------
(***************************************************************************)
(* HttpClientWrapper.request (http/client.py): one request after another,  *)
(* each following the redirects that the servers answer with, while the    *)
(* cookies of each origin are kept between requests.  A URL is its origin, *)
(* a header is there or not, a cookie is its name and who set it.          *)
(* External: the servers, which may answer anything or fail.               *)
(***************************************************************************)
EXTENDS Naturals

CONSTANTS Origins,       \* scheme, host and port
          Secure,        \* those whose scheme is https
          Names,         \* of cookies
          User,          \* owner of the cookies in the caller's own header
          MaxRedirects,  \* _MAX_REDIRECTS
          MaxRequests    \* bound: requests over the run

ASSUME RedirectsAssumption ==
  /\ Secure \subseteq Origins /\ User \notin Origins
  /\ MaxRedirects \in Nat /\ MaxRequests \in Nat

Methods == {"GET", "HEAD", "POST"}
Idle    == [method |-> "none"]

VARIABLES
  jar,        \* _cookies: the names that each origin has set
  asked,      \* what the caller asked for, Idle when no request is on
  at,         \* url
  sent,       \* method_u, body and req_headers, as they are sent to at
  redirects,
  visited,    \* history: the origins this request was sent to
  requests    \* requests so far

httpVars == <<jar, asked, at, sent, redirects, visited, requests>>

HttpInit ==
  /\ jar = [o \in Origins |-> {}] /\ requests = 0
  /\ asked = Idle /\ sent = Idle /\ at = User /\ redirects = 0 /\ visited = {}

\* _with_cookies: the header's cookies and the jar's, which win.
WithCookies(jars, origin, cookies) ==
  [n \in DOMAIN cookies \cup jars[origin] |->
     IF n \in jars[origin] THEN origin ELSE cookies[n]]

NoCookies == [n \in {} |-> User]

\* request is called; own is what the caller's cookie header names.
Request(origin, method, body, auth, framing, own) ==
  /\ asked = Idle /\ requests < MaxRequests /\ requests' = requests + 1
  /\ asked' = [method |-> method, body |-> body, first |-> origin]
  /\ sent' = [method |-> method, body |-> body, auth |-> auth, framing |-> framing,
              cookies |-> WithCookies(jar, origin, [n \in own |-> User])]
  /\ at' = origin /\ visited' = {origin} /\ redirects' = 0
  /\ UNCHANGED jar

\* _store_cookies
Stored(set) == [jar EXCEPT ![at] = @ \cup set]

\* request returns or raises.
End ==
  /\ asked' = Idle /\ sent' = Idle /\ at' = User /\ redirects' = 0 /\ visited' = {}
  /\ UNCHANGED requests

\* An answer that is returned: no redirect, or one too many.
Return(redirecting, set) ==
  /\ asked # Idle /\ (redirecting => redirects = MaxRedirects)
  /\ jar' = Stored(set)
  /\ End

\* _exchange raises.
ExchangeFails == asked # Idle /\ End /\ UNCHANGED jar

\* The redirect leads to something other than http, or from https to http.
Downgrades(next) == at \in Secure /\ next \notin Secure

Refuse(next, set) ==
  /\ asked # Idle /\ redirects < MaxRedirects
  /\ next \notin Origins \/ Downgrades(next)
  /\ jar' = Stored(set)
  /\ End

\* Mutant of Stays: home is where the request began.
StaysHome(next) == next = asked.first

\* current_origin == next_origin
Stays(next) == next = at

\* The cookies that are left when the request goes on.
CookiesKept(next) == IF Stays(next) THEN sent.cookies ELSE NoCookies

\* Mutant of Onward: 303 forgets the framing of the body it drops.
OnwardForgetful(toGet, next, jars) ==
  LET body == sent.body /\ ~toGet IN
  [method  |-> IF toGet THEN "GET" ELSE sent.method,
   body    |-> body /\ Stays(next),
   framing |-> sent.framing /\ ~(body /\ ~Stays(next)),
   auth    |-> sent.auth /\ Stays(next),
   cookies |-> WithCookies(jars, next, CookiesKept(next))]

\* What goes on to next: 301, 302 and 303 turn the request into a GET without
\* body (toGet), another origin takes the secrets and the body away.
Onward(toGet, next, jars) ==
  LET body == sent.body /\ ~toGet IN
  [method  |-> IF toGet THEN "GET" ELSE sent.method,
   body    |-> body /\ Stays(next),
   framing |-> sent.framing /\ ~toGet /\ ~(body /\ ~Stays(next)),
   auth    |-> sent.auth /\ Stays(next),
   cookies |-> WithCookies(jars, next, CookiesKept(next))]

\* A redirect is followed; see: the status is 301, 302 or 303.
Redirect(see, next, set) ==
  /\ asked # Idle /\ redirects < MaxRedirects /\ next \in Origins /\ ~Downgrades(next)
  /\ redirects' = redirects + 1
  /\ jar' = Stored(set)
  /\ sent' = Onward(see /\ sent.method \notin {"GET", "HEAD"}, next, jar')
  /\ at' = next /\ visited' = visited \cup {next}
  /\ UNCHANGED <<asked, requests>>

Call ==
  \E origin \in Origins, method \in Methods, own \in SUBSET Names :
    \E body, auth, framing \in BOOLEAN : Request(origin, method, body, auth, framing, own)

Answer ==
  \E set \in SUBSET Names, flag \in BOOLEAN :
    \/ Return(flag, set)
    \/ \E next \in Origins \cup {User} : Redirect(flag, next, set) \/ Refuse(next, set)

HttpNext == Call \/ Answer \/ ExchangeFails
-----------------------------------------------------------------------------
(* Properties *)

NeverLeft == visited = {asked.first}

\* Along any chain of redirects, out and back again, authorization goes to the
\* first origin only and not again once it was left, a cookie goes to the
\* origin that set it, or is the caller's own and goes where authorization
\* does, and what was once on https never goes over http.
SecretsStayHome ==
  asked # Idle =>
    /\ sent.auth => NeverLeft
    /\ \A n \in DOMAIN sent.cookies :
         sent.cookies[n] = at \/ (sent.cookies[n] = User /\ NeverLeft)
    /\ visited \cap Secure # {} => at \in Secure

\* A body goes to the first origin only, under the method it was given with,
\* and the headers that announce it go when it does, so that no server waits
\* for a body that never comes.
BodyStaysHome ==
  asked # Idle =>
    /\ sent.body => NeverLeft /\ sent.method = asked.method
    /\ sent.framing /\ asked.body => sent.body
    /\ sent.method # asked.method => ~sent.framing
=============================================================================
