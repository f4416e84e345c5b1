--------------------------- MODULE Session_proofs ---------------------------
(* The parts of a session, for any values of the constants: where secrets    *)
(* and bodies of HTTP requests go, which keys of servers connection setups   *)
(* go on with, what becomes of the connections in the cache, of transfers    *)
(* and of uploaded scripts, which silences listens record; and the types.    *)
EXTENDS Session, RemoteFiles_proofs, Deadlines_proofs, SequenceTheorems, TLAPS

\* The inductive invariant: a request that is on has its target and its first
\* origin among the origins it visited, and goes where it may.
HttpInv ==
  asked # Idle =>
    /\ at \in visited /\ asked.first \in visited
    /\ sent.body \in BOOLEAN /\ sent.framing \in BOOLEAN /\ sent.auth \in BOOLEAN
    /\ asked.body \in BOOLEAN
    /\ SecretsStayHome
    /\ BodyStaysHome

\* What goes on, field by field.
LEMMA OnwardFields ==
  ASSUME NEW toGet \in BOOLEAN, NEW next, NEW jars
  PROVE  LET on == Onward(toGet, next, jars) IN
         /\ on.method = IF toGet THEN "GET" ELSE sent.method
         /\ on.body = ((sent.body /\ ~toGet) /\ next = at)
         /\ on.framing = (sent.framing /\ ~toGet /\ ~((sent.body /\ ~toGet) /\ ~(next = at)))
         /\ on.auth = (sent.auth /\ next = at)
         /\ on.cookies = WithCookies(jars, next, CookiesKept(next))
  BY DEF Onward, Stays

\* A cookie that goes somewhere is from the jar of that place, or was in the
\* header before.
LEMMA CookiesOf ==
  ASSUME NEW jars, NEW origin, NEW cookies, NEW n \in DOMAIN WithCookies(jars, origin, cookies)
  PROVE  \/ WithCookies(jars, origin, cookies)[n] = origin
         \/ n \in DOMAIN cookies /\ WithCookies(jars, origin, cookies)[n] = cookies[n]
  BY DEF WithCookies

\* A request begins: it has been nowhere but where it goes.
LEMMA RequestKeeps ==
  ASSUME NEW origin, NEW method, NEW own,
         NEW body \in BOOLEAN, NEW auth \in BOOLEAN, NEW framing \in BOOLEAN,
         Request(origin, method, body, auth, framing, own)
  PROVE  HttpInv'
<1> DEFINE users == [n \in own |-> User]
<1>1. /\ at' = origin /\ visited' = {origin}
      /\ asked'.first = origin /\ asked'.method = method /\ asked'.body = body
      /\ sent'.method = method /\ sent'.body = body
      /\ sent'.framing = framing /\ sent'.auth = auth
      /\ sent'.cookies = WithCookies(jar, origin, users)
  BY DEF Request
<1>2. ASSUME NEW n \in DOMAIN users
      PROVE  users[n] = User
  OBVIOUS
<1> HIDE DEF users
<1>3. ASSUME NEW n \in DOMAIN sent'.cookies
      PROVE  sent'.cookies[n] = at' \/ sent'.cookies[n] = User
  BY <1>1, <1>2, <1>3, CookiesOf
<1>4. NeverLeft'
  BY <1>1 DEF NeverLeft
<1>5. SecretsStayHome'
  BY <1>1, <1>3, <1>4 DEF SecretsStayHome
<1>6. BodyStaysHome'
  BY <1>1, <1>4 DEF BodyStaysHome
<1> QED
  BY <1>1, <1>5, <1>6 DEF HttpInv

\* A redirect is followed: what goes on depends on whether the origin stays.
LEMMA RedirectKeeps ==
  ASSUME NEW see \in BOOLEAN, NEW next, NEW set, HttpInv, Redirect(see, next, set)
  PROVE  HttpInv'
<1> DEFINE toGet == see /\ sent.method \notin {"GET", "HEAD"}
<1>1. /\ at \in visited /\ asked.first \in visited /\ SecretsStayHome /\ BodyStaysHome
      /\ sent.body \in BOOLEAN /\ sent.framing \in BOOLEAN /\ sent.auth \in BOOLEAN
      /\ asked.body \in BOOLEAN /\ asked # Idle
  BY DEF HttpInv, Redirect
<1>2. /\ asked' = asked /\ at' = next /\ visited' = visited \cup {next}
      /\ ~Downgrades(next)
      /\ sent' = Onward(toGet, next, jar')
  BY DEF Redirect
<1>3. toGet \in BOOLEAN
  OBVIOUS
<1> HIDE DEF toGet
<1>4. /\ sent'.method = IF toGet THEN "GET" ELSE sent.method
      /\ sent'.body = ((sent.body /\ ~toGet) /\ next = at)
      /\ sent'.framing = (sent.framing /\ ~toGet /\ ~((sent.body /\ ~toGet) /\ ~(next = at)))
      /\ sent'.auth = (sent.auth /\ next = at)
      /\ sent'.cookies = WithCookies(jar', next, CookiesKept(next))
  BY <1>2, <1>3, OnwardFields
<1>5. next = at /\ NeverLeft => NeverLeft'
  BY <1>1, <1>2 DEF NeverLeft
<1>6. SecretsStayHome'
  <2>1. sent'.auth => NeverLeft'
    BY <1>1, <1>4, <1>5 DEF SecretsStayHome
  <2>2. ASSUME NEW n \in DOMAIN sent'.cookies
        PROVE  sent'.cookies[n] = at' \/ (sent'.cookies[n] = User /\ NeverLeft')
    <3>1. \/ sent'.cookies[n] = next
          \/ n \in DOMAIN CookiesKept(next) /\ sent'.cookies[n] = CookiesKept(next)[n]
      BY <1>4, <2>2, CookiesOf
    <3>2. n \in DOMAIN CookiesKept(next) => next = at /\ CookiesKept(next) = sent.cookies
      BY DEF CookiesKept, NoCookies, Stays
    <3> QED
      BY <1>1, <1>2, <1>5, <3>1, <3>2 DEF SecretsStayHome
  <2>3. visited' \cap Secure # {} => at' \in Secure
    BY <1>1, <1>2 DEF SecretsStayHome, Downgrades
  <2> QED
    BY <2>1, <2>2, <2>3 DEF SecretsStayHome
<1>7. BodyStaysHome'
  <2>1. sent'.body => NeverLeft' /\ sent'.method = asked'.method
    BY <1>1, <1>2, <1>3, <1>4, <1>5 DEF BodyStaysHome
  <2>2. sent'.framing /\ asked'.body => sent'.body
    BY <1>1, <1>2, <1>3, <1>4 DEF BodyStaysHome
  <2>3. sent'.method # asked'.method => ~sent'.framing
    BY <1>1, <1>2, <1>3, <1>4 DEF BodyStaysHome
  <2> QED
    BY <2>1, <2>2, <2>3 DEF BodyStaysHome
<1>8. sent'.body \in BOOLEAN /\ sent'.framing \in BOOLEAN /\ sent'.auth \in BOOLEAN
  BY <1>1, <1>3, <1>4
<1> QED
  BY <1>1, <1>2, <1>6, <1>7, <1>8 DEF HttpInv

\* The request returns or raises.
LEMMA EndKeeps ==
  ASSUME End
  PROVE  HttpInv'
  BY DEF End, HttpInv

\* Nothing the requests are made of changes.
LEMMA HttpStutters ==
  ASSUME HttpInv, UNCHANGED httpVars
  PROVE  HttpInv'
  BY DEF HttpInv, httpVars, SecretsStayHome, BodyStaysHome, NeverLeft

\* Wherever redirects lead, a request knows where it has been.
THEOREM HttpInvariant == SessionSpec => []HttpInv
<1>1. SessionInit => HttpInv
  BY DEF SessionInit, HttpInit, HttpInv
<1>2. ASSUME HttpInv, [SessionNext]_sessionVars
      PROVE  HttpInv'
  <2>1. CASE Call
    BY <2>1, RequestKeeps DEF Call
  <2>2. ASSUME NEW set \in SUBSET Names, NEW flag \in BOOLEAN,
               NEW next \in Origins \cup {User}, Redirect(flag, next, set)
        PROVE  HttpInv'
    BY <1>2, <2>2, RedirectKeeps
  <2>3. CASE Answer
    BY <2>2, <2>3, EndKeeps DEF Answer, Return, Refuse
  <2>4. CASE ExchangeFails
    BY <2>4, EndKeeps DEF ExchangeFails
  <2>5. CASE UNCHANGED httpVars
    BY <1>2, <2>5, HttpStutters
  <2> QED
    BY <1>2, <2>1, <2>3, <2>4, <2>5
       DEF SessionNext, HttpNext, sessionVars, notCache, notFiles, notHosts, notReceive, notGap
<1> QED
  BY <1>1, <1>2, PTL DEF SessionSpec

\* Along any chain of redirects of http/client.py's request, secrets only go
\* where they belong.
THEOREM SecretsNeverLeave == SessionSpec => []SecretsStayHome
<1>1. HttpInv => SecretsStayHome
  BY DEF HttpInv, SecretsStayHome
<1> QED
  BY <1>1, HttpInvariant, PTL

\* Along any such chain, a body goes to its first origin only, and what
\* announces it goes with it.
THEOREM BodiesNeverLeave == SessionSpec => []BodyStaysHome
<1>1. HttpInv => BodyStaysHome
  BY DEF HttpInv, BodyStaysHome
<1> QED
  BY <1>1, HttpInvariant, PTL

\* With the types: what was accepted is a key, so a host without an entry was
\* never gone on with.
HostInv ==
  /\ stored \in [Stores -> [HostIds -> ServerKeys \cup {Unseen}]]
  /\ shows \in [HostIds -> ServerKeys]
  /\ accepted \in [Auths -> [Stores -> [HostIds -> SUBSET ServerKeys]]]
  /\ OneKeyPerHost

\* A key is accepted that the store has from now on, unless the host stays
\* without an entry in the system's store.
LEMMA AcceptKeeps ==
  ASSUME HostInv, NEW auth \in Auths, NEW s \in Stores, NEW h \in HostIds,
         stored[s][h] \in {Unseen, shows[h]},
         stored' = stored \/ (s = "file" /\ stored' = [stored EXCEPT ![s][h] = shows[h]]),
         \/ stored'[s][h] = shows[h]
         \/ auth = "auto" /\ s = "system" /\ stored'[s][h] = Unseen,
         Accept(auth, s, h), UNCHANGED shows
  PROVE  HostInv'
<1>0. accepted[auth] \in [Stores -> [HostIds -> SUBSET ServerKeys]] /\ shows[h] \in ServerKeys
  BY DEF HostInv
<1>1. stored' \in [Stores -> [HostIds -> ServerKeys \cup {Unseen}]]
  <2>1. [stored[s] EXCEPT ![h] = shows[h]] \in [HostIds -> ServerKeys \cup {Unseen}]
    BY <1>0 DEF HostInv
  <2> QED
    BY <2>1 DEF HostInv
<1>2. shows' \in [HostIds -> ServerKeys]
  BY DEF HostInv
<1>3. /\ accepted' \in [Auths -> [Stores -> [HostIds -> SUBSET ServerKeys]]]
      /\ \A mode \in Auths, t \in Stores, g \in HostIds :
           accepted'[mode][t][g] = IF mode = auth /\ t = s /\ g = h
                                   THEN accepted[mode][t][g] \cup {shows[h]}
                                   ELSE accepted[mode][t][g]
  <2>1. accepted[auth][s] \in [HostIds -> SUBSET ServerKeys]
    BY <1>0 DEF HostInv
  <2>2. accepted[auth][s][h] \cup {shows[h]} \in SUBSET ServerKeys
    BY <1>0, <2>1
  <2>3. /\ [accepted[auth][s] EXCEPT ![h] = accepted[auth][s][h] \cup {shows[h]}]
             \in [HostIds -> SUBSET ServerKeys]
        /\ accepted' = [accepted EXCEPT ![auth][s][h] = accepted[auth][s][h] \cup {shows[h]}]
    BY <2>1, <2>2 DEF Accept
  <2> QED
    BY <1>0, <2>1, <2>3 DEF HostInv
<1>4. ASSUME NEW mode \in Auths, NEW t \in Stores, NEW g \in HostIds
      PROVE  \/ accepted'[mode][t][g] \subseteq {stored'[t][g]}
             \/ mode = "auto" /\ t = "system" /\ stored'[t][g] = Unseen
  <2>1. /\ \/ accepted[mode][t][g] \subseteq {stored[t][g]}
           \/ mode = "auto" /\ t = "system" /\ stored[t][g] = Unseen
        /\ accepted[mode][t][g] \subseteq ServerKeys
    BY DEF HostInv, OneKeyPerHost
  <2>2. stored'[t][g] = stored[t][g] \/ (t = s /\ g = h /\ s = "file" /\ stored'[t][g] = shows[h])
    BY DEF HostInv
  <2>3. CASE t = s /\ g = h
    <3>1. Unseen \notin accepted[mode][t][g]
      BY <2>1, UnseenIsNoKey
    <3>2. accepted'[mode][t][g] \in {accepted[mode][t][g], accepted[mode][t][g] \cup {shows[h]}}
          /\ (mode # auth => accepted'[mode][t][g] = accepted[mode][t][g])
      BY <1>3
    <3> QED
      BY <2>1, <2>2, <2>3, <3>1, <3>2
  <2>4. CASE ~(t = s /\ g = h)
    <3>1. accepted'[mode][t][g] = accepted[mode][t][g]
      BY <1>3, <2>4
    <3> QED
      BY <2>1, <2>2, <2>4, <3>1
  <2> QED
    BY <2>3, <2>4
<1> QED
  BY <1>1, <1>2, <1>3, <1>4 DEF HostInv, OneKeyPerHost

\* Stores only ever hold keys that setups accepted or that were there before.
THEOREM HostInvariant == SessionSpec => []HostInv
<1>1. SessionInit => HostInv
  BY DEF SessionInit, HostKeysInit, HostInv, OneKeyPerHost, Stores
<1>2. ASSUME HostInv, [SessionNext]_sessionVars
      PROVE  HostInv'
  <2>1. CASE CreateFile
    BY <1>2, <2>1 DEF CreateFile, HostInv, OneKeyPerHost
  <2>2. ASSUME NEW h \in HostIds, NewServerKey(h)
        PROVE  HostInv'
    BY <1>2, <2>2 DEF NewServerKey, HostInv, OneKeyPerHost
  <2>3. ASSUME NEW h \in HostIds, NEW s \in Stores, ConnectAuto(s, h)
        PROVE  HostInv'
    <3>1. /\ stored' = stored \/ (s = "file" /\ stored' = [stored EXCEPT ![s][h] = shows[h]])
          /\ stored[s][h] \in {Unseen, shows[h]} /\ Accept("auto", s, h) /\ UNCHANGED shows
          /\ s = "system" => stored' = stored
          /\ s = "file" => stored' = [stored EXCEPT ![s][h] = shows[h]]
      <4>1. /\ stored[s][h] \in {Unseen, shows[h]} /\ Accept("auto", s, h) /\ UNCHANGED shows
            /\ s = "file" => stored' = [stored EXCEPT ![s][h] = shows[h]]
            /\ s # "file" => stored' = stored
        BY <2>3, Zenon DEF ConnectAuto
      <4> QED
        BY <4>1 DEF Stores
    <3>2. \/ stored'[s][h] = shows[h]
          \/ s = "system" /\ stored'[s][h] = Unseen
      BY <1>2, <3>1 DEF HostInv, Stores
    <3> QED
      BY <1>2, <3>1, <3>2, AcceptKeeps DEF Auths
  <2>4. ASSUME NEW h \in HostIds, NEW s \in Stores, ConnectNone(s, h)
        PROVE  HostInv'
    <3>1. stored[s][h] = shows[h] /\ Accept("none", s, h) /\ stored' = stored /\ shows' = shows
      BY <2>4, Zenon DEF ConnectNone, Trusts
    <3> QED
      BY <1>2, <3>1, AcceptKeeps DEF Auths
  <2>5. CASE UNCHANGED hostVars
    BY <1>2, <2>5 DEF hostVars, HostInv, OneKeyPerHost
  <2>6. HostKeysNext \/ UNCHANGED hostVars
    BY <1>2 DEF SessionNext, sessionVars, notHttp, notCache, notFiles, notReceive, notGap
  <2> QED
    BY <2>1, <2>2, <2>3, <2>4, <2>5, <2>6 DEF HostKeysNext
<1> QED
  BY <1>1, <1>2, PTL DEF SessionSpec

\* Whatever setups of either mode and whatever changes of servers' keys follow
\* each other, all that went on over a store went on with the key it has for
\* the host; left out are setups of "auto" over the system's store for a host
\* that has no entry in it, which take what they are shown.
THEOREM HostsKeepTheirKey == SessionSpec => []OneKeyPerHost
<1>1. HostInv => OneKeyPerHost
  BY DEF HostInv
<1> QED
  BY <1>1, HostInvariant, PTL

-----------------------------------------------------------------------------
(* Connections in the cache are neither lost nor closed twice, for any       *)
(* number of threads, keys, attempts and connections.                       *)

Holding == {"handshake", "hostKey", "auth", "store", "close"}
Keyed   == {"look", "fetch"} \cup Loading

CacheTypeOK ==
  /\ made \in Nat /\ made <= MaxConnections
  /\ pc \in [Threads -> {"idle", "look", "fetch", "closing", "close"} \cup Loading]
  /\ key \in [Threads -> Keys \cup {NoKey}]
  /\ conn \in [Threads -> 0..made] /\ cache \in [Keys -> 0..made]
  /\ todo \in [Threads -> SUBSET Keys]
  /\ open \in SUBSET (1..made)
  /\ closes \in [1..MaxConnections -> {0, 1}]

\* A thread holds a connection exactly where the code has it in a variable,
\* and knows its key where it needs it.
LocalsOK ==
  \A t \in Threads : /\ conn[t] # 0 <=> pc[t] \in Holding
                     /\ pc[t] \in Keyed => key[t] \in Keys

\* A connection has one place: one cache entry or one thread.
OnePlace ==
  /\ \A k, l \in Keys : k # l /\ cache[k] # 0 => cache[k] # cache[l]
  /\ \A t, u \in Threads : t # u /\ conn[t] # 0 => conn[t] # conn[u]
  /\ \A k \in Keys, t \in Threads : cache[k] # 0 => cache[k] # conn[t]

\* What has a place stands and was never closed; what is to come was not either.
Standing ==
  /\ \A k \in Keys : cache[k] # 0 => cache[k] \in open /\ closes[cache[k]] = 0
  /\ \A t \in Threads : conn[t] # 0 => conn[t] \in open /\ closes[conn[t]] = 0
  /\ \A c \in 1..MaxConnections : c > made => closes[c] = 0

\* While no key was contended, a thread that loads one is alone with it, and
\* the cache has nothing for it.
LoadsAlone ==
  contended = {} =>
    \A t \in Threads : pc[t] \in Loading =>
      /\ cache[key[t]] = 0
      /\ \A u \in Threads : u # t /\ pc[u] \in Loading => key[u] # key[t]

\* The inductive invariant.
CacheInv ==
  /\ CacheTypeOK /\ LocalsOK /\ OnePlace /\ Standing /\ LoadsAlone
  /\ EveryConnectionOwned

LEMMA CacheInitial ==
  ASSUME CacheInit
  PROVE  CacheInv
  BY CacheAssumption
  DEF CacheInit, CacheInv, CacheTypeOK, LocalsOK, OnePlace, Standing, LoadsAlone,
      EveryConnectionOwned, Holding, Keyed, Loading

\* A thread goes on without touching a connection.
LEMMA MovesKeep ==
  ASSUME NEW t \in Threads, CacheInv,
         \/ \E k \in Keys : Get(t, k)
         \/ Found(t) \/ Handshake(t) \/ HostKey(t) \/ Auth(t) \/ CloseAll(t)
  PROVE  CacheInv'
<1> USE DEF CacheInv, At, Goto, Holding, Keyed, Loading
<1>1. /\ UNCHANGED <<conn, cache, open, made, closes, contended, stuck>>
      /\ \A u \in Threads \ {t} : pc'[u] = pc[u] /\ key'[u] = key[u]
      /\ pc'[t] \in Holding <=> pc[t] \in Holding
  BY DEF CacheTypeOK, Get, Found, Handshake, HostKey, Auth, Proceed, CloseAll
<1>2. pc'[t] \in Loading => pc[t] \in Loading /\ key'[t] = key[t]
  BY DEF CacheTypeOK, Get, Found, Handshake, HostKey, Auth, Proceed, CloseAll
<1>3. CacheTypeOK'
  BY DEF CacheTypeOK, Get, Found, Handshake, HostKey, Auth, Proceed, CloseAll
<1>4. pc'[t] \in Keyed => key'[t] \in Keys
  BY DEF CacheTypeOK, LocalsOK, Get, Found, Handshake, HostKey, Auth, Proceed, CloseAll
<1>5. LocalsOK'
  BY <1>1, <1>4 DEF LocalsOK
<1>6. OnePlace' /\ Standing' /\ EveryConnectionOwned'
  BY <1>1 DEF OnePlace, Standing, EveryConnectionOwned
<1>7. LoadsAlone'
  BY <1>1, <1>2 DEF LoadsAlone
<1> QED
  BY <1>3, <1>5, <1>6, <1>7

\* A thread that holds nothing leaves.
LEMMA LeavesKeep ==
  ASSUME NEW t \in Threads, CacheInv, Fetch(t) \/ AllClosed(t)
  PROVE  CacheInv'
<1> USE DEF CacheInv, At, Goto, Leave, Fetch, AllClosed, Holding, Keyed, Loading
<1>1. conn[t] = 0
  BY DEF LocalsOK
<1>2. conn' = conn /\ pc' = [pc EXCEPT ![t] = "idle"] /\ key' = [key EXCEPT ![t] = NoKey]
      /\ UNCHANGED <<cache, open, made, closes, contended, stuck, todo>>
  BY <1>1 DEF CacheTypeOK
<1> QED
  BY <1>1, <1>2 DEF CacheTypeOK, LocalsOK, OnePlace, Standing, LoadsAlone, EveryConnectionOwned

LEMMA MissingKeeps ==
  ASSUME NEW t \in Threads, CacheInv, Missing(t)
  PROVE  CacheInv'
<1> USE DEF CacheInv, At, Goto, Missing, Holding, Keyed, Loading
<1>1. CacheTypeOK' /\ LocalsOK'
  BY DEF CacheTypeOK, LocalsOK
<1>2. OnePlace' /\ Standing'
  BY DEF OnePlace, Standing
<1>3. contended' = {} => contended = {}
  OBVIOUS
<1>4. EveryConnectionOwned'
  BY <1>3 DEF EveryConnectionOwned
<1>5. contended' = {} => \A u \in Threads \ {t} : pc[u] \in Loading => key[u] # key[t]
  OBVIOUS
<1>6. LoadsAlone'
  BY <1>3, <1>5 DEF LoadsAlone, CacheTypeOK, LocalsOK
<1> QED
  BY <1>1, <1>2, <1>4, <1>6

LEMMA ConnectKeeps ==
  ASSUME NEW t \in Threads, CacheInv, Connect(t)
  PROVE  CacheInv'
<1> USE DEF CacheInv, At, Goto, Connect, Holding, Keyed, Loading
<1>1. /\ made \in Nat /\ made' = made + 1 /\ conn[t] = 0
      /\ \A u \in Threads : conn[u] \in Nat /\ conn[u] <= made
      /\ \A k \in Keys : cache[k] \in Nat /\ cache[k] <= made
      /\ made + 1 \in 1..MaxConnections /\ closes[made + 1] = 0
      /\ conn'[t] = made + 1 /\ \A u \in Threads \ {t} : conn'[u] = conn[u]
      /\ pc'[t] = "handshake" /\ \A u \in Threads \ {t} : pc'[u] = pc[u]
  <2>1. made \in Nat /\ made < MaxConnections /\ made' = made + 1 /\ pc[t] = "connect"
    BY DEF CacheTypeOK
  <2>2. conn[t] = 0
    BY <2>1 DEF LocalsOK
  <2>3. made + 1 \in 1..MaxConnections /\ made + 1 > made
    BY <2>1, CacheAssumption
  <2>4. closes[made + 1] = 0
    BY <2>3 DEF Standing
  <2>5. /\ \A u \in Threads : conn[u] \in Nat /\ conn[u] <= made
        /\ \A k \in Keys : cache[k] \in Nat /\ cache[k] <= made
    BY <2>1 DEF CacheTypeOK
  <2>6. /\ conn'[t] = made + 1 /\ \A u \in Threads \ {t} : conn'[u] = conn[u]
        /\ pc'[t] = "handshake" /\ \A u \in Threads \ {t} : pc'[u] = pc[u]
    BY DEF CacheTypeOK
  <2> QED
    BY <2>1, <2>2, <2>3, <2>4, <2>5, <2>6
<1>2. CacheTypeOK'
  BY <1>1, CacheAssumption DEF CacheTypeOK
<1>3. LocalsOK'
  BY <1>1 DEF LocalsOK
<1>4. OnePlace'
  BY <1>1 DEF OnePlace
<1>5. Standing'
  BY <1>1 DEF Standing
<1>6. LoadsAlone'
  BY <1>1 DEF LoadsAlone
<1>7. EveryConnectionOwned'
  <2>1. open' = open \cup {made + 1} /\ UNCHANGED <<cache, stuck, contended>>
    OBVIOUS
  <2>2. ASSUME NEW c \in open \ stuck, contended = {}
        PROVE  \/ \E k \in Keys : cache[k] = c
               \/ \E u \in Threads \ {t} : conn[u] = c
    <3>1. c # 0
      BY DEF CacheTypeOK
    <3> QED
      BY <1>1, <2>2, <3>1 DEF EveryConnectionOwned
  <2> QED
    BY <1>1, <2>1, <2>2 DEF EveryConnectionOwned
<1> QED
  BY <1>2, <1>3, <1>4, <1>5, <1>6, <1>7

\* The finally block of a failed attempt closes what only its thread had.
LEMMA FailsKeeps ==
  ASSUME NEW t \in Threads, NEW transient \in BOOLEAN, CacheInv, AttemptFails(t, transient)
  PROVE  CacheInv'
<1> USE DEF CacheInv, Goto, Leave, Holding, Keyed, Loading
<1>1. /\ UNCHANGED <<cache, made, closes, contended, stuck, todo>>
      /\ open' = open \ {conn[t]} /\ conn' = [conn EXCEPT ![t] = 0]
      /\ pc[t] \in Loading
      /\ \/ pc' = [pc EXCEPT ![t] = "connect"] /\ key' = key
         \/ pc' = [pc EXCEPT ![t] = "idle"] /\ key' = [key EXCEPT ![t] = NoKey]
  BY DEF AttemptFails, Abandoned
<1>2. CacheTypeOK'
  <2>1. open' \in SUBSET (1..made')
    BY <1>1 DEF CacheTypeOK
  <2>5. conn' \in [Threads -> 0..made']
    BY <1>1 DEF CacheTypeOK
  <2>2. pc' \in [Threads -> {"idle", "look", "fetch", "closing", "close"} \cup Loading]
    BY <1>1 DEF CacheTypeOK
  <2>3. key' \in [Threads -> Keys \cup {NoKey}]
    BY <1>1 DEF CacheTypeOK
  <2> QED
    BY <1>1, <2>1, <2>2, <2>3, <2>5 DEF CacheTypeOK
<1>3. LocalsOK'
  BY <1>1 DEF LocalsOK, CacheTypeOK
<1>4. OnePlace'
  BY <1>1 DEF OnePlace, CacheTypeOK
<1>5. Standing'
  BY <1>1 DEF Standing, OnePlace, CacheTypeOK
<1>6. LoadsAlone'
  BY <1>1 DEF LoadsAlone, CacheTypeOK
<1>7. EveryConnectionOwned'
  BY <1>1 DEF EveryConnectionOwned, CacheTypeOK
<1> QED
  BY <1>2, <1>3, <1>4, <1>5, <1>6, <1>7

\* The connection moves from the thread to the cache, where nothing is lost
\* by it unless the key was contended.
LEMMA StoreKeeps ==
  ASSUME NEW t \in Threads, CacheInv, Store(t)
  PROVE  CacheInv'
<1> USE DEF CacheInv, At, Goto, Leave, Holding, Keyed, Loading
<1>1. /\ UNCHANGED <<open, made, closes, contended, stuck, todo>>
      /\ cache' = [cache EXCEPT ![key[t]] = conn[t]] /\ conn' = [conn EXCEPT ![t] = 0]
      /\ pc[t] = "store" /\ pc' = [pc EXCEPT ![t] = "idle"]
      /\ key' = [key EXCEPT ![t] = NoKey]
  BY DEF Store
<1>2. key[t] \in Keys /\ conn[t] # 0
  BY <1>1 DEF LocalsOK
<1>3. CacheTypeOK'
  BY <1>1, <1>2 DEF CacheTypeOK
<1>4. LocalsOK'
  BY <1>1 DEF LocalsOK, CacheTypeOK
<1>5. OnePlace'
  BY <1>1, <1>2 DEF OnePlace, CacheTypeOK
<1>6. Standing'
  BY <1>1, <1>2 DEF Standing, CacheTypeOK
<1>7. LoadsAlone'
  BY <1>1, <1>2 DEF LoadsAlone, LocalsOK, CacheTypeOK
<1>8. EveryConnectionOwned'
  <2>1. contended = {} => cache[key[t]] = 0
    BY <1>1 DEF LoadsAlone
  <2>2. ASSUME contended = {}, NEW c \in open \ stuck
        PROVE  \/ \E k \in Keys : cache'[k] = c
               \/ \E u \in Threads : conn'[u] = c
    <3>1. CASE c = conn[t]
      BY <1>1, <1>2, <3>1 DEF CacheTypeOK
    <3>2. CASE \E u \in Threads \ {t} : conn[u] = c
      BY <1>1, <3>2 DEF CacheTypeOK
    <3>3. CASE \E k \in Keys : cache[k] = c
      <4>1. c # 0
        BY DEF CacheTypeOK
      <4> QED
        BY <1>1, <2>1, <2>2, <3>3, <4>1 DEF CacheTypeOK
    <3> QED
      BY <2>2, <3>1, <3>2, <3>3 DEF EveryConnectionOwned
  <2> QED
    BY <1>1, <2>2 DEF EveryConnectionOwned
<1> QED
  BY <1>3, <1>4, <1>5, <1>6, <1>7, <1>8

\* The connection moves from the cache to the thread that closes it.
LEMMA PopKeeps ==
  ASSUME NEW t \in Threads, NEW k \in Keys, CacheInv, Pop(t, k)
  PROVE  CacheInv'
<1> USE DEF CacheInv, At, Goto, Holding, Keyed, Loading
<1>1. /\ UNCHANGED <<key, open, made, closes, contended, stuck>>
      /\ conn' = [conn EXCEPT ![t] = cache[k]] /\ cache' = [cache EXCEPT ![k] = 0]
      /\ pc[t] = "closing" /\ todo' = [todo EXCEPT ![t] = @ \ {k}]
      /\ pc' = IF cache[k] = 0 THEN pc ELSE [pc EXCEPT ![t] = "close"]
  BY DEF Pop, Popped
<1>2. conn[t] = 0
  BY <1>1 DEF LocalsOK
<1>3. CacheTypeOK'
  BY <1>1 DEF CacheTypeOK
<1>4. LocalsOK'
  BY <1>1, <1>2 DEF LocalsOK, CacheTypeOK
<1>5. OnePlace'
  BY <1>1, <1>2 DEF OnePlace, CacheTypeOK
<1>6. Standing'
  BY <1>1, <1>2 DEF Standing, CacheTypeOK
<1>7. LoadsAlone'
  BY <1>1 DEF LoadsAlone, LocalsOK, CacheTypeOK
<1>8. EveryConnectionOwned'
  BY <1>1, <1>2 DEF EveryConnectionOwned, CacheTypeOK
<1> QED
  BY <1>3, <1>4, <1>5, <1>6, <1>7, <1>8

\* close() is called on a connection that only its thread has.
LEMMA CloseKeeps ==
  ASSUME NEW t \in Threads, CacheInv, Close(t)
  PROVE  CacheInv'
<1> USE DEF CacheInv, At, Goto, Holding, Keyed, Loading
<1>1. /\ UNCHANGED <<key, todo, cache, made, contended>>
      /\ conn' = [conn EXCEPT ![t] = 0] /\ pc[t] = "close"
      /\ pc' = [pc EXCEPT ![t] = "closing"]
      /\ closes' = [closes EXCEPT ![conn[t]] = @ + 1]
      /\ \/ open' = open \ {conn[t]} /\ stuck' = stuck
         \/ open' = open /\ stuck' = stuck \cup {conn[t]}
  BY DEF Close
<1>2. /\ conn[t] # 0 /\ conn[t] \in 1..MaxConnections /\ conn[t] <= made
      /\ closes[conn[t]] = 0
  BY <1>1, CacheAssumption DEF LocalsOK, CacheTypeOK, Standing
<1>3. CacheTypeOK'
  <2>1. closes' = [closes EXCEPT ![conn[t]] = 1]
    BY <1>1, <1>2 DEF CacheTypeOK
  <2>2. closes' \in [1..MaxConnections -> {0, 1}]
    BY <1>2, <2>1 DEF CacheTypeOK
  <2>3. open' \in SUBSET (1..made')
    BY <1>1 DEF CacheTypeOK
  <2>5. conn' \in [Threads -> 0..made']
    BY <1>1 DEF CacheTypeOK
  <2>4. pc' \in [Threads -> {"idle", "look", "fetch", "closing", "close"} \cup Loading]
    BY <1>1 DEF CacheTypeOK
  <2> QED
    BY <1>1, <2>2, <2>3, <2>4, <2>5 DEF CacheTypeOK
<1>4. LocalsOK'
  BY <1>1 DEF LocalsOK, CacheTypeOK
<1>5. OnePlace'
  BY <1>1 DEF OnePlace, CacheTypeOK
<1>6. Standing'
  BY <1>1, <1>2, CacheAssumption DEF Standing, OnePlace, CacheTypeOK
<1>7. LoadsAlone'
  BY <1>1 DEF LoadsAlone, CacheTypeOK
<1>8. EveryConnectionOwned'
  BY <1>1 DEF EveryConnectionOwned, CacheTypeOK
<1> QED
  BY <1>3, <1>4, <1>5, <1>6, <1>7, <1>8

LEMMA CacheStutters ==
  ASSUME CacheInv, UNCHANGED cacheVars
  PROVE  CacheInv'
  BY DEF CacheInv, cacheVars, CacheTypeOK, LocalsOK, OnePlace, Standing, LoadsAlone,
         EveryConnectionOwned

\* However threads open and close clients, a connection has one place.
THEOREM CacheInvariant == SessionSpec => []CacheInv
<1>1. SessionInit => CacheInv
  BY CacheInitial DEF SessionInit
<1>2. ASSUME CacheInv, [SessionNext]_sessionVars
      PROVE  CacheInv'
  <2>1. CASE CacheNext
    BY <1>2, <2>1, MovesKeep, LeavesKeep, MissingKeeps, ConnectKeeps, FailsKeeps,
       StoreKeeps, PopKeeps, CloseKeeps DEF CacheNext
  <2>2. CASE UNCHANGED cacheVars
    BY <1>2, <2>2, CacheStutters
  <2> QED
    BY <1>2, <2>1, <2>2
       DEF SessionNext, sessionVars, notHttp, notFiles, notHosts, notReceive, notGap
<1> QED
  BY <1>1, <1>2, PTL DEF SessionSpec

\* No connection that cached_resource opened is lost, whatever fails while it
\* is opened, unless two threads load one key or a close raises.
THEOREM NoConnectionLost == SessionSpec => []EveryConnectionOwned
<1>1. CacheInv => EveryConnectionOwned
  BY DEF CacheInv
<1> QED
  BY <1>1, CacheInvariant, PTL

\* However many threads run close_all, no client is closed twice and none is
\* handed out of the cache once it is closing.
THEOREM NoneClosedTwice == SessionSpec => []ClosesOnce
<1>1. ASSUME CacheInv
      PROVE  ClosesOnce
  <2>1. \A c \in 1..MaxConnections : closes[c] <= 1
    BY <1>1 DEF CacheInv, CacheTypeOK
  <2>2. ASSUME NEW k \in Keys, cache[k] # 0
        PROVE  /\ cache[k] \in open /\ closes[cache[k]] = 0
               /\ ~\E t \in Threads : pc[t] = "close" /\ conn[t] = cache[k]
    BY <1>1, <2>2 DEF CacheInv, Standing, OnePlace
  <2> QED
    BY <2>1, <2>2 DEF ClosesOnce
<1> QED
  BY <1>1, CacheInvariant, PTL

-----------------------------------------------------------------------------
(* The file calls of a client.                                               *)

\* Whatever file calls follow each other, both sides are trees, the places of
\* a transfer are apart and what is through is where it should be.
THEOREM FilesInvariant == SessionSpec => []FilesInv
<1>1. SessionInit => FilesInv
  BY FilesInitial DEF SessionInit
<1>2. FilesInv /\ [SessionNext]_sessionVars => FilesInv'
  BY FilesStep, FilesStutter
     DEF SessionNext, sessionVars, notHttp, notCache, notHosts, notReceive, notGap
<1> QED
  BY <1>1, <1>2, PTL DEF SessionSpec

\* The get and put of both drivers: a transfer is of the files that match and
\* of no other, at any depth and below any folders, as far as the server let
\* their directories be listed, and when it has returned each of them is in a
\* place of its own with its source's content, but for what others changed
\* meanwhile.
THEOREM TransfersAreComplete == SessionSpec => []TransfersComplete
<1>1. FilesInv => TransfersComplete
  BY FilesComplete
<1> QED
  BY <1>1, FilesInvariant, PTL

\* exec_sequence's upload: the script is there in full while its command runs,
\* unless others changed it, and whatever failed before the remove, nothing of
\* it stays on a host that is still reached and does not refuse the remove, for
\* any files and any calls before.
THEOREM ScriptsLeaveNoTrace == SessionSpec => []ScriptLeavesNoTrace
<1>1. FilesInv => ScriptLeavesNoTrace
  BY FilesComplete
<1> QED
  BY <1>1, FilesInvariant, PTL

-----------------------------------------------------------------------------
(* The silences that listens record *)

Working == {"poll", "device", "hook", "error"}
Records == [status : {"device", "error"}, timestamp : Nat]

\* When messages were stamped, whether or not their rows are stored already.
Heard == {Stamp(i) : i \in Stamped} \cup {stamp[l] : l \in {m \in Listens : doing[m] = "device"}}

\* Two times with none of the others between.
Adjacent(times, a, b) == a <= b /\ \A t \in times : ~(a < t /\ t < b)

GapTypeOK ==
  /\ doing \in [Listens -> Working] /\ stamp \in [Listens -> Nat] /\ rows \in Seq(Records)
  /\ clock \in 0..MaxClock /\ quiet \in Nat \cup {-1} /\ longest \in Nat

\* The invariant: the last message was stamped quiet ticks ago, and longest is
\* the greatest step from one stamp to the next.
GapInv ==
  /\ GapTypeOK
  /\ \A t \in Heard : quiet # -1 /\ t <= clock - quiet
  /\ quiet # -1 => clock - quiet \in Heard
  /\ \A a, b \in Heard : Adjacent(Heard, a, b) => b - a <= longest
  /\ longest > 0 => \E a, b \in Heard : Adjacent(Heard, a, b) /\ b - a = longest

LEMMA HeardTypes ==
  ASSUME GapTypeOK
  PROVE  Heard \subseteq Nat /\ DOMAIN rows = 1..Len(rows) /\ Len(rows) \in Nat
         /\ \A i \in DOMAIN rows : rows[i] \in Records
<1>1. DOMAIN rows = 1..Len(rows) /\ Len(rows) \in Nat /\ \A i \in DOMAIN rows : rows[i] \in Records
  BY LenProperties, ElementOfSeq DEF GapTypeOK
<1>2. \A i \in Stamped : Stamp(i) \in Nat
  BY <1>1 DEF Stamped, Stamp, Records
<1>3. \A l \in Listens : stamp[l] \in Nat
  BY DEF GapTypeOK
<1> QED
  BY <1>1, <1>2, <1>3 DEF Heard

LEMMA HeardSame ==
  ASSUME GapInv, GapTypeOK', Heard' = Heard, UNCHANGED <<clock, quiet, longest>>
  PROVE  GapInv'
BY DEF GapInv, Adjacent

LEMMA StampKeeps ==
  ASSUME GapInv, NEW l \in Listens, StampMessage(l)
  PROVE  GapInv'
<1>1. /\ doing[l] = "poll" /\ doing' = [doing EXCEPT ![l] = "device"]
      /\ stamp' = [stamp EXCEPT ![l] = clock] /\ UNCHANGED <<rows, clock>> /\ quiet' = 0
      /\ longest' = IF quiet > longest THEN quiet ELSE longest
  BY DEF StampMessage
<1>2. GapTypeOK /\ clock \in Nat /\ MaxClock \in Nat
  BY GapAssumption DEF GapInv, GapTypeOK
<1>3. GapTypeOK'
  BY <1>1, <1>2 DEF GapTypeOK, Working
<1>4. Heard' = Heard \cup {clock}
  <2>1. Stamped' = Stamped /\ \A i \in Stamped : Stamp(i)' = Stamp(i)
    BY <1>1 DEF Stamped, Stamp
  <2>2. {m \in Listens : doing'[m] = "device"} = {m \in Listens : doing[m] = "device"} \cup {l}
    BY <1>1, <1>2 DEF GapTypeOK
  <2>3. \A m \in Listens : stamp'[m] = IF m = l THEN clock ELSE stamp[m]
    BY <1>1, <1>2 DEF GapTypeOK
  <2>4. l \notin {m \in Listens : doing[m] = "device"}
    BY <1>1
  <2> HIDE <1>1
  <2> QED
    BY <2>1, <2>2, <2>3, <2>4 DEF Heard
<1>5. Heard \subseteq Nat /\ longest \in Nat /\ quiet \in Nat \cup {-1}
  BY <1>2, HeardTypes DEF GapTypeOK
<1>6. \A t \in Heard : quiet # -1 /\ t <= clock - quiet
  BY DEF GapInv
<1>7. quiet # -1 => clock - quiet \in Heard
  BY DEF GapInv
<1>8. ASSUME NEW a \in Heard', NEW b \in Heard', Adjacent(Heard', a, b)
      PROVE  b - a <= longest'
  <2>1. a <= b /\ \A t \in Heard \cup {clock} : ~(a < t /\ t < b)
    BY <1>4, <1>8 DEF Adjacent
  <2>2. CASE b \in Heard /\ a \in Heard
    <3>1. b - a <= longest
      BY <2>1, <2>2 DEF GapInv, Adjacent
    <3> QED
      BY <1>1, <1>5, <2>2, <3>1
  <2>3. CASE b = clock /\ b \notin Heard /\ a \in Heard
    <3>1. quiet \in Nat /\ clock - quiet \in Heard /\ a <= clock - quiet
      BY <1>5, <1>6, <1>7, <2>3
    <3>2. quiet # 0 /\ ~(a < clock - quiet /\ clock - quiet < b)
      BY <1>2, <2>1, <2>3, <3>1
    <3> QED
      BY <1>1, <1>2, <1>5, <2>3, <3>1, <3>2
  <2>4. CASE a = clock
    <3>1. b <= clock
      BY <1>2, <1>4, <1>5, <1>6
    <3> QED
      BY <1>1, <1>2, <1>4, <1>5, <2>1, <2>4, <3>1
  <2> QED
    BY <1>4, <2>2, <2>3, <2>4
<1>9. ASSUME longest' > 0
      PROVE  \E a, b \in Heard' : Adjacent(Heard', a, b) /\ b - a = longest'
  <2>1. CASE quiet > longest
    <3>1. quiet \in Nat /\ clock - quiet \in Heard /\ longest' = quiet
      BY <1>1, <1>5, <1>7, <2>1
    <3>2. Adjacent(Heard', clock - quiet, clock)
      BY <1>2, <1>4, <1>5, <1>6, <3>1 DEF Adjacent
    <3>3. clock - (clock - quiet) = quiet
      BY <1>2, <3>1
    <3> QED
      BY <1>4, <3>1, <3>2, <3>3
  <2>2. CASE ~(quiet > longest)
    <3>1. longest' = longest
      BY <1>1, <2>2
    <3>2. PICK a \in Heard, b \in Heard : Adjacent(Heard, a, b) /\ b - a = longest
      BY <1>9, <3>1 DEF GapInv
    <3>3. b <= clock
      BY <1>2, <1>5, <1>6
    <3>4. Adjacent(Heard', a, b)
      BY <1>2, <1>4, <1>5, <3>2, <3>3 DEF Adjacent
    <3> QED
      BY <1>4, <3>1, <3>2, <3>4
  <2> QED
    BY <2>1, <2>2
<1>10. \A t \in Heard' : quiet' # -1 /\ t <= clock' - quiet'
  BY <1>1, <1>2, <1>4, <1>5, <1>6
<1>11. clock' - quiet' \in Heard'
  BY <1>1, <1>2, <1>4
<1> QED
  BY <1>3, <1>8, <1>9, <1>10, <1>11 DEF GapInv

LEMMA EnqueueKeeps ==
  ASSUME GapInv, NEW l \in Listens, EnqueueRow(l)
  PROVE  GapInv'
<1> DEFINE row == [status |-> doing[l], timestamp |-> stamp[l]]
<1>1. /\ doing[l] \in {"device", "error"} /\ rows' = Append(rows, row)
      /\ doing' = [doing EXCEPT ![l] = IF doing[l] = "device" THEN "hook" ELSE "poll"]
      /\ stamp' = [stamp EXCEPT ![l] = 0] /\ UNCHANGED <<clock, quiet, longest>>
  BY DEF EnqueueRow
<1>2. GapTypeOK
  BY DEF GapInv
<1>3. row \in Records
  BY <1>1, <1>2 DEF GapTypeOK, Records
<1>4. /\ DOMAIN rows = 1..Len(rows) /\ Len(rows) \in Nat
      /\ rows' \in Seq(Records) /\ DOMAIN rows' = DOMAIN rows \cup {Len(rows) + 1}
      /\ rows'[Len(rows) + 1] = row
      /\ \A i \in DOMAIN rows : i # Len(rows) + 1 /\ rows'[i] = rows[i]
  BY <1>1, <1>2, <1>3, AppendProperties, LenProperties DEF GapTypeOK
<1>5. row.status = doing[l] /\ row.timestamp = stamp[l]
  OBVIOUS
<1> HIDE DEF row
<1>6. GapTypeOK'
  BY <1>1, <1>2, <1>4 DEF GapTypeOK, Working
<1>7. \A m \in Listens : m # l => doing'[m] = doing[m] /\ stamp'[m] = stamp[m]
  BY <1>1, <1>2 DEF GapTypeOK
<1>8. doing'[l] # "device"
  BY <1>1, <1>2 DEF GapTypeOK
<1>9. \A i \in DOMAIN rows : rows'[i].timestamp = rows[i].timestamp
  BY <1>4
<1>10. rows'[Len(rows) + 1].timestamp = stamp[l]
  BY <1>4, <1>5
<1>11. Stamped \subseteq DOMAIN rows
  BY DEF Stamped
<1>12. Stamped' = IF doing[l] = "device" THEN Stamped \cup {Len(rows) + 1} ELSE Stamped
  BY <1>4, <1>5 DEF Stamped
<1>13. Heard' = Heard
  <2>1. ASSUME NEW t \in Heard'
        PROVE  t \in Heard
    BY <1>7, <1>8, <1>9, <1>10, <1>11, <1>12 DEF Heard, Stamp
  <2>2. ASSUME NEW t \in Heard
        PROVE  t \in Heard'
    BY <1>7, <1>8, <1>9, <1>10, <1>11, <1>12 DEF Heard, Stamp
  <2> QED
    BY <2>1, <2>2
<1> QED
  BY <1>1, <1>6, <1>13, HeardSame

LEMMA GapStep ==
  ASSUME GapInv, GapNext
  PROVE  GapInv'
<1> USE GapAssumption
<1>1. CASE TimePasses
  <2>1. /\ clock < MaxClock /\ clock' = clock + 1 /\ UNCHANGED <<doing, stamp, rows, longest>>
        /\ quiet' = IF quiet = -1 THEN -1 ELSE quiet + 1
    BY <1>1 DEF TimePasses
  <2>2. Heard' = Heard /\ Heard \subseteq Nat
    BY <2>1, HeardTypes DEF Heard, Stamped, Stamp, GapInv
  <2>3. GapTypeOK'
    BY <2>1 DEF GapInv, GapTypeOK
  <2>4. quiet # -1 => clock' - quiet' = clock - quiet
    BY <2>1 DEF GapInv, GapTypeOK
  <2>5. quiet' = -1 <=> quiet = -1
    BY <2>1 DEF GapInv, GapTypeOK
  <2> QED
    BY <2>1, <2>2, <2>3, <2>4, <2>5 DEF GapInv, Adjacent
<1>2. ASSUME NEW l \in Listens, StampError(l) \/ ListensOn(l)
      PROVE  GapInv'
  <2>1. /\ doing[l] = "hook" /\ UNCHANGED <<rows, clock, quiet, longest>>
        /\ \/ doing' = [doing EXCEPT ![l] = "error"] /\ stamp' = [stamp EXCEPT ![l] = clock]
           \/ doing' = [doing EXCEPT ![l] = "poll"] /\ stamp' = stamp
    BY <1>2 DEF StampError, ListensOn
  <2>2. GapTypeOK'
    BY <2>1 DEF GapInv, GapTypeOK, Working
  <2>3. \A m \in Listens : doing'[m] = "device" <=> doing[m] = "device"
    BY <2>1 DEF GapInv, GapTypeOK
  <2>4. \A m \in Listens : doing[m] = "device" => stamp'[m] = stamp[m]
    BY <2>1 DEF GapInv, GapTypeOK
  <2>5. Stamped' = Stamped /\ \A i \in Stamped : Stamp(i)' = Stamp(i)
    BY <2>1 DEF Stamped, Stamp
  <2>6. Heard' = Heard
    BY <2>3, <2>4, <2>5 DEF Heard
  <2> QED
    BY <2>1, <2>2, <2>6, HeardSame
<1> QED
  BY <1>1, <1>2, StampKeeps, EnqueueKeeps DEF GapNext

LEMMA GapStutters ==
  ASSUME GapInv, UNCHANGED gapVars
  PROVE  GapInv'
BY DEF GapInv, GapTypeOK, Heard, Adjacent, Stamped, Stamp, gapVars

\* However the threads of listens store their rows, the greatest step between
\* stamps is the longest silence so far.
THEOREM GapInvariant == SessionSpec => []GapInv
<1>1. SessionInit => GapInv
  <2> SUFFICES ASSUME SessionInit PROVE GapInv
    OBVIOUS
  <2>1. /\ doing = [l \in Listens |-> "poll"] /\ stamp = [l \in Listens |-> 0]
        /\ rows = <<>> /\ clock = 0 /\ quiet = -1 /\ longest = 0
    BY DEF SessionInit, GapInit
  <2>2. Heard = {}
    BY <2>1 DEF Heard, Stamped
  <2>3. GapTypeOK
    BY <2>1, GapAssumption, EmptySeq DEF GapTypeOK, Working
  <2> QED
    BY <2>1, <2>2, <2>3 DEF GapInv
<1>2. GapInv /\ [SessionNext]_sessionVars => GapInv'
  BY GapStep, GapStutters DEF SessionNext, sessionVars, notHttp, notCache, notFiles, notHosts,
     notReceive
<1> QED
  BY <1>1, <1>2, PTL DEF SessionSpec

\* _max_gap_s: whatever order the threads of several listens store their rows
\* in, max_gap_s is the longest time no client heard a message.
THEOREM GapsAreSilences == SessionSpec => []GapIsLongestSilence
<1>1. GapInv => GapIsLongestSilence
  <2> SUFFICES ASSUME GapInv, \A l \in Listens : doing[l] # "device"
               PROVE  MaxGap = longest
    BY DEF GapIsLongestSilence
  <2> DEFINE next == {p \in Stamped \X Stamped :
                        /\ Stamp(p[1]) <= Stamp(p[2])
                        /\ \A i \in Stamped : ~(Stamp(p[1]) < Stamp(i) /\ Stamp(i) < Stamp(p[2]))}
  <2> DEFINE steps == {0} \cup {Stamp(p[2]) - Stamp(p[1]) : p \in next}
  <2>1. Heard = {Stamp(i) : i \in Stamped}
    BY DEF Heard
  <2>2. \A p \in next : p[1] \in Stamped /\ p[2] \in Stamped /\ Adjacent(Heard, Stamp(p[1]), Stamp(p[2]))
    BY <2>1 DEF Adjacent
  <2>3. \A a, b \in Heard : Adjacent(Heard, a, b) => b - a \in steps
    <3> SUFFICES ASSUME NEW a \in Heard, NEW b \in Heard, Adjacent(Heard, a, b)
                 PROVE  b - a \in steps
      OBVIOUS
    <3>1. PICK i \in Stamped, j \in Stamped : a = Stamp(i) /\ b = Stamp(j)
      BY <2>1
    <3>2. <<i, j>> \in next
      BY <2>1, <3>1 DEF Adjacent
    <3> QED
      BY <3>1, <3>2
  <2>4. Heard \subseteq Nat /\ longest \in Nat
    BY HeardTypes DEF GapInv, GapTypeOK
  <2>5. \A d \in steps : d \in Int /\ d <= longest
    <3> SUFFICES ASSUME NEW d \in steps
                 PROVE  d \in Int /\ d <= longest
      OBVIOUS
    <3>1. CASE d = 0
      BY <2>4, <3>1
    <3>2. CASE d # 0
      <4>1. PICK p \in next : d = Stamp(p[2]) - Stamp(p[1])
        BY <3>2
      <4>2. Stamp(p[1]) \in Heard /\ Stamp(p[2]) \in Heard
        BY <2>1, <2>2
      <4>3. Adjacent(Heard, Stamp(p[1]), Stamp(p[2]))
        BY <2>2
      <4> HIDE DEF next, steps
      <4>4. Stamp(p[2]) - Stamp(p[1]) <= longest
        BY <4>2, <4>3 DEF GapInv
      <4> QED
        BY <2>4, <4>1, <4>2, <4>4
    <3> QED
      BY <3>1, <3>2
  <2>6. longest \in steps
    BY <2>3, <2>4 DEF GapInv
  <2>7. MaxGap = CHOOSE d \in steps : \A e \in steps : d >= e
    BY DEF MaxGap, GreatestStep, Max
  <2> HIDE DEF steps
  <2> QED
    <3>1. \A d \in steps : (\A e \in steps : d >= e) <=> d = longest
      BY <2>4, <2>5, <2>6
    <3> QED
      BY <2>6, <2>7, <3>1
<1> QED
  BY <1>1, GapInvariant, PTL

-----------------------------------------------------------------------------
(* The types, with what they rest on: an idle request has nothing left of    *)
(* the last one, and a connection whose close raised was closed.             *)

HttpTypes ==
  /\ jar \in [Origins -> SUBSET Names] /\ requests \in 0..MaxRequests
  /\ asked = Idle => sent = Idle /\ visited = {}
  /\ asked # Idle =>
       /\ sent.method \in Methods /\ DOMAIN sent.cookies \subseteq Names
       /\ at \in Origins /\ visited \subseteq Origins /\ redirects \in 0..MaxRedirects
       /\ \A n \in DOMAIN sent.cookies : sent.cookies[n] \in Origins \cup {User}

\* A connection whose close raised is closed for good, so that no failed
\* attempt and no other close takes it away.
TriesInv ==
  /\ retries \in 0..MaxRetries /\ attempt \in [Threads -> 0..Attempts]
  /\ contended \subseteq Keys
  /\ \A c \in stuck : c \in open /\ closes[c] # 0

LEMMA HttpTypesStep ==
  ASSUME HttpInv, HttpTypes, HttpNext
  PROVE  HttpTypes'
<1>1. ASSUME NEW cookies, DOMAIN cookies \subseteq Names, NEW jars \in [Origins -> SUBSET Names],
             NEW origin \in Origins,
             \A n \in DOMAIN cookies : cookies[n] \in Origins \cup {User}
      PROVE  LET header == WithCookies(jars, origin, cookies) IN
             /\ DOMAIN header \subseteq Names
             /\ \A n \in DOMAIN header : header[n] \in Origins \cup {User}
  <2>1. DOMAIN WithCookies(jars, origin, cookies) \subseteq Names
    BY <1>1 DEF WithCookies
  <2> QED
    BY <1>1, <2>1, CookiesOf
<1>2. ASSUME NEW set \in SUBSET Names, at \in Origins
      PROVE  Stored(set) \in [Origins -> SUBSET Names]
  BY <1>2 DEF Stored, HttpTypes
<1>3. ASSUME NEW origin \in Origins, NEW method \in Methods, NEW own \in SUBSET Names,
             NEW body \in BOOLEAN, NEW auth \in BOOLEAN, NEW framing \in BOOLEAN,
             Request(origin, method, body, auth, framing, own)
      PROVE  HttpTypes'
  <2> DEFINE users == [n \in own |-> User]
  <2>1. /\ jar' = jar /\ at' = origin /\ visited' = {origin} /\ redirects' = 0
        /\ requests < MaxRequests /\ requests' = requests + 1
        /\ asked'.method = method /\ sent'.method = method
        /\ sent'.cookies = WithCookies(jar, origin, users)
    BY <1>3 DEF Request
  <2>2. DOMAIN users = own /\ \A n \in DOMAIN users : users[n] = User
    OBVIOUS
  <2> HIDE DEF users
  <2>3. jar \in [Origins -> SUBSET Names]
    BY DEF HttpTypes
  <2>4. /\ DOMAIN sent'.cookies \subseteq Names
        /\ \A n \in DOMAIN sent'.cookies : sent'.cookies[n] \in Origins \cup {User}
    BY <1>1, <2>1, <2>2, <2>3
  <2>5. asked' # Idle
    BY <2>1 DEF Idle, Methods
  <2> QED
    BY <2>1, <2>4, <2>5, RedirectsAssumption DEF HttpTypes
<1>4. ASSUME NEW set \in SUBSET Names, NEW see \in BOOLEAN, NEW next, Redirect(see, next, set)
      PROVE  HttpTypes'
  <2> DEFINE toGet == see /\ sent.method \notin {"GET", "HEAD"}
  <2>1. /\ asked # Idle /\ redirects < MaxRedirects /\ next \in Origins
        /\ redirects' = redirects + 1 /\ jar' = Stored(set)
        /\ sent' = Onward(toGet, next, jar') /\ at' = next /\ visited' = visited \cup {next}
        /\ UNCHANGED <<asked, requests>>
    BY <1>4 DEF Redirect
  <2>2. toGet \in BOOLEAN
    OBVIOUS
  <2> HIDE DEF toGet
  <2>3. /\ sent'.method \in Methods
        /\ sent'.cookies = WithCookies(jar', next, CookiesKept(next))
    BY <2>1, <2>2, OnwardFields DEF HttpTypes, Methods
  <2>4. jar' \in [Origins -> SUBSET Names]
    BY <1>2, <2>1 DEF HttpTypes
  <2>5. /\ DOMAIN CookiesKept(next) \subseteq Names
        /\ \A n \in DOMAIN CookiesKept(next) : CookiesKept(next)[n] \in Origins \cup {User}
    BY <2>1 DEF HttpTypes, CookiesKept, NoCookies
  <2>6. /\ DOMAIN sent'.cookies \subseteq Names
        /\ \A n \in DOMAIN sent'.cookies : sent'.cookies[n] \in Origins \cup {User}
    BY <1>1, <2>1, <2>3, <2>4, <2>5
  <2> QED
    BY <2>1, <2>3, <2>4, <2>6, RedirectsAssumption DEF HttpTypes
<1>5. ASSUME End, jar' \in [Origins -> SUBSET Names]
      PROVE  HttpTypes'
  BY <1>5 DEF End, HttpTypes
<1>6. CASE Call
  BY <1>3, <1>6 DEF Call
<1>7. CASE ExchangeFails
  BY <1>5, <1>7 DEF ExchangeFails, HttpTypes
<1>8. CASE Answer
  <2>1. PICK set \in SUBSET Names, flag \in BOOLEAN :
          \/ Return(flag, set)
          \/ \E next \in Origins \cup {User} : Redirect(flag, next, set) \/ Refuse(next, set)
    BY <1>8 DEF Answer
  <2>2. Return(flag, set) \/ (\E next \in Origins \cup {User} : Refuse(next, set))
          => End /\ jar' \in [Origins -> SUBSET Names]
    BY <1>2 DEF Return, Refuse, HttpTypes
  <2> QED
    BY <1>4, <1>5, <2>1, <2>2
<1> QED
  BY <1>6, <1>7, <1>8 DEF HttpNext

LEMMA TriesStep ==
  ASSUME CacheInv, TriesInv, CacheNext
  PROVE  TriesInv'
<1>1. UNCHANGED retries
  BY DEF CacheNext, Get, Pop, Found, Fetch, Missing, Store, Connect, Handshake, HostKey, Auth,
         Proceed, AttemptFails, CloseAll, Close, AllClosed
<1>2. Attempts' = Attempts /\ Attempts \in Nat \ {0}
  BY <1>1, CacheAssumption DEF Attempts, TriesInv
<1>3. ASSUME attempt' \in [Threads -> 0..Attempts], contended' \subseteq Keys,
             \A c \in stuck' : c \in open' /\ closes'[c] # 0
      PROVE  TriesInv'
  BY <1>1, <1>2, <1>3 DEF TriesInv
<1>4. ASSUME NEW t \in Threads,
             \/ \E k \in Keys : Get(t, k) \/ Pop(t, k)
             \/ Found(t) \/ Handshake(t) \/ HostKey(t) \/ Auth(t) \/ CloseAll(t)
      PROVE  TriesInv'
  BY <1>3, <1>4 DEF TriesInv, Get, Pop, Found, Handshake, HostKey, Auth, Proceed, CloseAll
<1>5. ASSUME NEW t \in Threads, Fetch(t) \/ Store(t) \/ AllClosed(t)
      PROVE  TriesInv'
  <2>1. /\ attempt' = [attempt EXCEPT ![t] = 0]
        /\ UNCHANGED <<contended, stuck, open, closes>>
    BY <1>5 DEF Fetch, Store, AllClosed, Leave
  <2> QED
    BY <1>2, <1>3, <2>1 DEF TriesInv
<1>6. ASSUME NEW t \in Threads, Missing(t)
      PROVE  TriesInv'
  <2>1. /\ attempt' = [attempt EXCEPT ![t] = 1]
        /\ contended' \subseteq contended \cup {key[t]} /\ key[t] \in Keys
        /\ UNCHANGED <<stuck, open, closes>>
    BY <1>6 DEF Missing, At, CacheInv, LocalsOK, Keyed
  <2> QED
    BY <1>2, <1>3, <2>1 DEF TriesInv
<1>7. ASSUME NEW t \in Threads, Connect(t)
      PROVE  TriesInv'
  BY <1>3, <1>7 DEF TriesInv, Connect
<1>8. ASSUME NEW t \in Threads, NEW transient \in BOOLEAN, AttemptFails(t, transient)
      PROVE  TriesInv'
  <2>1. /\ UNCHANGED <<contended, stuck, closes>> /\ open' = open \ {conn[t]}
        /\ \/ attempt' = [attempt EXCEPT ![t] = 0]
           \/ attempt' = [attempt EXCEPT ![t] = @ + 1] /\ attempt[t] # Attempts
    BY <1>8 DEF AttemptFails, Abandoned, Leave, LastAttempt
  <2>2. attempt' \in [Threads -> 0..Attempts]
    BY <1>2, <2>1 DEF TriesInv
  <2>3. ASSUME NEW c \in stuck
        PROVE  c # conn[t]
    <3>1. c \in open /\ closes[c] # 0 /\ c # 0
      BY DEF TriesInv, CacheInv, CacheTypeOK
    <3>2. conn[t] # 0 => closes[conn[t]] = 0
      BY DEF CacheInv, Standing
    <3> QED
      BY <3>1, <3>2
  <2> QED
    BY <1>3, <2>1, <2>2, <2>3 DEF TriesInv
<1>9. ASSUME NEW t \in Threads, Close(t)
      PROVE  TriesInv'
  <2>1. /\ UNCHANGED <<contended, attempt>> /\ closes' = [closes EXCEPT ![conn[t]] = @ + 1]
        /\ pc[t] = "close"
        /\ \/ open' = open \ {conn[t]} /\ stuck' = stuck
           \/ open' = open /\ stuck' = stuck \cup {conn[t]}
    BY <1>9 DEF Close, At
  <2>2. conn[t] \in open /\ closes[conn[t]] = 0
    BY <2>1 DEF CacheInv, LocalsOK, Standing, Holding
  <2>3. /\ conn[t] \in 1..MaxConnections /\ closes \in [1..MaxConnections -> {0, 1}]
        /\ \A c \in open : c \in 1..MaxConnections
    BY <2>2, CacheAssumption DEF CacheInv, CacheTypeOK
  <2>4. \A c \in open : closes'[c] = IF c = conn[t] THEN 1 ELSE closes[c]
    BY <2>1, <2>2, <2>3
  <2> QED
    BY <1>3, <2>1, <2>2, <2>4 DEF TriesInv
<1> QED
  BY <1>4, <1>5, <1>6, <1>7, <1>8, <1>9 DEF CacheNext

\* What the types rest on, part by part.
TypesInv == part \in Parts /\ DelayTypeOK /\ HttpTypes /\ TriesInv

\* The types, with those of what a request, an attempt and a close leave.
THEOREM TypesInvariant == SessionSpec => []TypesInv
<1>1. SessionInit => TypesInv
  <2> SUFFICES ASSUME SessionInit
               PROVE  TypesInv
    OBVIOUS
  <2>1. part \in Parts /\ HttpInit /\ CacheInit /\ DelayInit
    BY DEF SessionInit
  <2>2. HttpTypes
    BY <2>1, RedirectsAssumption DEF HttpInit, HttpTypes
  <2>3. TriesInv
    BY <2>1, CacheAssumption DEF CacheInit, TriesInv, Attempts
  <2> QED
    BY <2>1, <2>2, <2>3, DelayTypesInitial DEF TypesInv
<1>2. TypesInv /\ HttpInv /\ CacheInv /\ [SessionNext]_sessionVars => TypesInv'
  <2> SUFFICES ASSUME TypesInv, HttpInv, CacheInv, [SessionNext]_sessionVars
               PROVE  TypesInv'
    OBVIOUS
  <2>1. UNCHANGED part /\ [DelayNext]_delayVars
    BY DEF SessionNext, sessionVars, notHttp, notCache, notFiles, notHosts, notGap
  <2>2. HttpNext \/ UNCHANGED httpVars
    BY DEF SessionNext, sessionVars, notCache, notFiles, notHosts, notReceive, notGap
  <2>3. CacheNext \/ UNCHANGED cacheVars
    BY DEF SessionNext, sessionVars, notHttp, notFiles, notHosts, notReceive, notGap
  <2>4. HttpTypes'
    <3>1. CASE UNCHANGED httpVars
      BY <3>1 DEF TypesInv, HttpTypes, httpVars
    <3> QED
      BY <2>2, <3>1, HttpTypesStep DEF TypesInv
  <2>5. TriesInv'
    <3>1. CASE UNCHANGED cacheVars
      BY <3>1 DEF TypesInv, TriesInv, Attempts, cacheVars
    <3> QED
      BY <2>3, <3>1, TriesStep DEF TypesInv
  <2>6. DelayTypeOK'
    BY <2>1, TypeStep DEF TypesInv
  <2> QED
    BY <2>1, <2>4, <2>5, <2>6 DEF TypesInv
<1> QED
  BY <1>1, <1>2, HttpInvariant, CacheInvariant, PTL DEF SessionSpec

\* The types of all six parts: files stay trees on both sides, attempts stay
\* within what retries allows, a request that is over leaves nothing behind.
THEOREM SessionTypes == SessionSpec => []SessionTypeOK
<1>1. TypesInv /\ HttpInv /\ CacheInv /\ HostInv /\ GapInv /\ FilesInv => SessionTypeOK
  <2> SUFFICES ASSUME TypesInv, HttpInv, CacheInv, HostInv, GapInv, FilesInv
               PROVE  SessionTypeOK
    OBVIOUS
  <2>1. FilesTypeOK
    BY FilesTypes
  <2>2. /\ stored \in [Stores -> [HostIds -> ServerKeys \cup {Unseen}]]
        /\ doing \in [Listens -> {"poll", "device", "hook", "error"}] /\ clock \in 0..MaxClock
    BY DEF HostInv, GapInv, GapTypeOK, Working
  <2>3. /\ jar \in [Origins -> SUBSET Names] /\ requests \in 0..MaxRequests
        /\ asked = Idle <=> sent = Idle /\ visited = {}
    BY DEF TypesInv, HttpTypes, HttpInv
  <2>4. asked # Idle =>
          /\ sent.method \in Methods /\ {sent.body, sent.auth, sent.framing} \subseteq BOOLEAN
          /\ DOMAIN sent.cookies \subseteq Names /\ at \in visited /\ visited \subseteq Origins
          /\ \A n \in DOMAIN sent.cookies : sent.cookies[n] \in Origins \cup {User}
          /\ redirects \in 0..MaxRedirects
    BY DEF TypesInv, HttpTypes, HttpInv
  <2>5. /\ retries \in 0..MaxRetries /\ made \in 0..MaxConnections
        /\ pc \in [Threads -> {"idle", "look", "fetch", "closing", "close"} \cup Loading]
        /\ key \in [Threads -> Keys \cup {NoKey}] /\ attempt \in [Threads -> 0..Attempts]
        /\ conn \in [Threads -> 0..made] /\ todo \in [Threads -> SUBSET Keys]
        /\ cache \in [Keys -> 0..made] /\ open \subseteq 1..made /\ stuck \subseteq open
        /\ contended \subseteq Keys
    BY CacheAssumption DEF TypesInv, TriesInv, CacheInv, CacheTypeOK
  <2> QED
    BY <2>1, <2>2, <2>3, <2>4, <2>5 DEF SessionTypeOK, TypesInv
<1> QED
  BY <1>1, TypesInvariant, HttpInvariant, CacheInvariant, HostInvariant, GapInvariant,
     FilesInvariant, PTL
=============================================================================
