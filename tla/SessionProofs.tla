---------------------------- MODULE SessionProofs ----------------------------
(***************************************************************************)
(* Machine-checked proofs about Session, for any number of callers,        *)
(* Clients, identifiers, keys and requests under way.                      *)
(***************************************************************************)
EXTENDS Session, TLAPS

-----------------------------------------------------------------------------
(* The inductive invariant. *)

NonceRequest == [op : {"nonce"}, id : Identities, step : {"arrived", "known"}]
Signature == [key : Keys, nonce : Nat]
AuthRequest == [op : {"auth"}, id : Identities, step : {"arrived", "key", "verified"},
                key : Keys \cup {None}, signature : Signature]
ServiceRequest == [op : {"service"}, token : sessions]
Grant == [id : Identities, key : Keys, nonce : Nat]

TypeInv ==
    /\ keys \in [Identities -> Keys \cup {None}]
    /\ nonces \in [Identities -> Nat \cup {None}]
    /\ drawn \in Nat /\ sessions \subseteq Nat /\ replaced \subseteq Nat
    /\ granted \in [sessions -> Grant]
    /\ credential \in [Handles -> sessions \cup {None}]
    /\ pc \in [Callers -> {"idle", "nonce", "auth", "use"}]
    /\ request \in [Channels -> {None} \cup NonceRequest \cup AuthRequest \cup ServiceRequest]
    /\ reply = [c \in Callers |-> reply[c]] /\ outcome = [c \in Callers |-> outcome[c]]

\* A nonce is in one place at a time: waiting for its identifier, held by a
\* handler that has verified its signature, replaced, or granted a session.
Held(k) == request[k] # None /\ request[k] \in AuthRequest /\ request[k].step = "verified"
HeldNonce(k) == request[k].signature.nonce
Spent(n) == n \in replaced \/ \E t \in sessions : granted[t].nonce = n

FreshInv ==
    /\ \A id \in Identities : nonces[id] # None => nonces[id] <= drawn
    /\ \A k \in Channels : Held(k) => HeldNonce(k) <= drawn
    /\ \A n \in replaced : n <= drawn
    /\ \A t \in sessions : t <= drawn /\ granted[t].nonce <= drawn

NonceInv ==
    /\ \A id \in Identities : nonces[id] # None =>
          /\ ~Spent(nonces[id])
          /\ \A k \in Channels : Held(k) => HeldNonce(k) # nonces[id]
    /\ \A i, j \in Identities : i # j /\ nonces[i] # None => nonces[i] # nonces[j]
    /\ \A k \in Channels : Held(k) => request[k].key = request[k].signature.key /\ ~Spent(HeldNonce(k))
    /\ \A k, l \in Channels : k # l /\ Held(k) /\ Held(l) => HeldNonce(k) # HeldNonce(l)

\* What a caller waits for: each answer belongs to the request it has sent.
OwnToken(c, t) ==
    t \in sessions /\ granted[t].id = IdOf(c) /\ granted[t].key = KeyOf(c)
Failures == [status : {"refused", "failed"}]

Waits(c) ==
    /\ pc[c] = "idle" => request[c] = None
    /\ request[c] = None \/ reply[c] = None
    /\ pc[c] = "nonce" =>
          /\ request[c] \in {None} \cup NonceRequest
          /\ request[c] # None => request[c].id = IdOf(c)
          /\ reply[c] \in {None} \cup Failures \cup [status : {"ok"}, nonce : Nat]
    /\ pc[c] = "auth" =>
          /\ request[c] \in {None} \cup AuthRequest
          /\ request[c] # None => request[c].id = IdOf(c) /\ request[c].signature.key = KeyOf(c)
          /\ \/ reply[c] \in {None} \cup Failures
             \/ \E form \in CookieForms, t \in sessions :
                   OwnToken(c, t) /\ reply[c] = [status |-> "ok", cookies |-> Headers(form, t)]
    /\ pc[c] = "use" =>
          /\ request[c] \in {None} \cup ServiceRequest
          /\ reply[c] \in {None} \cup [status : {"ok", "failed"}]
WaitInv == \A c \in Callers : Waits(c)

\* An authentication nothing has interfered with is alone with its identifier
\* and its nonce is the outstanding one, or it has got through.
Unrivalled(c) ==
    /\ keys[IdOf(c)] = KeyOf(c)
    /\ \A d \in Callers \ {c} : Authenticating(d) => IdOf(d) # IdOf(c)
    /\ \A s \in Strays : request[s] # None /\ request[s].op # "service" => request[s].id # IdOf(c)
OnCourse(c) ==
    /\ reply[c] # None => reply[c].status # "refused"
    /\ pc[c] = "nonce" /\ reply[c] # None /\ reply[c].status = "ok" =>
          nonces[IdOf(c)] = reply[c].nonce
    /\ pc[c] = "auth" /\ request[c] # None /\ request[c].step # "verified" =>
          /\ nonces[IdOf(c)] = request[c].signature.nonce
          /\ request[c].step = "key" => request[c].key = KeyOf(c)

Calm(c) == Authenticating(c) /\ c \notin disturbed
CalmInv == \A c \in Callers : Calm(c) => Unrivalled(c) /\ OnCourse(c)

IInv ==
    /\ TypeInv /\ FreshInv /\ NonceInv /\ NoncesAreGoodOnce
    /\ WaitInv /\ CredentialsAreOwnSessions /\ CredentialsStayGood
    /\ CalmInv /\ RefusedForAReason

-----------------------------------------------------------------------------
(* What the invariant says about one request, and about one caller. *)

LEMMA CallersAreKnown ==
    ASSUME NEW c \in Callers
    PROVE  /\ c \in Channels /\ HandleOf[c] \in Handles
           /\ IdOf(c) \in Identities /\ KeyOf(c) \in Keys /\ KeyOf(c) # None
  BY SessionAssumption DEF SessionAssumption, Channels, IdOf, KeyOf

LEMMA RequestKinds ==
    ASSUME TypeInv, NEW k \in Channels, request[k] # None
    PROVE  /\ request[k].op = "nonce" => request[k] \in NonceRequest
           /\ request[k].op = "auth" => request[k] \in AuthRequest
           /\ request[k].op = "service" => request[k] \in ServiceRequest
           /\ request[k].op \in {"nonce", "auth", "service"}
  BY DEF TypeInv, NonceRequest, AuthRequest, ServiceRequest

\* A caller that waits for the device is authenticating if its request is part
\* of an authentication.
LEMMA RequestsOfCallers ==
    ASSUME TypeInv, WaitInv, NEW c \in Callers, request[c] # None, request[c].op # "service"
    PROVE  /\ Authenticating(c) /\ request[c].id = IdOf(c)
           /\ request[c].op = "nonce" => pc[c] = "nonce"
           /\ request[c].op = "auth" => pc[c] = "auth"
<1>1. Waits(c) /\ pc[c] \in {"idle", "nonce", "auth", "use"}
  BY DEF WaitInv, TypeInv
<1>2. pc[c] # "idle"
  BY <1>1 DEF Waits
<1>3. pc[c] # "use"
  BY <1>1 DEF Waits, ServiceRequest
<1>4. CASE pc[c] = "nonce"
  BY <1>1, <1>4 DEF Waits, NonceRequest, Authenticating
<1>5. CASE pc[c] = "auth"
  BY <1>1, <1>5 DEF Waits, AuthRequest, Authenticating
<1>6. QED
  BY <1>1, <1>2, <1>3, <1>4, <1>5

\* Nobody else's request touches the nonce of an authentication that nothing
\* has interfered with.
LEMMA OthersKeepAway ==
    ASSUME TypeInv, WaitInv, NEW c \in Callers, Unrivalled(c),
           NEW k \in Channels, k # c, request[k] # None, request[k].op # "service"
    PROVE  request[k].id # IdOf(c)
<1>1. CASE k \in Callers
  BY <1>1, RequestsOfCallers DEF Unrivalled
<1>2. CASE k \in Strays
  BY <1>2 DEF Unrivalled
<1>3. QED
  BY <1>1, <1>2 DEF Channels

\* The parser returns the session's token or nothing.
LEMMA ParsedIsToken ==
    ASSUME NEW form \in CookieForms, NEW t, ParseCredentialsCookie(Headers(form, t)) # None
    PROVE  ParseCredentialsCookie(Headers(form, t)) = t
<1> DEFINE headers == Headers(form, t)
<1>0. form \in Seq([name : STRING, value : Int])
  BY SessionAssumption DEF SessionAssumption
<1>1. PICK i \in DOMAIN form : form[i].name = "credentials" /\ form[i].value = 1
  BY SessionAssumption DEF SessionAssumption
<1>2. i \in DOMAIN headers /\ headers[i].name = "credentials" /\ headers[i].value = t
  BY <1>0, <1>1 DEF Headers
<1>3. t \in Offered(headers)
  BY <1>2 DEF Offered
<1>4. PICK v \in Offered(headers) : Offered(headers) = {v}
  BY DEF ParseCredentialsCookie
<1>5. Offered(headers) = {t}
  BY <1>3, <1>4
<1>6. QED
  BY <1>5 DEF ParseCredentialsCookie

-----------------------------------------------------------------------------
(* Frames: what steps of others leave alone. *)

\* The nonces keep their places while nothing is drawn, taken or granted.
LEMMA NoncesStay ==
    ASSUME FreshInv, NonceInv, NoncesAreGoodOnce,
           UNCHANGED <<nonces, sessions, drawn, granted, replaced>>,
           \A k \in Channels : Held(k)' => Held(k) /\ request'[k] = request[k]
    PROVE  FreshInv' /\ NonceInv' /\ NoncesAreGoodOnce'
<1>1. \A n : Spent(n)' <=> Spent(n)
  BY DEF Spent
<1>2. \A k \in Channels : Held(k)' => HeldNonce(k)' = HeldNonce(k)
  BY DEF HeldNonce
<1>3. FreshInv'
  BY <1>2 DEF FreshInv
<1>4. NonceInv'
  BY <1>1, <1>2 DEF NonceInv
<1>5. QED
  BY <1>3, <1>4 DEF NoncesAreGoodOnce

LEMMA WaitsStay ==
    ASSUME NEW c \in Callers, Waits(c),
           sessions \subseteq sessions', \A t \in sessions : granted'[t] = granted[t],
           pc'[c] = pc[c], request'[c] = request[c], reply'[c] = reply[c]
    PROVE  Waits(c)'
<1>1. \A t : OwnToken(c, t) => OwnToken(c, t)'
  BY DEF OwnToken
<1>2. request[c] \in ServiceRequest => request'[c] \in ServiceRequest'
  BY DEF ServiceRequest
<1>3. CASE pc[c] = "auth"
  BY <1>1, <1>3 DEF Waits
<1>4. CASE pc[c] # "auth"
  BY <1>2, <1>4 DEF Waits
<1>5. QED
  BY <1>3, <1>4

LEMMA CourseStays ==
    ASSUME NEW c \in Callers, Unrivalled(c), OnCourse(c),
           keys'[IdOf(c)] = keys[IdOf(c)], nonces'[IdOf(c)] = nonces[IdOf(c)],
           \A d \in Callers \ {c} : Authenticating(d)' => Authenticating(d) \/ IdOf(d) # IdOf(c),
           \A s \in Strays : request'[s] # None /\ request'[s].op # "service" =>
                \/ request'[s].id # IdOf(c)
                \/ request[s] # None /\ request[s].op # "service" /\ request'[s].id = request[s].id,
           pc'[c] = pc[c], request'[c] = request[c], reply'[c] = reply[c]
    PROVE  Unrivalled(c)' /\ OnCourse(c)'
  BY DEF Unrivalled, OnCourse

\* A handler runs: the callers whose request it does not serve notice nothing.
LEMMA HandlersKeepAway ==
    ASSUME IInv, NEW k \in Channels, request[k] # None, NEW v, NEW r,
           request' = [request EXCEPT ![k] = v],
           reply' = [c \in Callers |-> IF c = k THEN r ELSE reply[c]],
           v = None \/ (request[k].op # "service" /\ v.op = request[k].op /\ v.id = request[k].id),
           UNCHANGED <<keys, callerVars>>,
           sessions \subseteq sessions', \A t \in sessions : granted'[t] = granted[t],
           \A id \in Identities : \/ nonces'[id] = nonces[id]
                                  \/ request[k].op # "service" /\ id = request[k].id
    PROVE  /\ \A c \in Callers : c # k => Waits(c)'
           /\ \A c \in Callers : c # k /\ Calm(c) => Unrivalled(c)' /\ OnCourse(c)'
           /\ k \in Callers /\ Calm(k) => Unrivalled(k)'
           /\ CredentialsAreOwnSessions' /\ CredentialsStayGood' /\ RefusedForAReason'
<1> USE DEF callerVars
<1>1. request \in [Channels -> {None} \cup NonceRequest \cup AuthRequest \cup ServiceRequest]
  BY DEF IInv, TypeInv
<1>2. \A c \in Channels : c # k => request'[c] = request[c]
  BY <1>1
<1>3. ASSUME NEW c \in Callers, c # k PROVE Waits(c)'
  BY <1>2, <1>3, WaitsStay, CallersAreKnown DEF IInv, WaitInv
<1>4. \A c \in Callers : Authenticating(c)' = Authenticating(c)
  BY DEF Authenticating
<1>5. ASSUME NEW s \in Strays, request'[s] # None, request'[s].op # "service"
      PROVE  request[s] # None /\ request[s].op # "service" /\ request'[s].id = request[s].id
  BY <1>1, <1>2, <1>5 DEF Channels
<1>6. ASSUME NEW c \in Callers, c # k, Calm(c) PROVE Unrivalled(c)' /\ OnCourse(c)'
  <2>1. Unrivalled(c) /\ OnCourse(c)
    BY <1>6 DEF IInv, CalmInv
  <2>2. IdOf(c) \in Identities /\ c \in Channels
    BY CallersAreKnown
  <2>3. request[k].op # "service" => request[k].id # IdOf(c)
    BY <1>6, <2>1, OthersKeepAway DEF IInv
  <2>4. nonces'[IdOf(c)] = nonces[IdOf(c)]
    BY <2>2, <2>3
  <2>5. QED
    BY <1>2, <1>4, <1>5, <1>6, <2>1, <2>2, <2>4, CourseStays
<1>7. ASSUME k \in Callers, Calm(k) PROVE Unrivalled(k)'
  <2>1. Unrivalled(k)
    BY <1>7 DEF IInv, CalmInv
  <2>2. QED
    BY <1>4, <1>5, <2>1 DEF Unrivalled
<1>8. CredentialsAreOwnSessions'
  BY DEF IInv, TypeInv, CredentialsAreOwnSessions
<1>9. CredentialsStayGood' /\ RefusedForAReason'
  BY DEF IInv, CredentialsStayGood, RefusedForAReason
<1>10. QED
  BY <1>3, <1>6, <1>7, <1>8, <1>9

-----------------------------------------------------------------------------
(* The handlers. *)

\* serveNonce finds the client registered, or refuses.
LEMMA LookUpClientKeeps ==
    ASSUME IInv, NEW k \in Channels, request[k] # None, LookUpClient(k), UNCHANGED callerVars
    PROVE  IInv'
<1> DEFINE q == request[k]
           known == keys[q.id] # None
           v == IF known THEN NonceFor(q.id, "known") ELSE None
           r == IF known THEN reply[k] ELSE Refused
<1> USE DEF deviceVars, callerVars
<1>1. q \in NonceRequest
  BY RequestKinds DEF IInv, LookUpClient
<1>2. reply = [c \in Callers |-> reply[c]]
  BY DEF IInv, TypeInv
<1>3. /\ request' = [request EXCEPT ![k] = v]
      /\ reply' = [c \in Callers |-> IF c = k THEN r ELSE reply[c]]
      /\ UNCHANGED <<deviceVars, callerVars>>
  BY <1>2 DEF LookUpClient, Answer, HandlerAt
<1>4. v = None \/ (v \in NonceRequest /\ v.op = q.op /\ v.id = q.id)
  <2>1. NonceFor(q.id, "known") \in NonceRequest
    BY <1>1 DEF NonceRequest, NonceFor
  <2>2. q.op = "nonce" /\ NonceFor(q.id, "known").op = "nonce" /\ NonceFor(q.id, "known").id = q.id
    BY <1>1 DEF NonceRequest, NonceFor
  <2>3. CASE known
    BY <2>1, <2>2, <2>3
  <2>4. CASE ~known
    BY <2>4
  <2>5. QED
    BY <2>3, <2>4
<1>5. q.op = "nonce"
  BY <1>1 DEF NonceRequest
<1>6. TypeInv'
  BY <1>3, <1>4 DEF IInv, TypeInv, ServiceRequest
<1>7. FreshInv' /\ NonceInv' /\ NoncesAreGoodOnce'
  <2>1. \A l \in Channels : Held(l)' => Held(l) /\ request'[l] = request[l]
    BY <1>3, <1>4 DEF IInv, TypeInv, Held, NonceRequest, AuthRequest
  <2>2. QED
    BY <1>3, <2>1, NoncesStay DEF IInv
<1>8. /\ \A c \in Callers : c # k => Waits(c)'
      /\ \A c \in Callers : c # k /\ Calm(c) => Unrivalled(c)' /\ OnCourse(c)'
      /\ k \in Callers /\ Calm(k) => Unrivalled(k)'
      /\ CredentialsAreOwnSessions' /\ CredentialsStayGood' /\ RefusedForAReason'
  BY <1>3, <1>4, <1>5, HandlersKeepAway
<1>9. ASSUME k \in Callers
      PROVE  Waits(k)' /\ (Calm(k) => OnCourse(k)')
  <2>1. pc[k] = "nonce" /\ q.id = IdOf(k) /\ Waits(k)
    BY <1>5, <1>9, RequestsOfCallers DEF IInv, WaitInv
  <2>2. request'[k] = v /\ reply'[k] = r /\ pc'[k] = "nonce"
    BY <1>3, <1>9, <2>1 DEF IInv, TypeInv
  <2>3. reply[k] \in {None}
    BY <2>1 DEF Waits
  <2>4. Waits(k)'
    BY <1>1, <1>3, <1>4, <2>1, <2>2, <2>3 DEF Waits, Refused, Failures
  <2>5. ASSUME Calm(k) PROVE known
    BY <1>9, <2>1, <2>5, CallersAreKnown DEF IInv, CalmInv, Unrivalled
  <2>6. Calm(k) => OnCourse(k)'
    BY <2>2, <2>3, <2>5 DEF OnCourse
  <2>7. QED
    BY <2>4, <2>6
<1>10. \A c \in Callers : Calm(c)' => Calm(c)
  BY DEF Calm, Authenticating
<1>11. WaitInv' /\ CalmInv'
  BY <1>8, <1>9, <1>10 DEF WaitInv, CalmInv
<1>12. QED
  BY <1>6, <1>7, <1>8, <1>11 DEF IInv

\* serveNonce stores a fresh nonce: the one before is replaced.
LEMMA IssueNonceKeeps ==
    ASSUME IInv, NEW k \in Channels, request[k] # None, IssueNonce(k), UNCHANGED callerVars
    PROVE  IInv'
<1> DEFINE q == request[k]
           n == drawn + 1
           r == [status |-> "ok", nonce |-> n]
<1> USE DEF deviceVars, callerVars, NonceSlot
<1>1. q \in NonceRequest /\ q.op = "nonce" /\ q.id \in Identities
  BY RequestKinds DEF IInv, IssueNonce, NonceRequest
<1>2. /\ request' = [request EXCEPT ![k] = None]
      /\ reply' = [c \in Callers |-> IF c = k THEN r ELSE reply[c]]
      /\ nonces' = [nonces EXCEPT ![q.id] = n] /\ drawn' = n
      /\ replaced' = replaced \cup ({nonces[q.id]} \ {None})
      /\ UNCHANGED <<keys, sessions, granted>>
  BY DEF IssueNonce, Answer
<1>3. TypeInv'
  BY <1>1, <1>2 DEF IInv, TypeInv, ServiceRequest
<1>4. /\ \A l \in Channels : Held(l)' => Held(l) /\ request'[l] = request[l]
      /\ n \in Nat /\ n > drawn /\ n # None
  <2>1. \A l \in Channels : Held(l)' => Held(l) /\ request'[l] = request[l]
    BY <1>2 DEF IInv, TypeInv, Held
  <2>2. n \in Nat /\ n > drawn
    BY DEF IInv, TypeInv
  <2>3. None \notin Int
    BY SessionAssumption DEF SessionAssumption
  <2>4. QED
    BY <2>1, <2>2, <2>3
<1>5. FreshInv'
  BY <1>1, <1>2, <1>4 DEF IInv, TypeInv, FreshInv, HeldNonce, Held, AuthRequest, Signature, Grant
<1>6. NonceInv'
  <2>1. \A m : Spent(m)' <=> Spent(m) \/ (m = nonces[q.id] /\ m # None)
    <3>1. \A m : m \in replaced' <=> m \in replaced \/ (m = nonces[q.id] /\ m # None)
      BY <1>2
    <3>2. QED
      BY <1>2, <3>1 DEF Spent
  <2>2. ~Spent(n) /\ \A id \in Identities : nonces[id] # n
    BY <1>4 DEF IInv, TypeInv, FreshInv, Spent, Grant
  <2>3. n # nonces[q.id] /\ \A l \in Channels : Held(l) => HeldNonce(l) # n /\ HeldNonce(l)' = HeldNonce(l)
    <3>1. \A l \in Channels : Held(l) => HeldNonce(l) \in Nat /\ HeldNonce(l) <= drawn
      BY DEF IInv, FreshInv, HeldNonce, Held, AuthRequest, Signature
    <3>2. \A l \in Channels : Held(l) => HeldNonce(l) # n
      BY <1>4, <3>1 DEF IInv, TypeInv
    <3>3. \A l \in Channels : Held(l) => l # k
      BY <1>1 DEF Held, AuthRequest
    <3>4. \A l \in Channels : l # k => request'[l] = request[l]
      BY <1>2 DEF IInv, TypeInv
    <3>5. QED
      BY <1>1, <2>2, <3>2, <3>3, <3>4 DEF HeldNonce
  <2>4. QED
    BY <1>1, <1>2, <1>4, <2>1, <2>2, <2>3 DEF IInv, TypeInv, NonceInv, Held, HeldNonce
<1>7. NoncesAreGoodOnce'
  <2>1. \A t \in sessions : nonces[q.id] # None => granted[t].nonce # nonces[q.id]
    BY <1>1 DEF IInv, NonceInv, Spent
  <2>2. QED
    BY <1>2, <2>1 DEF IInv, TypeInv, NoncesAreGoodOnce
<1>8. /\ \A c \in Callers : c # k => Waits(c)'
      /\ \A c \in Callers : c # k /\ Calm(c) => Unrivalled(c)' /\ OnCourse(c)'
      /\ k \in Callers /\ Calm(k) => Unrivalled(k)'
      /\ CredentialsAreOwnSessions' /\ CredentialsStayGood' /\ RefusedForAReason'
  <2>1. \A id \in Identities : nonces'[id] = nonces[id] \/ (q.op # "service" /\ id = q.id)
    BY <1>1, <1>2 DEF IInv, TypeInv
  <2> DEFINE v == None
  <2>2. /\ request' = [request EXCEPT ![k] = v] /\ v = None
        /\ reply' = [c \in Callers |-> IF c = k THEN r ELSE reply[c]]
        /\ UNCHANGED <<keys, callerVars>> /\ sessions' = sessions /\ granted' = granted
    BY <1>2
  <2> HIDE DEF r, v
  <2>3. QED
    BY <2>1, <2>2, HandlersKeepAway
<1>9. ASSUME k \in Callers
      PROVE  Waits(k)' /\ OnCourse(k)'
  <2>1. pc[k] = "nonce" /\ q.id = IdOf(k)
    BY <1>1, <1>9, RequestsOfCallers DEF IInv
  <2>2. request'[k] = None /\ reply'[k] = r /\ pc'[k] = "nonce" /\ nonces'[IdOf(k)] = n
    BY <1>1, <1>2, <1>9, <2>1 DEF IInv, TypeInv
  <2>3. QED
    BY <1>4, <2>2 DEF Waits, OnCourse
<1>10. \A c \in Callers : Calm(c)' => Calm(c)
  BY DEF Calm, Authenticating
<1>11. WaitInv' /\ CalmInv'
  BY <1>8, <1>9, <1>10 DEF WaitInv, CalmInv
<1>12. QED
  BY <1>3, <1>5, <1>6, <1>7, <1>8, <1>11 DEF IInv

\* serveAuth reads the registered key.
LEMMA LookUpKeyKeeps ==
    ASSUME IInv, NEW k \in Channels, request[k] # None, LookUpKey(k), UNCHANGED callerVars
    PROVE  IInv'
<1> DEFINE q == request[k]
           v == AuthFor(q.id, "key", keys[q.id], q.signature)
           r == reply[k]
<1> USE DEF deviceVars, callerVars
<1>1. q \in AuthRequest /\ q.op = "auth" /\ q.step = "arrived" /\ q.id \in Identities
  BY RequestKinds DEF IInv, LookUpKey, AuthRequest
<1>2. reply = [c \in Callers |-> reply[c]]
  BY DEF IInv, TypeInv
<1>3. /\ request' = [request EXCEPT ![k] = v]
      /\ reply' = [c \in Callers |-> IF c = k THEN r ELSE reply[c]]
      /\ UNCHANGED <<deviceVars, callerVars>>
  BY <1>2 DEF LookUpKey, HandlerAt
<1>4. /\ v \in AuthRequest /\ v.op = q.op /\ v.id = q.id /\ v.step = "key"
      /\ v.key = keys[q.id] /\ v.signature = q.signature
  BY <1>1 DEF AuthRequest, IInv, TypeInv, AuthFor
<1>5. TypeInv'
  BY <1>3, <1>4 DEF IInv, TypeInv, ServiceRequest
<1>6. FreshInv' /\ NonceInv' /\ NoncesAreGoodOnce'
  <2>1. \A l \in Channels : Held(l)' => Held(l) /\ request'[l] = request[l]
    BY <1>3, <1>4 DEF IInv, TypeInv, Held
  <2>2. QED
    BY <1>3, <2>1, NoncesStay DEF IInv
<1>7. /\ \A c \in Callers : c # k => Waits(c)'
      /\ \A c \in Callers : c # k /\ Calm(c) => Unrivalled(c)' /\ OnCourse(c)'
      /\ k \in Callers /\ Calm(k) => Unrivalled(k)'
      /\ CredentialsAreOwnSessions' /\ CredentialsStayGood' /\ RefusedForAReason'
  BY <1>1, <1>3, <1>4, HandlersKeepAway
<1>8. ASSUME k \in Callers
      PROVE  Waits(k)' /\ (Calm(k) => OnCourse(k)')
  <2>1. pc[k] = "auth" /\ q.id = IdOf(k) /\ Waits(k)
    BY <1>1, <1>8, RequestsOfCallers DEF IInv, WaitInv
  <2>2. /\ request'[k] = v /\ reply'[k] = reply[k] /\ pc'[k] = "auth"
        /\ nonces'[IdOf(k)] = nonces[IdOf(k)]
    BY <1>3, <1>8, <2>1 DEF IInv, TypeInv
  <2>3. Waits(k)'
    BY <1>1, <1>3, <1>4, <2>1, <2>2 DEF Waits
  <2>4. ASSUME Calm(k) PROVE OnCourse(k)'
    <3>1. Unrivalled(k) /\ OnCourse(k)
      BY <1>8, <2>4 DEF IInv, CalmInv
    <3>2. QED
      BY <1>1, <1>4, <2>1, <2>2, <3>1 DEF Unrivalled, OnCourse
  <2>5. QED
    BY <2>3, <2>4
<1>9. \A c \in Callers : Calm(c)' => Calm(c)
  BY DEF Calm, Authenticating
<1>10. WaitInv' /\ CalmInv'
  BY <1>7, <1>8, <1>9 DEF WaitInv, CalmInv
<1>11. QED
  BY <1>5, <1>6, <1>7, <1>10 DEF IInv

\* serveAuth takes the nonce, and goes on if the signature is of this nonce.
LEMMA TakeNonceKeeps ==
    ASSUME IInv, NEW k \in Channels, request[k] # None, TakeNonce(k), UNCHANGED callerVars
    PROVE  IInv'
<1> DEFINE q == request[k]
           n == nonces[q.id]
           good == Verifies(q, n)
           verified == AuthFor(q.id, "verified", q.key, q.signature)
           v == IF good THEN verified ELSE None
           r == IF good THEN reply[k] ELSE Refused
<1> USE DEF deviceVars, callerVars, NonceSlot
<1>1. q \in AuthRequest /\ q.op = "auth" /\ q.step = "key" /\ q.id \in Identities
  BY RequestKinds DEF IInv, TakeNonce, AuthRequest
<1>2. reply = [c \in Callers |-> reply[c]]
  BY DEF IInv, TypeInv
<1>3. /\ request' = [request EXCEPT ![k] = v]
      /\ reply' = [c \in Callers |-> IF c = k THEN r ELSE reply[c]]
      /\ nonces' = [nonces EXCEPT ![q.id] = None]
      /\ UNCHANGED <<keys, sessions, drawn, granted, replaced>>
  BY <1>2 DEF TakeNonce, Answer, HandlerAt
<1>4. /\ verified \in AuthRequest /\ verified.op = q.op /\ verified.id = q.id
      /\ verified.step = "verified" /\ verified.key = q.key /\ verified.signature = q.signature
  BY <1>1 DEF AuthRequest, AuthFor
<1>5. TypeInv'
  BY <1>1, <1>3, <1>4 DEF IInv, TypeInv, ServiceRequest
<1>6. /\ \A l \in Channels : Held(l)' =>
            \/ l # k /\ Held(l) /\ HeldNonce(l)' = HeldNonce(l) /\ request'[l] = request[l]
            \/ l = k /\ good /\ HeldNonce(l)' = q.signature.nonce /\ request'[l] = verified
      /\ \A m : Spent(m)' <=> Spent(m)
      /\ \A id \in Identities : nonces'[id] = IF id = q.id THEN None ELSE nonces[id]
  BY <1>1, <1>3, <1>4 DEF IInv, TypeInv, Held, HeldNonce, Spent
<1>7. good => n # None /\ q.signature.nonce = n /\ q.signature.key = q.key
  BY DEF Verifies
<1>8. FreshInv'
  BY <1>1, <1>3, <1>6, <1>7 DEF IInv, FreshInv
<1>9. NonceInv'
  <2>1. \A id \in Identities : (nonces[id] # None =>
          /\ ~Spent(nonces[id])
          /\ \A l \in Channels : Held(l) => HeldNonce(l) # nonces[id])'
    BY <1>1, <1>6, <1>7 DEF IInv, NonceInv
  <2>2. \A l \in Channels : Held(l)' =>
            request'[l].key = request'[l].signature.key /\ (~Spent(HeldNonce(l)))'
    BY <1>1, <1>4, <1>6, <1>7 DEF IInv, NonceInv
  <2>3. \A l, m \in Channels : l # m /\ Held(l)' /\ Held(m)' => HeldNonce(l)' # HeldNonce(m)'
    BY <1>1, <1>6, <1>7 DEF IInv, NonceInv
  <2>4. \A i, j \in Identities : i # j /\ nonces'[i] # None => nonces'[i] # nonces'[j]
    BY <1>6 DEF IInv, NonceInv
  <2>5. QED
    BY <2>1, <2>2, <2>3, <2>4 DEF NonceInv
<1>10. NoncesAreGoodOnce'
  BY <1>3 DEF IInv, NoncesAreGoodOnce
<1>11. /\ \A c \in Callers : c # k => Waits(c)'
       /\ \A c \in Callers : c # k /\ Calm(c) => Unrivalled(c)' /\ OnCourse(c)'
       /\ k \in Callers /\ Calm(k) => Unrivalled(k)'
       /\ CredentialsAreOwnSessions' /\ CredentialsStayGood' /\ RefusedForAReason'
  <2>1. v = None \/ (q.op # "service" /\ v.op = q.op /\ v.id = q.id)
    BY <1>1, <1>4
  <2>2. UNCHANGED <<keys, callerVars>> /\ sessions \subseteq sessions' /\ granted' = granted
    BY <1>3
  <2>3. \A id \in Identities : nonces'[id] = nonces[id] \/ (q.op # "service" /\ id = q.id)
    BY <1>1, <1>6
  <2> HIDE DEF v, r
  <2>4. QED
    BY <1>3, <2>1, <2>2, <2>3, HandlersKeepAway
<1>12. ASSUME k \in Callers
       PROVE  Waits(k)' /\ (Calm(k) => OnCourse(k)')
  <2>1. /\ pc[k] = "auth" /\ q.id = IdOf(k) /\ q.signature.key = KeyOf(k) /\ Waits(k)
        /\ reply[k] = None
    BY <1>1, <1>12, RequestsOfCallers DEF IInv, WaitInv, Waits
  <2>2. request'[k] = v /\ reply'[k] = r /\ pc'[k] = "auth"
    BY <1>3, <1>12, <2>1 DEF IInv, TypeInv
  <2>3. CASE good
    BY <1>1, <1>4, <2>1, <2>2, <2>3 DEF Waits, OnCourse
  <2>4. CASE ~good
    <3>1. Waits(k)'
      BY <2>2, <2>4 DEF Waits, Refused, Failures
    <3>2. ASSUME Calm(k) PROVE FALSE
      <4>1. keys[IdOf(k)] = KeyOf(k) /\ n = q.signature.nonce /\ q.key = KeyOf(k)
        BY <1>1, <1>12, <2>1, <3>2 DEF IInv, CalmInv, Unrivalled, OnCourse
      <4>2. q.key # None /\ q.signature \in Signature
        BY <1>1, <1>12, <4>1, CallersAreKnown DEF AuthRequest
      <4>3. n # None /\ q.signature = [key |-> q.key, nonce |-> n]
        BY <2>1, <4>1, <4>2, SessionAssumption DEF SessionAssumption, Signature
      <4>4. QED
        BY <2>4, <4>2, <4>3 DEF Verifies
    <3>3. QED
      BY <3>1, <3>2
  <2>5. QED
    BY <2>3, <2>4
<1>13. \A c \in Callers : Calm(c)' => Calm(c)
  BY DEF Calm, Authenticating
<1>14. WaitInv' /\ CalmInv'
  BY <1>11, <1>12, <1>13 DEF WaitInv, CalmInv
<1>15. QED
  BY <1>5, <1>8, <1>9, <1>10, <1>11, <1>14 DEF IInv

\* serveAuth opens a session under a fresh token and sends it in a cookie.
LEMMA OpenSessionKeeps ==
    ASSUME IInv, NEW k \in Channels, request[k] # None, OpenSession(k), UNCHANGED callerVars
    PROVE  IInv'
<1> PICK n \in Nat : n = drawn + 1
  BY DEF IInv, TypeInv
<1> DEFINE q == request[k]
           grant == [id |-> q.id, key |-> q.key, nonce |-> q.signature.nonce]
<1> USE DEF deviceVars, callerVars, Opened
<1>1. /\ q \in AuthRequest /\ q.op = "auth" /\ q.step = "verified" /\ q.id \in Identities
      /\ q.signature \in Signature /\ Held(k) /\ q.key = q.signature.key
      /\ HeldNonce(k) = q.signature.nonce
  BY RequestKinds DEF IInv, OpenSession, AuthRequest, Held, HeldNonce, NonceInv
<1>2. PICK form \in CookieForms :
        Answer(k, [status |-> "ok", cookies |-> Headers(form, n)])
  BY DEF OpenSession
<1> DEFINE r == [status |-> "ok", cookies |-> Headers(form, n)]
<1>3. /\ request' = [request EXCEPT ![k] = None]
      /\ reply' = [c \in Callers |-> IF c = k THEN r ELSE reply[c]]
      /\ drawn' = n /\ sessions' = sessions \cup {n}
      /\ granted' = [t \in DOMAIN granted \cup {n} |-> IF t = n THEN grant ELSE granted[t]]
      /\ UNCHANGED <<keys, nonces, replaced>>
  BY <1>2 DEF OpenSession, Answer
<1>4. n \in Nat /\ n > drawn /\ n \notin sessions /\ DOMAIN granted = sessions /\ grant \in Grant
  BY <1>1 DEF IInv, TypeInv, FreshInv, Grant, Signature
<1>5. /\ granted' \in [sessions' -> Grant] /\ granted'[n] = grant
      /\ \A t \in sessions : granted'[t] = granted[t]
  BY <1>3, <1>4 DEF IInv, TypeInv
<1>6. TypeInv'
  BY <1>3, <1>4, <1>5 DEF IInv, TypeInv, ServiceRequest
<1>7. /\ \A l \in Channels : Held(l)' =>
            l # k /\ Held(l) /\ HeldNonce(l)' = HeldNonce(l) /\ request'[l] = request[l]
      /\ \A m : Spent(m)' <=> Spent(m) \/ m = HeldNonce(k)
  <2>1. \A l \in Channels : Held(l)' =>
            l # k /\ Held(l) /\ HeldNonce(l)' = HeldNonce(l) /\ request'[l] = request[l]
    BY <1>3 DEF IInv, TypeInv, Held, HeldNonce
  <2>2. \A m : Spent(m)' <=> Spent(m) \/ m = HeldNonce(k)
    BY <1>1, <1>3, <1>5 DEF Spent
  <2>3. QED
    BY <2>1, <2>2
<1>8. FreshInv'
  <2>1. \A l \in Channels : Held(l) => HeldNonce(l) \in Nat
    BY DEF Held, HeldNonce, AuthRequest, Signature
  <2>2. HeldNonce(k) <= n /\ HeldNonce(k) \in Nat
    BY <1>1, <1>4, <2>1 DEF IInv, TypeInv, FreshInv
  <2>3. \A t \in sessions : granted[t].nonce \in Nat /\ granted[t].nonce <= n /\ t <= n
    BY <1>4 DEF IInv, TypeInv, FreshInv, Grant
  <2>4. \A id \in Identities : nonces[id] # None => nonces[id] <= n
    BY <1>4 DEF IInv, TypeInv, FreshInv
  <2>5. \A m \in replaced : m <= n
    BY <1>4 DEF IInv, TypeInv, FreshInv
  <2>6. \A l \in Channels : Held(l) => HeldNonce(l) <= n
    BY <1>4, <2>1 DEF IInv, TypeInv, FreshInv
  <2>7. QED
    BY <1>1, <1>3, <1>4, <1>5, <1>7, <2>2, <2>3, <2>4, <2>5, <2>6 DEF FreshInv
<1>9. NonceInv'
  BY <1>1, <1>3, <1>7 DEF IInv, NonceInv
<1>10. NoncesAreGoodOnce'
  BY <1>1, <1>3, <1>4, <1>5 DEF IInv, NoncesAreGoodOnce, NonceInv, Spent
<1>11. /\ \A c \in Callers : c # k => Waits(c)'
       /\ \A c \in Callers : c # k /\ Calm(c) => Unrivalled(c)' /\ OnCourse(c)'
       /\ k \in Callers /\ Calm(k) => Unrivalled(k)'
       /\ CredentialsAreOwnSessions' /\ CredentialsStayGood' /\ RefusedForAReason'
  <2> DEFINE v == None
  <2>1. /\ request' = [request EXCEPT ![k] = v] /\ v = None
        /\ reply' = [c \in Callers |-> IF c = k THEN r ELSE reply[c]]
        /\ sessions \subseteq sessions' /\ UNCHANGED <<keys, nonces, callerVars>>
        /\ \A t \in sessions : granted'[t] = granted[t]
    BY <1>3, <1>5
  <2> HIDE DEF r, v
  <2>2. QED
    BY <2>1, HandlersKeepAway
<1>12. ASSUME k \in Callers
       PROVE  Waits(k)' /\ OnCourse(k)'
  <2>1. pc[k] = "auth" /\ q.id = IdOf(k) /\ q.signature.key = KeyOf(k)
    BY <1>1, <1>12, RequestsOfCallers DEF IInv, WaitInv, Waits
  <2>2. request'[k] = None /\ reply'[k] = r /\ pc'[k] = "auth"
    BY <1>3, <1>12, <2>1 DEF IInv, TypeInv
  <2>3. OwnToken(k, n)' /\ n \in sessions'
    BY <1>1, <1>3, <1>5, <2>1 DEF OwnToken
  <2>4. r.status = "ok"
    OBVIOUS
  <2>5. Waits(k)'
    BY <2>2, <2>3 DEF Waits
  <2>6. QED
    BY <2>2, <2>4, <2>5 DEF OnCourse
<1>13. \A c \in Callers : Calm(c)' => Calm(c)
  BY DEF Calm, Authenticating
<1>14. WaitInv' /\ CalmInv'
  BY <1>11, <1>12, <1>13 DEF WaitInv, CalmInv
<1>15. QED
  BY <1>6, <1>8, <1>9, <1>10, <1>11, <1>14 DEF IInv

\* Every other request carries a token that is still a session.
LEMMA AdmitKeeps ==
    ASSUME IInv, NEW k \in Channels, request[k] # None, Admit(k), UNCHANGED callerVars
    PROVE  IInv'
<1> DEFINE q == request[k]
           r == [status |-> "ok"]
<1> USE DEF deviceVars, callerVars
<1>1. q \in ServiceRequest /\ q.op = "service" /\ q.token \in sessions
  BY RequestKinds DEF IInv, Admit, ServiceRequest
<1>2. /\ request' = [request EXCEPT ![k] = None]
      /\ reply' = [c \in Callers |-> IF c = k THEN r ELSE reply[c]]
      /\ UNCHANGED deviceVars
  BY <1>1 DEF Admit, Answer
<1>3. TypeInv'
  BY <1>2 DEF IInv, TypeInv, ServiceRequest
<1>4. FreshInv' /\ NonceInv' /\ NoncesAreGoodOnce'
  <2>1. \A l \in Channels : Held(l)' => Held(l) /\ request'[l] = request[l]
    BY <1>2 DEF IInv, TypeInv, Held
  <2>2. QED
    BY <1>2, <2>1, NoncesStay DEF IInv
<1>5. /\ \A c \in Callers : c # k => Waits(c)'
      /\ \A c \in Callers : c # k /\ Calm(c) => Unrivalled(c)' /\ OnCourse(c)'
      /\ CredentialsAreOwnSessions' /\ CredentialsStayGood' /\ RefusedForAReason'
  <2> DEFINE v == None
  <2>1. /\ request' = [request EXCEPT ![k] = v] /\ v = None
        /\ reply' = [c \in Callers |-> IF c = k THEN r ELSE reply[c]]
        /\ UNCHANGED <<deviceVars, callerVars>>
    BY <1>2
  <2> HIDE DEF r, v
  <2>2. QED
    BY <2>1, HandlersKeepAway
<1>6. ASSUME k \in Callers PROVE Waits(k)' /\ ~Calm(k)
  <2>1. Waits(k) /\ pc[k] \in {"idle", "nonce", "auth", "use"}
    BY <1>6 DEF IInv, WaitInv, TypeInv
  <2>2. pc[k] = "use"
    BY <1>1, <2>1 DEF Waits, NonceRequest, AuthRequest
  <2>3. request'[k] = None /\ reply'[k] = r /\ pc'[k] = "use"
    BY <1>2, <1>6, <2>2 DEF IInv, TypeInv
  <2>4. QED
    BY <2>2, <2>3 DEF Waits, Calm, Authenticating
<1>7. \A c \in Callers : Calm(c)' => Calm(c)
  BY DEF Calm, Authenticating
<1>8. WaitInv' /\ CalmInv'
  BY <1>5, <1>6, <1>7 DEF WaitInv, CalmInv
<1>9. QED
  BY <1>3, <1>4, <1>5, <1>8 DEF IInv

-----------------------------------------------------------------------------
(* The callers. *)

\* A caller takes a step: the other callers and the nonces notice nothing.
LEMMA CallersKeepAway ==
    ASSUME IInv, NEW c \in Callers, UNCHANGED deviceVars, ~Held(c)',
           \A k \in Channels : k # c => request'[k] = request[k],
           \A d \in Callers : d # c => pc'[d] = pc[d] /\ reply'[d] = reply[d],
           \A d \in Callers : d # c /\ Calm(d)' =>
                /\ Calm(d)
                /\ Authenticating(c)' => Authenticating(c) \/ IdOf(c) # IdOf(d)
    PROVE  /\ FreshInv' /\ NonceInv' /\ NoncesAreGoodOnce'
           /\ \A d \in Callers : d # c => Waits(d)' /\ (Calm(d)' => Unrivalled(d)' /\ OnCourse(d)')
<1> USE DEF deviceVars
<1>1. FreshInv' /\ NonceInv' /\ NoncesAreGoodOnce'
  <2>1. \A k \in Channels : Held(k)' => Held(k) /\ request'[k] = request[k]
    BY DEF Held
  <2>2. QED
    BY <2>1, NoncesStay DEF IInv
<1>2. ASSUME NEW d \in Callers, d # c PROVE Waits(d)'
  BY <1>2, WaitsStay, CallersAreKnown DEF IInv, WaitInv
<1>3. ASSUME NEW d \in Callers, d # c, Calm(d)' PROVE Unrivalled(d)' /\ OnCourse(d)'
  <2>1. Unrivalled(d) /\ OnCourse(d) /\ d \in Channels
    BY <1>3, CallersAreKnown DEF IInv, CalmInv
  <2>2. \A e \in Callers \ {d} : Authenticating(e)' => Authenticating(e) \/ IdOf(e) # IdOf(d)
    BY <1>3 DEF Authenticating
  <2>3. \A s \in Strays : request'[s] = request[s]
    BY SessionAssumption DEF SessionAssumption, Channels
  <2>4. QED
    BY <1>3, <2>1, <2>2, <2>3, CourseStays
<1>4. QED
  BY <1>1, <1>2, <1>3

\* A registration disturbs the authentications of its identifier, no others.
LEMMA RegisterClientKeeps ==
    ASSUME IInv, NEW p \in Pairings, RegisterClient(p[1], p[2])
    PROVE  IInv'
<1>1. p[1] \in Identities /\ p[2] \in Keys
  BY SessionAssumption DEF SessionAssumption
<1>2. /\ keys' = [keys EXCEPT ![p[1]] = p[2]]
      /\ disturbed' = disturbed \cup {c \in Callers : Authenticating(c) /\ IdOf(c) = p[1]}
      /\ UNCHANGED <<nonces, sessions, drawn, granted, replaced, request, reply,
                     credential, pc, outcome>>
  BY DEF RegisterClient
<1>3. TypeInv'
  BY <1>1, <1>2 DEF IInv, TypeInv, ServiceRequest
<1>4. FreshInv' /\ NonceInv' /\ NoncesAreGoodOnce'
  BY <1>2, NoncesStay DEF IInv, Held
<1>5. WaitInv'
  BY <1>2, WaitsStay DEF IInv, WaitInv
<1>6. CalmInv'
  <2> SUFFICES ASSUME NEW c \in Callers, Calm(c)' PROVE Unrivalled(c)' /\ OnCourse(c)'
    BY DEF CalmInv
  <2>1. Calm(c) /\ IdOf(c) # p[1]
    BY <1>2 DEF Calm, Authenticating
  <2>2. keys'[IdOf(c)] = keys[IdOf(c)]
    BY <1>2, <2>1, CallersAreKnown DEF IInv, TypeInv
  <2>3. Unrivalled(c) /\ OnCourse(c)
    BY <2>1 DEF IInv, CalmInv
  <2>4. QED
    BY <1>2, <2>2, <2>3, CourseStays DEF Authenticating
<1>7. CredentialsAreOwnSessions' /\ CredentialsStayGood' /\ RefusedForAReason'
  BY <1>2 DEF IInv, CredentialsAreOwnSessions, CredentialsStayGood, RefusedForAReason
<1>8. QED
  BY <1>3, <1>4, <1>5, <1>6, <1>7 DEF IInv

\* Authenticate asks for a nonce; it is calm only if it has no rival.
LEMMA AuthenticateKeeps ==
    ASSUME IInv, NEW c \in Callers, Authenticate(c)
    PROVE  IInv'
<1> DEFINE q == NonceFor(IdOf(c), "arrived")
           rivalled == Rivals(c) # {} \/ Leftover(c) \/ keys[IdOf(c)] # KeyOf(c)
<1>1. /\ pc[c] = "idle" /\ pc' = [pc EXCEPT ![c] = "nonce"]
      /\ request' = [request EXCEPT ![c] = q] /\ reply' = [reply EXCEPT ![c] = None]
      /\ outcome' = [outcome EXCEPT ![c] = None]
      /\ disturbed' = (disturbed \ {c}) \cup Rivals(c) \cup (IF rivalled THEN {c} ELSE {})
      /\ UNCHANGED deviceVars /\ UNCHANGED credential
  BY DEF Authenticate, Start, Send
<1>2. /\ q \in NonceRequest /\ q.id = IdOf(c) /\ q \notin AuthRequest
      /\ c \in Channels /\ c \notin Strays
  BY CallersAreKnown, SessionAssumption DEF NonceRequest, NonceFor, AuthRequest, SessionAssumption
<1>3. TypeInv'
  <2> HIDE DEF q
  <2>1. QED
    BY <1>1, <1>2 DEF IInv, TypeInv, ServiceRequest, deviceVars
<1>4. /\ pc'[c] = "nonce" /\ request'[c] = q /\ reply'[c] = None
      /\ \A k \in Channels : k # c => request'[k] = request[k]
      /\ \A d \in Callers : d # c => pc'[d] = pc[d] /\ reply'[d] = reply[d] /\ outcome'[d] = outcome[d]
      /\ outcome'[c] = None
  <2> HIDE DEF q
  <2>1. QED
    BY <1>1, <1>2 DEF IInv, TypeInv
<1>5. \A d \in Callers : d # c /\ Calm(d)' => Calm(d) /\ IdOf(c) # IdOf(d)
  BY <1>1, <1>4 DEF Calm, Authenticating, Rivals
<1>6. /\ FreshInv' /\ NonceInv' /\ NoncesAreGoodOnce'
      /\ \A d \in Callers : d # c => Waits(d)' /\ (Calm(d)' => Unrivalled(d)' /\ OnCourse(d)')
  <2>1. ~Held(c)'
    BY <1>2, <1>4 DEF Held
  <2>2. QED
    BY <1>1, <1>4, <1>5, <2>1, CallersKeepAway
<1>7. Waits(c)'
  <2> HIDE DEF q
  <2>1. QED
    BY <1>2, <1>4 DEF Waits
<1>8. ASSUME Calm(c)' PROVE Unrivalled(c)' /\ OnCourse(c)'
  <2>1. ~rivalled
    BY <1>1, <1>8 DEF Calm
  <2>2. \A d \in Callers \ {c} : Authenticating(d)' => IdOf(d) # IdOf(c)
    BY <1>4, <2>1 DEF Rivals, Authenticating
  <2>3. \A s \in Strays : request'[s] = request[s]
    BY <1>2, <1>4 DEF Channels
  <2>4. Unrivalled(c)'
    BY <1>1, <2>1, <2>2, <2>3 DEF Unrivalled, Leftover, deviceVars
  <2>5. OnCourse(c)'
    BY <1>4 DEF OnCourse
  <2>6. QED
    BY <2>4, <2>5
<1>9. WaitInv' /\ CalmInv'
  BY <1>6, <1>7, <1>8 DEF WaitInv, CalmInv
<1>10. CredentialsAreOwnSessions'
  BY <1>1 DEF IInv, CredentialsAreOwnSessions, deviceVars
<1>11. CredentialsStayGood' /\ RefusedForAReason'
  <2>1. /\ None # [op |-> "use", error |-> "refused"]
        /\ None # [op |-> "authenticate", error |-> "refused"]
    BY SessionAssumption DEF SessionAssumption
  <2>2. \A d \in Callers : d # c /\ d \in disturbed => d \in disturbed'
    BY <1>1
  <2>3. QED
    BY <1>4, <2>1, <2>2 DEF IInv, CredentialsStayGood, RefusedForAReason
<1>12. QED
  BY <1>3, <1>6, <1>9, <1>10, <1>11 DEF IInv

\* A call that fails leaves everything but its own state alone, and an
\* authentication that is refused was disturbed.
LEMMA FailKeeps ==
    ASSUME IInv, NEW c \in Callers, NEW op, Fail(c, op), pc[c] # "idle", reply[c] # None,
           (op = "authenticate" /\ Authenticating(c)) \/ (op = "use" /\ pc[c] = "use"),
           UNCHANGED <<deviceVars, disturbed>>
    PROVE  IInv'
<1>1. /\ pc' = [pc EXCEPT ![c] = "idle"]
      /\ outcome' = [outcome EXCEPT ![c] = [op |-> op, error |-> reply[c].status]]
      /\ reply' = [reply EXCEPT ![c] = None]
      /\ UNCHANGED <<request, credential>>
  BY DEF Fail, End
<1>2. c \in Channels /\ request[c] = None
  BY CallersAreKnown DEF IInv, WaitInv, Waits
<1>3. TypeInv'
  BY <1>1 DEF IInv, TypeInv, ServiceRequest, deviceVars
<1>4. /\ pc'[c] = "idle" /\ reply'[c] = None /\ request'[c] = None
      /\ \A d \in Callers : d # c => pc'[d] = pc[d] /\ reply'[d] = reply[d] /\ outcome'[d] = outcome[d]
      /\ outcome'[c] = [op |-> op, error |-> reply[c].status]
  BY <1>1, <1>2 DEF IInv, TypeInv
<1>5. /\ ~Held(c)' /\ ~Authenticating(c)' /\ ~Calm(c)'
      /\ \A d \in Callers : d # c /\ Calm(d)' => Calm(d)
  BY <1>1, <1>4 DEF Held, Authenticating, Calm
<1>6. /\ FreshInv' /\ NonceInv' /\ NoncesAreGoodOnce'
      /\ \A d \in Callers : d # c => Waits(d)' /\ (Calm(d)' => Unrivalled(d)' /\ OnCourse(d)')
  BY <1>1, <1>4, <1>5, CallersKeepAway
<1>7. Waits(c)'
  BY <1>4 DEF Waits
<1>8. WaitInv' /\ CalmInv'
  BY <1>5, <1>6, <1>7 DEF WaitInv, CalmInv
<1>9. CredentialsAreOwnSessions'
  BY <1>1 DEF IInv, CredentialsAreOwnSessions, deviceVars
<1>10. CredentialsStayGood'
  <2>1. pc[c] = "use" => reply[c].status # "refused"
    BY DEF IInv, WaitInv, Waits
  <2>2. QED
    BY <1>4, <2>1 DEF IInv, CredentialsStayGood
<1>11. RefusedForAReason'
  <2>1. op = "authenticate" /\ reply[c].status = "refused" => c \in disturbed
    BY DEF IInv, CalmInv, Calm, OnCourse, Authenticating
  <2>2. QED
    BY <1>4, <2>1 DEF IInv, RefusedForAReason
<1>12. QED
  BY <1>3, <1>6, <1>8, <1>9, <1>10, <1>11 DEF IInv

\* SignNonce signs the nonce it was given, or the authentication fails.
LEMMA SignNonceKeeps ==
    ASSUME IInv, NEW c \in Callers, SignNonce(c)
    PROVE  IInv'
<1> DEFINE signature == [key |-> KeyOf(c), nonce |-> reply[c].nonce]
           q == AuthFor(IdOf(c), "arrived", None, signature)
<1>1. /\ pc[c] = "nonce" /\ reply[c] # None /\ Authenticating(c)
      /\ UNCHANGED <<deviceVars, disturbed>>
  BY DEF SignNonce, Heard, Authenticating
<1>2. ASSUME reply[c].status # "ok" PROVE IInv'
  BY <1>1, <1>2, FailKeeps DEF SignNonce
<1>3. ASSUME reply[c].status = "ok" PROVE IInv'
  <2>1. /\ pc' = [pc EXCEPT ![c] = "auth"]
        /\ request' = [request EXCEPT ![c] = q] /\ reply' = [reply EXCEPT ![c] = None]
        /\ UNCHANGED <<outcome, credential>>
    BY <1>3 DEF SignNonce, Send
  <2>2. /\ q \in AuthRequest /\ q.id = IdOf(c) /\ q.step = "arrived" /\ q.signature.key = KeyOf(c)
        /\ q.signature.nonce = reply[c].nonce /\ c \in Channels /\ c \notin Strays
    <3>1. reply[c].nonce \in Nat
      BY <1>1, <1>3 DEF IInv, WaitInv, Waits, Failures
    <3>2. signature \in Signature
      BY <3>1, CallersAreKnown DEF Signature
    <3>3. q \in AuthRequest
      BY <3>2, CallersAreKnown DEF AuthRequest, AuthFor
    <3>4. c \in Channels /\ c \notin Strays
      BY CallersAreKnown, SessionAssumption DEF SessionAssumption
    <3>5. QED
      BY <3>3, <3>4 DEF AuthFor
  <2> HIDE DEF q
  <2>3. TypeInv'
    BY <1>1, <2>1, <2>2 DEF IInv, TypeInv, ServiceRequest, deviceVars
  <2>4. /\ pc'[c] = "auth" /\ request'[c] = q /\ reply'[c] = None
        /\ \A k \in Channels : k # c => request'[k] = request[k]
        /\ \A d \in Callers : d # c => pc'[d] = pc[d] /\ reply'[d] = reply[d]
    BY <2>1, <2>2 DEF IInv, TypeInv
  <2>5. Authenticating(c)' /\ \A d \in Callers : Calm(d)' => Calm(d)
    BY <1>1, <2>1, <2>4 DEF Calm, Authenticating
  <2>6. /\ FreshInv' /\ NonceInv' /\ NoncesAreGoodOnce'
        /\ \A d \in Callers : d # c => Waits(d)' /\ (Calm(d)' => Unrivalled(d)' /\ OnCourse(d)')
    <3>1. ~Held(c)'
      BY <2>2, <2>4 DEF Held
    <3>2. QED
      BY <1>1, <2>4, <2>5, <3>1, CallersKeepAway
  <2>7. Waits(c)'
    BY <2>2, <2>4 DEF Waits
  <2>8. ASSUME Calm(c)' PROVE Unrivalled(c)' /\ OnCourse(c)'
    <3>1. Unrivalled(c) /\ OnCourse(c)
      BY <2>5, <2>8 DEF IInv, CalmInv
    <3>2. Unrivalled(c)'
      <4>1. \A s \in Strays : request'[s] = request[s]
        BY <2>2, <2>4 DEF Channels
      <4>2. \A d \in Callers \ {c} : Authenticating(d)' => Authenticating(d)
        BY <2>4 DEF Authenticating
      <4>3. QED
        BY <1>1, <3>1, <4>1, <4>2 DEF Unrivalled, deviceVars
    <3>3. OnCourse(c)'
      BY <1>1, <1>3, <2>2, <2>4, <3>1 DEF OnCourse, deviceVars
    <3>4. QED
      BY <3>2, <3>3
  <2>9. WaitInv' /\ CalmInv'
    BY <2>6, <2>7, <2>8 DEF WaitInv, CalmInv
  <2>10. CredentialsAreOwnSessions' /\ CredentialsStayGood' /\ RefusedForAReason'
    BY <1>1, <2>1 DEF IInv, CredentialsAreOwnSessions, CredentialsStayGood, RefusedForAReason, deviceVars
  <2>11. QED
    BY <2>3, <2>6, <2>9, <2>10 DEF IInv
<1>4. QED
  BY <1>2, <1>3

\* SetCredential: what the Client keeps is the session opened for this call.
LEMMA SetCredentialKeeps ==
    ASSUME IInv, NEW c \in Callers, SetCredential(c)
    PROVE  IInv'
<1> DEFINE value == ParseCredentialsCookie(reply[c].cookies)
           error == IF value = None THEN "cookie" ELSE "none"
<1>1. /\ pc[c] = "auth" /\ reply[c] # None /\ Authenticating(c)
      /\ UNCHANGED <<deviceVars, disturbed>>
  BY DEF SetCredential, Heard, Authenticating
<1>2. ASSUME reply[c].status # "ok" PROVE IInv'
  BY <1>1, <1>2, FailKeeps DEF SetCredential
<1>3. ASSUME reply[c].status = "ok" PROVE IInv'
  <2>1. /\ pc' = [pc EXCEPT ![c] = "idle"]
        /\ outcome' = [outcome EXCEPT ![c] = [op |-> "authenticate", error |-> error]]
        /\ reply' = [reply EXCEPT ![c] = None] /\ UNCHANGED request
        /\ credential' = IF value = None THEN credential
                         ELSE [credential EXCEPT ![HandleOf[c]] = value]
    BY <1>3 DEF SetCredential, End
  <2>2. value # None => OwnToken(c, value)
    <3>1. PICK form \in CookieForms, t \in sessions :
             OwnToken(c, t) /\ reply[c] = [status |-> "ok", cookies |-> Headers(form, t)]
      BY <1>1, <1>3 DEF IInv, WaitInv, Waits, Failures
    <3>2. QED
      BY <3>1, ParsedIsToken
  <2> HIDE DEF value
  <2>3. c \in Channels /\ request[c] = None
    BY <1>1, CallersAreKnown DEF IInv, WaitInv, Waits
  <2>4. credential' \in [Handles -> sessions \cup {None}]
    BY <2>1, <2>2, CallersAreKnown DEF IInv, TypeInv, OwnToken
  <2>5. TypeInv'
    BY <1>1, <2>1, <2>4 DEF IInv, TypeInv, ServiceRequest, deviceVars
  <2>6. /\ pc'[c] = "idle" /\ reply'[c] = None /\ request'[c] = None
        /\ \A d \in Callers : d # c => pc'[d] = pc[d] /\ reply'[d] = reply[d] /\ outcome'[d] = outcome[d]
        /\ outcome'[c] = [op |-> "authenticate", error |-> error]
    BY <2>1, <2>3 DEF IInv, TypeInv
  <2>7. /\ ~Held(c)' /\ ~Authenticating(c)' /\ ~Calm(c)'
        /\ \A d \in Callers : d # c /\ Calm(d)' => Calm(d)
    BY <1>1, <2>6 DEF Held, Authenticating, Calm
  <2>8. /\ FreshInv' /\ NonceInv' /\ NoncesAreGoodOnce'
        /\ \A d \in Callers : d # c => Waits(d)' /\ (Calm(d)' => Unrivalled(d)' /\ OnCourse(d)')
    BY <1>1, <2>1, <2>6, <2>7, CallersKeepAway
  <2>9. Waits(c)'
    BY <2>6 DEF Waits
  <2>10. WaitInv' /\ CalmInv'
    BY <2>7, <2>8, <2>9 DEF WaitInv, CalmInv
  <2>11. CredentialsAreOwnSessions'
    BY <1>1, <2>1, <2>2, CallersAreKnown
    DEF IInv, TypeInv, CredentialsAreOwnSessions, OwnToken, IdOf, KeyOf, deviceVars
  <2>12. CredentialsStayGood' /\ RefusedForAReason'
    BY <1>1, <2>6 DEF IInv, CredentialsStayGood, RefusedForAReason
  <2>13. QED
    BY <2>5, <2>8, <2>10, <2>11, <2>12 DEF IInv
<1>4. QED
  BY <1>2, <1>3

\* Use sends the credential of the moment, which is a session of the device.
LEMMA UseKeeps ==
    ASSUME IInv, NEW c \in Callers, Use(c)
    PROVE  IInv'
<1> DEFINE token == credential[HandleOf[c]]
           q == [op |-> "service", token |-> token]
<1>1. /\ pc[c] = "idle" /\ c \in Channels /\ request[c] = None
      /\ UNCHANGED <<deviceVars, credential, disturbed>>
  BY CallersAreKnown DEF Use, Start, IInv, WaitInv, Waits
<1>2. \E step, v, e, rep :
        /\ step \in {"idle", "use"} /\ v \in {None} \cup ServiceRequest
        /\ pc' = [pc EXCEPT ![c] = step]
        /\ request' = [request EXCEPT ![c] = v]
        /\ reply' = [reply EXCEPT ![c] = rep]
        /\ outcome' = [outcome EXCEPT ![c] = e]
        /\ step = "idle" => v = None
        /\ step = "use" => rep = None
        /\ v = None \/ rep = None
        /\ e # [op |-> "use", error |-> "refused"]
        /\ e # [op |-> "authenticate", error |-> "refused"]
  <2>1. CASE token = None
    <3>1. /\ pc' = [pc EXCEPT ![c] = "idle"] /\ UNCHANGED <<request, reply>>
          /\ outcome' = [outcome EXCEPT ![c] = [op |-> "use", error |-> "no credential"]]
      BY <2>1 DEF Use, End
    <3>2. request' = [request EXCEPT ![c] = None] /\ reply' = [reply EXCEPT ![c] = reply[c]]
      BY <1>1, <3>1 DEF IInv, TypeInv
    <3>3. QED
      BY <3>1, <3>2
  <2>2. CASE token # None
    <3>1. q \in ServiceRequest
      BY <2>2, CallersAreKnown DEF IInv, TypeInv, ServiceRequest
    <3>2. /\ pc' = [pc EXCEPT ![c] = "use"] /\ request' = [request EXCEPT ![c] = q]
          /\ reply' = [reply EXCEPT ![c] = None] /\ outcome' = [outcome EXCEPT ![c] = None]
      BY <2>2 DEF Use, Send
    <3>3. /\ None # [op |-> "use", error |-> "refused"]
          /\ None # [op |-> "authenticate", error |-> "refused"]
      BY SessionAssumption DEF SessionAssumption
    <3> HIDE DEF q
    <3>4. QED
      BY <3>1, <3>2, <3>3
  <2>3. QED
    BY <2>1, <2>2
<1>3. PICK step, v, e, rep :
        /\ step \in {"idle", "use"} /\ v \in {None} \cup ServiceRequest
        /\ pc' = [pc EXCEPT ![c] = step]
        /\ request' = [request EXCEPT ![c] = v]
        /\ reply' = [reply EXCEPT ![c] = rep]
        /\ outcome' = [outcome EXCEPT ![c] = e]
        /\ step = "idle" => v = None
        /\ step = "use" => rep = None
        /\ v = None \/ rep = None
        /\ e # [op |-> "use", error |-> "refused"]
        /\ e # [op |-> "authenticate", error |-> "refused"]
  BY <1>2
<1>4. v \in ServiceRequest => v \notin AuthRequest /\ v \in ServiceRequest'
  BY <1>1 DEF ServiceRequest, AuthRequest, deviceVars
<1>5. TypeInv'
  <2>1. ServiceRequest' = ServiceRequest
    BY <1>1 DEF ServiceRequest, deviceVars
  <2>2. pc' \in [Callers -> {"idle", "nonce", "auth", "use"}]
    BY <1>3 DEF IInv, TypeInv
  <2>3. request' \in [Channels -> {None} \cup NonceRequest \cup AuthRequest \cup ServiceRequest']
    BY <1>3, <2>1 DEF IInv, TypeInv
  <2>4. reply' = [d \in Callers |-> reply'[d]] /\ outcome' = [d \in Callers |-> outcome'[d]]
    BY <1>3 DEF IInv, TypeInv
  <2>5. QED
    BY <1>1, <2>2, <2>3, <2>4 DEF IInv, TypeInv, deviceVars
<1>6. /\ pc'[c] = step /\ request'[c] = v /\ reply'[c] = rep /\ outcome'[c] = e
      /\ \A k \in Channels : k # c => request'[k] = request[k]
      /\ \A d \in Callers : d # c => pc'[d] = pc[d] /\ reply'[d] = reply[d] /\ outcome'[d] = outcome[d]
  BY <1>1, <1>3 DEF IInv, TypeInv
<1>7. /\ ~Held(c)' /\ ~Authenticating(c)' /\ ~Calm(c)'
      /\ \A d \in Callers : d # c /\ Calm(d)' => Calm(d)
  <2>1. ~Held(c)'
    BY <1>3, <1>4, <1>6 DEF Held
  <2>2. ~Authenticating(c)'
    BY <1>3, <1>6 DEF Authenticating
  <2>3. QED
    BY <1>1, <1>6, <2>1, <2>2 DEF Authenticating, Calm
<1>8. /\ FreshInv' /\ NonceInv' /\ NoncesAreGoodOnce'
      /\ \A d \in Callers : d # c => Waits(d)' /\ (Calm(d)' => Unrivalled(d)' /\ OnCourse(d)')
  BY <1>1, <1>6, <1>7, CallersKeepAway
<1>9. Waits(c)'
  BY <1>3, <1>4, <1>6 DEF Waits
<1>10. WaitInv' /\ CalmInv'
  BY <1>7, <1>8, <1>9 DEF WaitInv, CalmInv
<1>11. CredentialsAreOwnSessions'
  BY <1>1 DEF IInv, CredentialsAreOwnSessions, deviceVars
<1>12. CredentialsStayGood' /\ RefusedForAReason'
  BY <1>1, <1>3, <1>6 DEF IInv, CredentialsStayGood, RefusedForAReason
<1>13. QED
  BY <1>5, <1>8, <1>10, <1>11, <1>12 DEF IInv

LEMMA UsedKeeps ==
    ASSUME IInv, NEW c \in Callers, Used(c)
    PROVE  IInv'
<1>1. pc[c] = "use" /\ reply[c] # None /\ UNCHANGED <<deviceVars, disturbed>>
  BY DEF Used, Heard
<1>2. ASSUME reply[c].status # "ok" PROVE IInv'
  BY <1>1, <1>2, FailKeeps DEF Used
<1>3. ASSUME reply[c].status = "ok" PROVE IInv'
  <2>1. /\ pc' = [pc EXCEPT ![c] = "idle"] /\ UNCHANGED <<request, credential>>
        /\ outcome' = [outcome EXCEPT ![c] = [op |-> "use", error |-> "none"]]
        /\ reply' = [reply EXCEPT ![c] = None]
    BY <1>3 DEF Used, End
  <2>2. c \in Channels /\ request[c] = None
    BY <1>1, CallersAreKnown DEF IInv, WaitInv, Waits
  <2>3. TypeInv'
    BY <1>1, <2>1 DEF IInv, TypeInv, ServiceRequest, deviceVars
  <2>4. /\ pc'[c] = "idle" /\ reply'[c] = None /\ request'[c] = None
        /\ \A d \in Callers : d # c => pc'[d] = pc[d] /\ reply'[d] = reply[d] /\ outcome'[d] = outcome[d]
        /\ outcome'[c] = [op |-> "use", error |-> "none"]
    BY <2>1, <2>2 DEF IInv, TypeInv
  <2>5. /\ ~Held(c)' /\ ~Authenticating(c)' /\ ~Calm(c)'
        /\ \A d \in Callers : d # c /\ Calm(d)' => Calm(d)
    BY <1>1, <2>4 DEF Held, Authenticating, Calm
  <2>6. /\ FreshInv' /\ NonceInv' /\ NoncesAreGoodOnce'
        /\ \A d \in Callers : d # c => Waits(d)' /\ (Calm(d)' => Unrivalled(d)' /\ OnCourse(d)')
    BY <1>1, <2>1, <2>4, <2>5, CallersKeepAway
  <2>7. WaitInv' /\ CalmInv'
    BY <2>4, <2>5, <2>6 DEF WaitInv, CalmInv, Waits
  <2>8. CredentialsAreOwnSessions' /\ CredentialsStayGood' /\ RefusedForAReason'
    BY <1>1, <2>1, <2>4 DEF IInv, CredentialsAreOwnSessions, CredentialsStayGood, RefusedForAReason, deviceVars
  <2>9. QED
    BY <2>3, <2>6, <2>7, <2>8 DEF IInv
<1>4. QED
  BY <1>2, <1>3

-----------------------------------------------------------------------------
(* The network. *)

\* An abandoned request goes on in another channel, with what it holds.
LEMMA AbandonKeeps ==
    ASSUME IInv, NEW c \in Callers, Abandon(c)
    PROVE  IInv'
<1> USE DEF deviceVars
<1>1. /\ request[c] # None
      /\ disturbed' = disturbed \cup {d \in Callers : Authenticating(d) /\ IdOf(d) = IdOf(c)}
      /\ UNCHANGED <<deviceVars, credential, pc, outcome>>
  BY DEF Abandon
<1>2. PICK s \in Strays :
        /\ request[s] = None
        /\ \/ /\ request' = [request EXCEPT ![c] = None, ![s] = request[c]]
              /\ reply' = [reply EXCEPT ![c] = Lost]
           \/ /\ request[c].op = "nonce"
              /\ request' = [request EXCEPT ![s] = request[c]]
              /\ UNCHANGED reply
  BY DEF Abandon
<1>3. c \in Channels /\ s \in Channels /\ s # c /\ s \notin Callers /\ c \notin Strays
  BY CallersAreKnown, SessionAssumption DEF SessionAssumption, Channels
<1>4. /\ request'[s] = request[c] /\ pc'[c] = pc[c]
      /\ \A k \in Channels : k # c /\ k # s => request'[k] = request[k]
      /\ \A d \in Callers : d # c => reply'[d] = reply[d] /\ pc'[d] = pc[d]
      /\ \/ request'[c] = None /\ reply'[c] = Lost
         \/ request'[c] = request[c] /\ reply'[c] = reply[c] /\ request[c].op = "nonce"
  BY <1>1, <1>2, <1>3 DEF IInv, TypeInv
<1>5. TypeInv'
  <2>1. ServiceRequest' = ServiceRequest
    BY <1>1 DEF ServiceRequest
  <2>2. request' \in [Channels -> {None} \cup NonceRequest \cup AuthRequest \cup ServiceRequest']
    BY <1>2, <1>3, <2>1 DEF IInv, TypeInv
  <2>3. reply' = [d \in Callers |-> reply'[d]]
    BY <1>2 DEF IInv, TypeInv
  <2>4. QED
    BY <1>1, <2>2, <2>3 DEF IInv, TypeInv
<1>6. /\ \A k \in Channels : Held(k)' =>
            \/ k # s /\ k # c /\ Held(k) /\ request'[k] = request[k]
            \/ k = s /\ Held(c) /\ request'[k] = request[c]
      /\ \A n : Spent(n)' <=> Spent(n)
  <2>1. ~Held(c)'
    BY <1>4 DEF Held, AuthRequest
  <2>2. \A k \in Channels : Held(k)' =>
            \/ k # s /\ k # c /\ Held(k) /\ request'[k] = request[k]
            \/ k = s /\ Held(c) /\ request'[k] = request[c]
    BY <1>4, <2>1 DEF Held
  <2>3. \A n : Spent(n)' <=> Spent(n)
    BY <1>1 DEF Spent
  <2>4. QED
    BY <2>2, <2>3
<1>7. /\ \A k \in Channels : Held(k)' =>
            \/ k # s /\ k # c /\ Held(k) /\ HeldNonce(k)' = HeldNonce(k)
            \/ k = s /\ Held(c) /\ HeldNonce(k)' = HeldNonce(c)
  BY <1>6 DEF HeldNonce
<1>8. FreshInv'
  BY <1>1, <1>3, <1>7 DEF IInv, FreshInv
<1>9. NonceInv'
  BY <1>1, <1>3, <1>6, <1>7 DEF IInv, NonceInv
<1>10. WaitInv'
  <2>1. ASSUME NEW d \in Callers, d # c PROVE Waits(d)'
    <3>1. request'[d] = request[d]
      BY <1>3, <1>4, <2>1, CallersAreKnown
    <3>2. QED
      BY <1>1, <1>4, <2>1, <3>1, WaitsStay DEF IInv, WaitInv
  <2>2. ASSUME request'[c] = None, reply'[c] = Lost PROVE Waits(c)'
    <3>1. Lost \in Failures /\ Lost \in [status : {"ok", "failed"}]
      BY DEF Lost, Failures
    <3>2. pc'[c] \in {"idle", "nonce", "auth", "use"}
      BY <1>4 DEF IInv, TypeInv
    <3>3. QED
      BY <2>2, <3>1, <3>2 DEF Waits
  <2>3. ASSUME request'[c] = request[c], reply'[c] = reply[c] PROVE Waits(c)'
    BY <1>1, <1>4, <2>3, WaitsStay DEF IInv, WaitInv
  <2>4. QED
    BY <1>4, <2>1, <2>2, <2>3 DEF WaitInv
<1>11. CalmInv'
  <2> SUFFICES ASSUME NEW d \in Callers, Calm(d)' PROVE Unrivalled(d)' /\ OnCourse(d)'
    BY DEF CalmInv
  <2>1. Calm(d) /\ IdOf(d) # IdOf(c)
    BY <1>1 DEF Calm, Authenticating
  <2>2. d # c /\ d # s /\ d \in Channels
    BY <1>3, <2>1, CallersAreKnown
  <2>3. Unrivalled(d) /\ OnCourse(d)
    BY <2>1 DEF IInv, CalmInv
  <2>4. request[c].op # "service" => request[c].id # IdOf(d)
    BY <1>1, <2>1, RequestsOfCallers DEF IInv
  <2>5. ASSUME NEW e \in Strays, request'[e] # None, request'[e].op # "service"
        PROVE  \/ request'[e].id # IdOf(d)
               \/ request[e] # None /\ request[e].op # "service" /\ request'[e].id = request[e].id
    BY <1>3, <1>4, <2>4, <2>5 DEF Channels
  <2>6. \A e \in Callers \ {d} : Authenticating(e)' => Authenticating(e) \/ IdOf(e) # IdOf(d)
    BY <1>1 DEF Authenticating
  <2>7. QED
    BY <1>1, <1>4, <2>2, <2>3, <2>5, <2>6, CourseStays
<1>12. NoncesAreGoodOnce' /\ CredentialsAreOwnSessions' /\ CredentialsStayGood' /\ RefusedForAReason'
  BY <1>1 DEF IInv, NoncesAreGoodOnce, CredentialsAreOwnSessions, CredentialsStayGood, RefusedForAReason
<1>13. QED
  BY <1>5, <1>8, <1>9, <1>10, <1>11, <1>12 DEF IInv

-----------------------------------------------------------------------------
(* The theorems. *)

LEMMA InitKeeps ==
    Init => IInv
<1> SUFFICES ASSUME Init PROVE IInv
  OBVIOUS
<1>1. TypeInv
  BY SessionAssumption DEF SessionAssumption, Init, TypeInv, Channels
<1>2. \A k \in Channels : ~Held(k)
  BY DEF Init, Held
<1>3. FreshInv /\ NonceInv /\ NoncesAreGoodOnce
  BY <1>2 DEF Init, FreshInv, NonceInv, NoncesAreGoodOnce
<1>4. WaitInv
  BY CallersAreKnown DEF Init, WaitInv, Waits
<1>5. CalmInv /\ RefusedForAReason /\ CredentialsStayGood
  <2>1. /\ None # [op |-> "use", error |-> "refused"]
        /\ None # [op |-> "authenticate", error |-> "refused"]
    BY SessionAssumption DEF SessionAssumption
  <2>2. QED
    BY <2>1 DEF Init, CalmInv, Calm, Authenticating, RefusedForAReason, CredentialsStayGood
<1>6. CredentialsAreOwnSessions
  BY DEF Init, CredentialsAreOwnSessions
<1>7. QED
  BY <1>1, <1>3, <1>4, <1>5, <1>6 DEF IInv

LEMMA NextKeeps ==
    IInv /\ [Next]_vars => IInv'
<1> SUFFICES ASSUME IInv, [Next]_vars PROVE IInv'
  OBVIOUS
<1>1. CASE UNCHANGED vars
  BY <1>1 DEF vars, deviceVars, callerVars, IInv, TypeInv, NonceRequest, AuthRequest, ServiceRequest,
       FreshInv, NonceInv, NoncesAreGoodOnce, WaitInv, Waits, CredentialsAreOwnSessions,
       CredentialsStayGood, CalmInv, Calm, RefusedForAReason, Held, HeldNonce, Spent, OwnToken,
       Unrivalled, OnCourse, Authenticating
<1>2. ASSUME NEW k \in Channels, Serve(k) PROVE IInv'
  BY <1>2, LookUpClientKeeps, IssueNonceKeeps, LookUpKeyKeeps, TakeNonceKeeps, OpenSessionKeeps,
     AdmitKeeps DEF Serve
<1>3. ASSUME NEW p \in Pairings, RegisterClient(p[1], p[2]) PROVE IInv'
  BY <1>3, RegisterClientKeeps
<1>4. ASSUME NEW c \in Callers, Authenticate(c) PROVE IInv'
  BY <1>4, AuthenticateKeeps
<1>5. ASSUME NEW c \in Callers, Use(c) PROVE IInv'
  BY <1>5, UseKeeps
<1>6. ASSUME NEW c \in Callers, Step(c) PROVE IInv'
  BY <1>6, SignNonceKeeps, SetCredentialKeeps, UsedKeeps DEF Step
<1>7. ASSUME NEW c \in Callers, Abandon(c) PROVE IInv'
  BY <1>7, AbandonKeeps
<1>8. QED
  BY <1>1, <1>2, <1>3, <1>4, <1>5, <1>6, <1>7 DEF Next

\* IInv holds in every reachable state.
THEOREM Invariance == Spec => []IInv
  BY InitKeeps, NextKeeps, PTL DEF Spec

\* SetCredential keeps a session that serveAuth opened for this Client's own
\* identifier and key, whatever headers come with the cookie and whichever
\* callers share the Client.
THEOREM CredentialsAreOwn == Spec => []CredentialsAreOwnSessions
<1>1. IInv => CredentialsAreOwnSessions
  BY DEF IInv
<1>2. QED
  BY <1>1, Invariance, PTL

\* serveNonce and serveAuth: a nonce opens at most one session, and none once
\* a newer one has taken its place, even with abandoned and repeated requests.
THEOREM NoncesGoodOnce == Spec => []NoncesAreGoodOnce
<1>1. IInv => NoncesAreGoodOnce
  BY DEF IInv
<1>2. QED
  BY <1>1, Invariance, PTL

\* A request with the credential of the moment is admitted by the simulator,
\* although other callers may replace the credential while it is under way.
THEOREM CredentialsStay == Spec => []CredentialsStayGood
<1>1. IInv => CredentialsStayGood
  BY DEF IInv
<1>2. QED
  BY <1>1, Invariance, PTL

\* Authenticate is refused only to a caller something interfered with.
THEOREM RefusalsHaveReasons == Spec => []RefusedForAReason
<1>1. IInv => RefusedForAReason
  BY DEF IInv
<1>2. QED
  BY <1>1, Invariance, PTL
=============================================================================
