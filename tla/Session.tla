------------------------------- MODULE Session -------------------------------
(***************************************************************************)
(* Authentication: auth.go's nonce and signature exchange and the cookie   *)
(* it ends in, the credential a Client keeps (transport.go), and the       *)
(* simulator's side of both (dptest/emulator.go, dptest/state.go).         *)
(*                                                                         *)
(* A Client may be shared by goroutines, here its callers.  A handler of   *)
(* the simulator takes the store's mutex once per lookup, so that each     *)
(* lookup is a step of its own.  Random values (nonces, session tokens)    *)
(* are numbers that are never drawn twice; a signature is the pair of the  *)
(* key and the nonce it was made from.                                     *)
(***************************************************************************)
EXTENDS Integers, Sequences

CONSTANTS
    Callers,        \* goroutines, each with one call at a time
    Strays,         \* slots for requests that outlive their sender's patience
    Handles,        \* Client values
    HandleOf,       \* the Client a caller uses
    Identities,     \* client identifiers
    Keys,           \* key pairs
    IdentityOf,     \* the identifier and the key a Client was made with
    FirstKeys,      \* what is registered at the start
    CookieForms,    \* the Set-Cookie headers a device may answer with
    None,           \* "no value"
    MaxCalls,       \* calls of each caller
    Pairings,       \* registrations that may come, as <<identifier, key>>
    MaxEvents       \* exchanges that go wrong and registrations, together

Channels == Callers \cup Strays
IdOf(c) == IdentityOf[HandleOf[c]].id
KeyOf(c) == IdentityOf[HandleOf[c]].key

ASSUME SessionAssumption ==
    /\ HandleOf \in [Callers -> Handles]
    /\ IdentityOf \in [Handles -> [id : Identities, key : Keys]]
    /\ FirstKeys \in [Identities -> Keys \cup {None}]
    /\ MaxCalls \in [Callers -> Nat] /\ MaxEvents \in Nat
    /\ Pairings \subseteq Identities \X Keys
    /\ Callers \cap Strays = {}
    \* The device sends its token in every cookie form; nothing else is None.
    /\ CookieForms \subseteq Seq([name : STRING, value : Int])
    /\ \A form \in CookieForms : \E i \in DOMAIN form :
          form[i].name = "credentials" /\ form[i].value = 1
    /\ None \notin Keys \cup Int \cup [op : {"authenticate", "use"}, error : {"refused"}]

VARIABLES
    keys,           \* device: the registered key of each identifier
    nonces,         \* device: the outstanding nonce of each identifier
    sessions,       \* device: the tokens it accepts
    drawn,          \* how many random values have been drawn
    request,        \* the request on each channel and how far its handler is
    reply,          \* the answer waiting for each caller
    credential,     \* the cookie value each Client holds
    pc, calls, outcome, \* what each caller is at, its calls, how the last one ended
    events,         \* what went wrong or was registered so far
    granted,        \* history: token -> the identifier, key and nonce it stands for
    replaced,       \* history: nonces that gave way to newer ones
    disturbed       \* history: authentications that something else interfered with

deviceVars == <<keys, nonces, sessions, drawn, granted, replaced>>
callerVars == <<credential, pc, calls, outcome, disturbed>>
vars == <<deviceVars, request, reply, callerVars, events>>

-----------------------------------------------------------------------------
(* The device. *)

Answer(k, r) ==
    /\ request' = [request EXCEPT ![k] = None]
    /\ reply' = [c \in Callers |-> IF c = k THEN r ELSE reply[c]]

\* The two requests of an authentication, and how far their handler is.
NonceFor(id, step) == [op |-> "nonce", id |-> id, step |-> step]
AuthFor(id, step, key, signature) ==
    [op |-> "auth", id |-> id, step |-> step, key |-> key, signature |-> signature]

Refused == [status |-> "refused"]
Lost == [status |-> "failed"]

\* The handler goes on: the request remembers what it has read so far.
HandlerAt(k, q) == request' = [request EXCEPT ![k] = q] /\ UNCHANGED reply

\* serveNonce: an unknown client gets no nonce.
LookUpClient(k) ==
    LET q == request[k] IN
    /\ q.op = "nonce" /\ q.step = "arrived"
    /\ IF keys[q.id] = None THEN Answer(k, Refused)
                            ELSE HandlerAt(k, NonceFor(q.id, "known"))
    /\ UNCHANGED deviceVars

NonceSlot_Shared(id) == CHOOSE i \in Identities : TRUE
NonceSlot(id) == id

IssueNonce(k) ==
    LET q == request[k]
        slot == NonceSlot(q.id)
    IN  /\ q.op = "nonce" /\ q.step = "known"
        /\ drawn' = drawn + 1
        /\ nonces' = [nonces EXCEPT ![slot] = drawn']
        /\ replaced' = replaced \cup ({nonces[slot]} \ {None})
        /\ Answer(k, [status |-> "ok", nonce |-> drawn'])
        /\ UNCHANGED <<keys, sessions, granted>>

\* serveAuth reads the key before it takes the nonce ...
LookUpKey(k) ==
    LET q == request[k] IN
    /\ q.op = "auth" /\ q.step = "arrived"
    /\ HandlerAt(k, AuthFor(q.id, "key", keys[q.id], q.signature))
    /\ UNCHANGED deviceVars

Verifies_AnyNonce(q, nonce) ==
    q.key # None /\ nonce # None /\ q.signature.key = q.key
Verifies(q, nonce) ==
    q.key # None /\ nonce # None /\ q.signature = [key |-> q.key, nonce |-> nonce]

\* ... and the nonce is gone whether or not the signature holds.
TakeNonce(k) ==
    LET q == request[k]
        slot == NonceSlot(q.id)
    IN  /\ q.op = "auth" /\ q.step = "key"
        /\ nonces' = [nonces EXCEPT ![slot] = None]
        /\ IF Verifies(q, nonces[slot])
           THEN HandlerAt(k, AuthFor(q.id, "verified", q.key, q.signature))
           ELSE Answer(k, Refused)
        /\ UNCHANGED <<keys, sessions, drawn, granted, replaced>>

\* Every session that was ever opened stays open.
Opened_OnlyNewest(token) == {token}
Opened(token) == sessions \cup {token}

\* A form names the values of the headers; the token takes the place of 1.
Headers(form, token) ==
    [i \in DOMAIN form |->
        [name |-> form[i].name, value |-> IF form[i].value = 1 THEN token ELSE form[i].value]]

OpenSession(k) ==
    LET q == request[k] IN
    /\ q.op = "auth" /\ q.step = "verified"
    /\ drawn' = drawn + 1
    /\ sessions' = Opened(drawn')
    /\ granted' = [t \in DOMAIN granted \cup {drawn'} |->
            IF t = drawn' THEN [id |-> q.id, key |-> q.key, nonce |-> q.signature.nonce]
                          ELSE granted[t]]
    /\ \E form \in CookieForms :
          Answer(k, [status |-> "ok", cookies |-> Headers(form, drawn')])
    /\ UNCHANGED <<keys, nonces, replaced>>

\* Every other endpoint asks for a session first.
Admit(k) ==
    LET q == request[k] IN
    /\ q.op = "service"
    /\ Answer(k, IF q.token \in sessions THEN [status |-> "ok"] ELSE Refused)
    /\ UNCHANGED deviceVars

Serve(k) ==
    /\ request[k] # None
    /\ LookUpClient(k) \/ IssueNonce(k) \/ LookUpKey(k) \/ TakeNonce(k) \/ OpenSession(k) \/ Admit(k)
    /\ UNCHANGED <<callerVars, events>>

Authenticating(c) == pc[c] \in {"nonce", "auth"}

\* RegisterClient: pairing adds an identifier or gives it another key.
RegisterClient(id, key) ==
    /\ events < MaxEvents /\ events' = events + 1
    /\ keys' = [keys EXCEPT ![id] = key]
    /\ disturbed' = disturbed \cup {c \in Callers : Authenticating(c) /\ IdOf(c) = id}
    /\ UNCHANGED <<nonces, sessions, drawn, granted, replaced, request, reply,
                   credential, pc, calls, outcome>>

-----------------------------------------------------------------------------
(* The callers. *)

Start(c) == pc[c] = "idle" /\ calls[c] < MaxCalls[c] /\ calls' = [calls EXCEPT ![c] = @ + 1]

Send(c, q, step) ==
    /\ request' = [request EXCEPT ![c] = q]
    /\ reply' = [reply EXCEPT ![c] = None]
    /\ pc' = [pc EXCEPT ![c] = step]

End(c, op, error) ==
    /\ pc' = [pc EXCEPT ![c] = "idle"]
    /\ outcome' = [outcome EXCEPT ![c] = [op |-> op, error |-> error]]

Heard(c, step) == pc[c] = step /\ reply[c] # None

Fail(c, op) ==
    /\ End(c, op, reply[c].status)
    /\ reply' = [reply EXCEPT ![c] = None]
    /\ UNCHANGED <<request, credential>>

\* Two authentications of one identifier that overlap, an abandoned request
\* of an earlier one, or a key that is not the registered one: each disturbs.
Rivals(c) == {d \in Callers \ {c} : Authenticating(d) /\ IdOf(d) = IdOf(c)}
Leftover(c) == \E s \in Strays : request[s] # None /\ request[s].op # "service"
                                 /\ request[s].id = IdOf(c)

Authenticate(c) ==
    /\ Start(c)
    /\ Send(c, NonceFor(IdOf(c), "arrived"), "nonce")
    /\ disturbed' = (disturbed \ {c}) \cup Rivals(c)
            \cup (IF Rivals(c) # {} \/ Leftover(c) \/ keys[IdOf(c)] # KeyOf(c) THEN {c} ELSE {})
    /\ outcome' = [outcome EXCEPT ![c] = None]
    /\ UNCHANGED <<deviceVars, credential, events>>

SignNonce(c) ==
    LET r == reply[c] IN
    /\ Heard(c, "nonce")
    /\ IF r.status # "ok" THEN Fail(c, "authenticate")
       ELSE /\ Send(c, AuthFor(IdOf(c), "arrived", None, [key |-> KeyOf(c), nonce |-> r.nonce]), "auth")
            /\ UNCHANGED <<outcome, credential>>
    /\ UNCHANGED <<deviceVars, calls, disturbed, events>>

\* The name of the cookie is compared without its case.  Zero is no value.
Offered(headers) ==
    {headers[i].value : i \in {j \in DOMAIN headers : headers[j].name = "credentials"}}
ParseCredentialsCookie_FirstWins(headers) ==
    LET mine == SelectSeq(headers, LAMBDA h : h.name = "credentials")
    IN  IF mine = << >> \/ mine[1].value = 0 THEN None ELSE mine[1].value
ParseCredentialsCookie(headers) ==
    IF \E v \in Offered(headers) : v # 0 /\ Offered(headers) = {v}
    THEN CHOOSE v \in Offered(headers) : TRUE
    ELSE None

\* SetCredential: the last of several callers wins.
SetCredential(c) ==
    LET r == reply[c] IN
    /\ Heard(c, "auth")
    /\ IF r.status # "ok" THEN Fail(c, "authenticate")
       ELSE LET value == ParseCredentialsCookie(r.cookies) IN
            /\ End(c, "authenticate", IF value = None THEN "cookie" ELSE "none")
            /\ credential' = IF value = None THEN credential
                             ELSE [credential EXCEPT ![HandleOf[c]] = value]
            /\ reply' = [reply EXCEPT ![c] = None]
            /\ UNCHANGED request
    /\ UNCHANGED <<deviceVars, calls, disturbed, events>>

\* Any other operation: the credential is read when the request is made.
Use(c) ==
    LET token == credential[HandleOf[c]] IN
    /\ Start(c)
    /\ IF token = None
       THEN End(c, "use", "no credential") /\ UNCHANGED <<request, reply>>
       ELSE Send(c, [op |-> "service", token |-> token], "use") /\ outcome' = [outcome EXCEPT ![c] = None]
    /\ UNCHANGED <<deviceVars, credential, disturbed, events>>

Used(c) ==
    /\ Heard(c, "use")
    /\ IF reply[c].status # "ok" THEN Fail(c, "use")
       ELSE /\ End(c, "use", "none")
            /\ reply' = [reply EXCEPT ![c] = None]
            /\ UNCHANGED <<request, credential>>
    /\ UNCHANGED <<deviceVars, calls, disturbed, events>>

-----------------------------------------------------------------------------
(* What the network may do. *)

\* The request, or its answer, does not arrive in time, or net/http sends a GET
\* again whose connection broke: in each case the device may still handle the
\* one that is under way, and nobody hears that answer.
Abandon(c) ==
    /\ events < MaxEvents /\ events' = events + 1
    /\ request[c] # None
    /\ \E s \in Strays :
          /\ request[s] = None
          /\ \/ request' = [request EXCEPT ![c] = None, ![s] = request[c]]
                /\ reply' = [reply EXCEPT ![c] = Lost]
             \/ request[c].op = "nonce"
                /\ request' = [request EXCEPT ![s] = request[c]]
                /\ UNCHANGED reply
    /\ disturbed' = disturbed \cup {d \in Callers : Authenticating(d) /\ IdOf(d) = IdOf(c)}
    /\ UNCHANGED <<deviceVars, credential, pc, calls, outcome>>

-----------------------------------------------------------------------------

Init ==
    /\ keys = FirstKeys
    /\ nonces = [id \in Identities |-> None]
    /\ sessions = {} /\ drawn = 1
    /\ request = [k \in Channels |-> None]
    /\ reply = [c \in Callers |-> None]
    /\ credential = [h \in Handles |-> None]
    /\ pc = [c \in Callers |-> "idle"]
    /\ calls = [c \in Callers |-> 0]
    /\ outcome = [c \in Callers |-> None]
    /\ events = 0
    /\ granted = [t \in {} |-> None] /\ replaced = {} /\ disturbed = {}

Step(c) == SignNonce(c) \/ SetCredential(c) \/ Used(c)

Next ==
    \/ \E k \in Channels : Serve(k)
    \/ \E p \in Pairings : RegisterClient(p[1], p[2])
    \/ \E c \in Callers : Authenticate(c) \/ Use(c) \/ Step(c) \/ Abandon(c)

Spec == Init /\ [][Next]_vars

-----------------------------------------------------------------------------
(* What authentication promises. *)

\* The credential a Client holds is a session the device accepts and that it
\* opened for this Client's own identifier and key: whatever callers share
\* the Client, whatever headers come with the cookie.
CredentialsAreOwnSessions ==
    \A h \in Handles : credential[h] # None =>
        /\ credential[h] \in sessions
        /\ granted[credential[h]].id = IdentityOf[h].id
        /\ granted[credential[h]].key = IdentityOf[h].key

\* A nonce that gave way to a newer one opens no session, and none opens two.
NoncesAreGoodOnce ==
    \A s, t \in DOMAIN granted :
        /\ granted[t].nonce \notin replaced
        /\ s # t => granted[s].nonce # granted[t].nonce

\* An authentication is refused only if something interfered: another one of
\* the same identifier (its own leftovers included), a lost exchange, or a
\* registration.  Callers with other identifiers never do.
RefusedForAReason ==
    \A c \in Callers :
        outcome[c] = [op |-> "authenticate", error |-> "refused"] => c \in disturbed

\* No request made with a credential is turned away, even when another caller
\* has authenticated the Client again since it was read.
CredentialsStayGood ==
    \A c \in Callers : outcome[c] # [op |-> "use", error |-> "refused"]

=============================================================================
