---------------------------- MODULE Registration ----------------------------
(***************************************************************************)
(* Fresh registration: the seven exchanges of the client (registration.go: *)
(* Register) against the device's single transcript (registration/         *)
(* emulator.go).                                                           *)
(*                                                                         *)
(* The device keeps one transcript, whoever it belongs to: every client's  *)
(* cleanup wipes it and every client's first message replaces it.  Keys    *)
(* and HMACs are symbolic: the key of a sequence is the pair of the two    *)
(* contributions to it, the device's (nonce1 and its DH value, fresh in    *)
(* every M1) and the client's (nonce2 and its DH value, fresh in every     *)
(* call), and a message authenticated with a key tells that key.           *)
(***************************************************************************)
EXTENDS Integers, FiniteSets, Functions

CONSTANTS
    Clients,        \* processes that register
    Strays,         \* slots for requests whose senders are gone
    Pins,           \* PINs the device may show and a user may type
    MaxCalls,       \* bound: registrations in all
    MaxFailures,    \* bound: exchanges that go wrong and processes that die
    MaxPins,        \* bound: changes of the PIN
    None

Channels == Clients \cup Strays
Failure == [status |-> "failure"]

\* Calls, keys, the messages, the device's transcript and a client's variables.
Tags == Clients \X Nat
Keys == Nat \X Tags
Request ==
    [op : {"cleanup", "pin"}]
    \cup [op : {"hash"}, nonce1 : Nat, nonce2 : Tags]
    \cup [op : {"ca"}, key : Keys, eHash : Pins, pin : Pins]
    \cup [op : {"register"}, key : Keys, certificate : Keys, by : Tags]
Reply ==
    [status : {"failure", "refused", "ok"}]
    \cup [status : {"ok"}, nonce1 : Nat]
    \cup [status : {"ok"}, nonce2 : Tags, eHash : Pins]
Transcript == [nonce1 : Nat, dh : BOOLEAN, key : Keys \cup {None},
               eHash : Pins \cup {None}, certificate : Keys \cup {None}]
Results == {"failed", "registered"}
Session == [nonce1 : Nat \cup {None}, eHash : Pins \cup {None}, pin : Pins \cup {None},
            result : Results]

RegistrationAssumption ==
    /\ Clients \cap Strays = {} /\ Pins # {}
    /\ None \notin Clients \cup Pins \cup Nat \cup Results
    /\ None \notin Keys \cup Request \cup Reply \cup Transcript \cup Session
    /\ MaxCalls \in Nat /\ MaxFailures \in Nat /\ MaxPins \in Nat
ASSUME RegistrationAssumption

VARIABLES
    pin,            \* the PIN the device shows
    transcript,     \* the registration under way, or None
    nonces,         \* how many sequences the device has begun
    identities,     \* the clients the device has registered
    request,        \* the request on its way from a channel, or None
    reply,          \* the answer to it, or None
    pc,             \* the message a client waits for, or "idle"
    session,        \* the local variables of its Register, or None
    calls,          \* how many registrations it has started
    outcome,        \* how its last registration ended, or None
    failures, pinChanges,
    settled,        \* history: calls whose last cleanup was acknowledged
    disturbed       \* history: something from outside has interfered with the call

device == <<pin, transcript, nonces, identities>>
channels == <<request, reply>>
client == <<pc, session, calls, outcome>>
bounds == <<failures, pinChanges>>
vars == <<device, channels, client, bounds, settled, disturbed>>

-----------------------------------------------------------------------------
(* The device: one handler at a time, under the emulator's mutex. *)

Answer(k, r) ==
    /\ reply' = [reply EXCEPT ![k] = IF k \in Clients THEN r ELSE None]
    /\ request' = [request EXCEPT ![k] = None]

Refused == [status |-> "refused"]
Done == [status |-> "ok"]
Refuse(k) == Answer(k, Refused) /\ UNCHANGED device

Cleanup_OnlyDH(k) ==
    /\ transcript' = IF transcript = None THEN None ELSE [transcript EXCEPT !.dh = FALSE]
    /\ Answer(k, Done) /\ UNCHANGED <<pin, nonces, identities>>
Cleanup(k) ==
    /\ transcript' = None
    /\ Answer(k, Done) /\ UNCHANGED <<pin, nonces, identities>>

\* M1: a new transcript, whatever there was before.
NewTranscript ==
    [nonce1 |-> nonces + 1, dh |-> TRUE, key |-> None, eHash |-> None, certificate |-> None]

servePIN_WhenFree(k) ==
    /\ transcript = None
    /\ transcript' = NewTranscript /\ nonces' = nonces + 1
    /\ Answer(k, [status |-> "ok", nonce1 |-> nonces'])
    /\ UNCHANGED <<pin, identities>>
servePIN(k) ==
    /\ transcript' = NewTranscript /\ nonces' = nonces + 1
    /\ Answer(k, [status |-> "ok", nonce1 |-> nonces'])
    /\ UNCHANGED <<pin, identities>>

\* M2 and M3: both sides have the key, and eHash commits the device to its PIN.
serveHash(k) ==
    LET q == request[k] IN
    IF transcript # None /\ transcript.dh /\ q.nonce1 = transcript.nonce1
    THEN /\ transcript' = [transcript EXCEPT !.key = <<q.nonce1, q.nonce2>>, !.eHash = pin]
         /\ Answer(k, [status |-> "ok", nonce2 |-> q.nonce2, eHash |-> pin])
         /\ UNCHANGED <<pin, nonces, identities>>
    ELSE Refuse(k)

\* M4 and M5: the client has proved that it knows the PIN.
serveCA(k) ==
    LET q == request[k] IN
    IF /\ transcript # None /\ transcript.key # None /\ q.key = transcript.key
       /\ q.eHash = transcript.eHash /\ q.pin = pin
    THEN /\ transcript' = [transcript EXCEPT !.certificate = q.key]
         /\ Answer(k, Done) /\ UNCHANGED <<pin, nonces, identities>>
    ELSE Refuse(k)

\* M6: the identity, under the key and over the certificate message.
serveRegistration(k) ==
    LET q == request[k] IN
    IF /\ transcript # None /\ transcript.certificate # None
       /\ q.key = transcript.key /\ q.certificate = transcript.certificate
    THEN /\ identities' = identities \cup {[by |-> q.by, pin |-> transcript.eHash]}
         /\ transcript' = [transcript EXCEPT !.dh = FALSE]
         /\ Answer(k, Done) /\ UNCHANGED <<pin, nonces>>
    ELSE Refuse(k)

\* What reaches the device from elsewhere while a client is registering.
Disturbs(k) == [c \in Clients |-> disturbed[c] \/ (c # k /\ pc[c] # "idle")]

ServeHTTP(k) ==
    /\ request[k] # None
    /\ CASE request[k].op = "cleanup"  -> Cleanup(k)
         [] request[k].op = "pin"      -> servePIN(k)
         [] request[k].op = "hash"     -> serveHash(k)
         [] request[k].op = "ca"       -> serveCA(k)
         [] request[k].op = "register" -> serveRegistration(k)
    /\ disturbed' = Disturbs(k)
    /\ UNCHANGED <<client, bounds, settled>>

SetPIN_KeepsTranscript ==
    /\ pinChanges < MaxPins /\ pinChanges' = pinChanges + 1
    /\ pin' \in Pins
    /\ disturbed' = Disturbs(None)
    /\ UNCHANGED <<transcript, nonces, identities, channels, client, failures, settled>>
SetPIN ==
    /\ pinChanges < MaxPins /\ pinChanges' = pinChanges + 1
    /\ pin' \in Pins
    /\ transcript' = None
    /\ disturbed' = Disturbs(None)
    /\ UNCHANGED <<nonces, identities, channels, client, failures, settled>>

-----------------------------------------------------------------------------
(* The client: Register and its deferred cleanup. *)

Ask(c, q, step) ==
    /\ request' = [request EXCEPT ![c] = q]
    /\ reply' = [reply EXCEPT ![c] = None]
    /\ pc' = [pc EXCEPT ![c] = step]

Heard(c, step) == pc[c] = step /\ reply[c] # None
Ok(r) == r.status = "ok"
Tag(c) == <<c, calls[c]>>
Key(c) == <<session[c].nonce1, Tag(c)>>

Register(c) ==
    /\ pc[c] = "idle" /\ FoldFunction(LAMBDA m, n : m + n, 0, calls) < MaxCalls
    /\ calls' = [calls EXCEPT ![c] = @ + 1]
    /\ session' = [session EXCEPT ![c] = [nonce1 |-> None, eHash |-> None, pin |-> None, result |-> "failed"]]
    /\ outcome' = [outcome EXCEPT ![c] = None]
    /\ disturbed' = [disturbed EXCEPT ![c] = FALSE]
    /\ Ask(c, [op |-> "cleanup"], "cleanup")
    /\ UNCHANGED <<device, bounds, settled>>

Return(c, result) ==
    /\ pc' = [pc EXCEPT ![c] = "idle"]
    /\ session' = [session EXCEPT ![c] = None]
    /\ outcome' = [outcome EXCEPT ![c] = result]
    /\ reply' = [reply EXCEPT ![c] = None]
    /\ UNCHANGED <<device, request, calls, bounds, disturbed>>

\* Any return after the initial cleanup runs the deferred one first.
Leave(c, result) ==
    /\ session' = [session EXCEPT ![c].result = result]
    /\ Ask(c, [op |-> "cleanup"], "cleaned")

Quiet == UNCHANGED <<device, calls, outcome, bounds, settled, disturbed>>

AskPIN(c) ==
    /\ Heard(c, "cleanup")
    /\ IF Ok(reply[c])
       THEN Ask(c, [op |-> "pin"], "M1") /\ UNCHANGED session /\ Quiet
       ELSE Return(c, "failed") /\ UNCHANGED settled

Nonce_OfOlderCall(c) == IF calls[c] > 1 THEN reply[c].nonce1 - 1 ELSE reply[c].nonce1
Nonce(c) == reply[c].nonce1

SendHash(c) ==
    /\ Heard(c, "M1") /\ Quiet
    /\ IF Ok(reply[c])
       THEN /\ session' = [session EXCEPT ![c].nonce1 = Nonce(c)]
            /\ Ask(c, [op |-> "hash", nonce1 |-> Nonce(c), nonce2 |-> Tag(c)], "M3")
       ELSE Leave(c, "failed")

\* Only now is the user asked for the PIN.
CheckHash(c) ==
    /\ Heard(c, "M3") /\ Quiet
    /\ IF Ok(reply[c]) /\ reply[c].nonce2 = Tag(c)
       THEN /\ session' = [session EXCEPT ![c].eHash = reply[c].eHash]
            /\ reply' = [reply EXCEPT ![c] = None]
            /\ pc' = [pc EXCEPT ![c] = "pin"]
            /\ UNCHANGED request
       ELSE Leave(c, "failed")

\* The user types a PIN, right or wrong, or none that is valid.
TypePIN(c) ==
    /\ pc[c] = "pin"
    /\ \E p \in Pins \cup {None} :
          /\ disturbed' = [disturbed EXCEPT ![c] = @ \/ p # pin]
          /\ IF p = None THEN Leave(c, "failed")
             ELSE /\ session' = [session EXCEPT ![c].pin = p]
                  /\ Ask(c, [op |-> "ca", key |-> Key(c), eHash |-> session[c].eHash, pin |-> p], "M5")
    /\ UNCHANGED <<device, calls, outcome, bounds, settled>>

\* The certificate comes with the secret that opens the commitment of M3.
SendIdentity(c) ==
    /\ Heard(c, "M5") /\ Quiet
    /\ IF Ok(reply[c]) /\ session[c].eHash = session[c].pin
       THEN /\ Ask(c, [op |-> "register", key |-> Key(c), certificate |-> Key(c), by |-> Tag(c)], "M6")
            /\ UNCHANGED session
       ELSE Leave(c, "failed")

Registered_Answered(r) == r # Failure
Registered(r) == Ok(r)

CheckRegistered(c) ==
    /\ Heard(c, "M6") /\ Quiet
    /\ Leave(c, IF Registered(reply[c]) THEN "registered" ELSE "failed")

\* The error of the last cleanup is ignored.
Finish(c) ==
    /\ Heard(c, "cleaned")
    /\ Return(c, session[c].result)
    /\ settled' = IF Ok(reply[c]) THEN settled \cup {Tag(c)} ELSE settled

-----------------------------------------------------------------------------
(* What goes wrong. *)

GoesWrong(c) ==
    /\ failures < MaxFailures /\ failures' = failures + 1
    /\ disturbed' = [disturbed EXCEPT ![c] = TRUE]
    /\ UNCHANGED <<device, calls, pinChanges, settled>>

LoseRequest(c) ==
    /\ request[c] # None /\ GoesWrong(c)
    /\ Answer(c, Failure) /\ UNCHANGED <<pc, session, outcome>>

\* The answer is lost, too long or not decodable.
LoseReply(c) ==
    /\ reply[c] # None /\ reply[c] # Failure /\ GoesWrong(c)
    /\ reply' = [reply EXCEPT ![c] = Failure]
    /\ UNCHANGED <<request, pc, session, outcome>>

\* The request is still under way when its sender stops waiting for it ...
Adrift(c) ==
    \E s \in Strays :
        /\ request[s] = None
        /\ request' = [request EXCEPT ![c] = None, ![s] = request[c]]

\* ... because of its time-out or the caller's context,
Abandon(c) ==
    /\ request[c] # None /\ GoesWrong(c) /\ Adrift(c)
    /\ reply' = [reply EXCEPT ![c] = Failure]
    /\ UNCHANGED <<pc, session, outcome>>

\* ... or because its process is killed, before or after it has asked.
Kill(c) ==
    /\ pc[c] # "idle" /\ GoesWrong(c)
    /\ Adrift(c) \/ request' = [request EXCEPT ![c] = None]
    /\ reply' = [reply EXCEPT ![c] = None]
    /\ pc' = [pc EXCEPT ![c] = "idle"]
    /\ session' = [session EXCEPT ![c] = None]
    /\ UNCHANGED outcome

-----------------------------------------------------------------------------

\* One PIN is as good as another.
FirstPin == CHOOSE p \in Pins : TRUE

Init ==
    /\ pin = FirstPin /\ transcript = None /\ nonces = 0 /\ identities = {}
    /\ request = [k \in Channels |-> None] /\ reply = [k \in Channels |-> None]
    /\ pc = [c \in Clients |-> "idle"] /\ session = [c \in Clients |-> None]
    /\ calls = [c \in Clients |-> 0] /\ outcome = [c \in Clients |-> None]
    /\ failures = 0 /\ pinChanges = 0
    /\ settled = {} /\ disturbed = [c \in Clients |-> FALSE]

Proceed(c) ==
    \/ AskPIN(c) \/ SendHash(c) \/ CheckHash(c)
    \/ SendIdentity(c) \/ CheckRegistered(c) \/ Finish(c)

Network(c) == LoseRequest(c) \/ LoseReply(c) \/ Abandon(c) \/ Kill(c)

Serving == \E k \in Channels : ServeHTTP(k)
Proceeding == \E c \in Clients : Proceed(c)

Next ==
    \/ Serving \/ Proceeding
    \/ \E c \in Clients : Register(c) \/ TypePIN(c) \/ Network(c)
    \/ SetPIN

Spec == Init /\ [][Next]_vars

\* Something goes on while a request can be served or a client can go on; no
\* scheduling between them is assumed, and nobody has to type a PIN.
Fairness == WF_vars(Serving \/ Proceeding)
LiveSpec == Spec /\ Fairness

-----------------------------------------------------------------------------
(* Properties. *)

\* A registration that is reported as a success has registered this very
\* call's identity, whatever other clients did to the transcript meanwhile.
SuccessMeansRegistered ==
    \A c \in Clients : outcome[c] = "registered" =>
        \E i \in identities : i.by = Tag(c)

\* An identity enters the device only while the PIN its client has typed is
\* still the one the device shows: a change of the PIN ends every sequence
\* that began before it.
RegisteredWithThePINInForce ==
    [][\A i \in identities' \ identities : i.pin = pin]_vars

\* Once a call has ended and its cleanup was acknowledged, nothing of it is
\* left that could still register an identity, not even a late last message.
SettledStaysSettled ==
    [][\A i \in identities' \ identities : i.by \notin settled]_vars

\* A registration fails only for a reason outside of it: an exchange went
\* wrong, the PIN was wrong or changed, or another client used the device.
\* What killed or interrupted clients have left there is no reason.
FailuresHaveReasons ==
    \A c \in Clients : outcome[c] = "failed" => disturbed[c]

\* Seen from outside, the exchanges amount to the promise of Registrar: whatever
\* is lost, delayed or killed on the way, a call takes effect at most once and
\* at one moment, and is over for good when its cleanup was acknowledged.
Outside == INSTANCE Registrar WITH running <- {c \in Clients : pc[c] # "idle"}
KeepsThePromise == Outside!RegistrarSpec

\* Every registration ends or waits for its user, however many others leave
\* theirs half-done.
RegisterGoesOn ==
    \A c \in Clients : pc[c] # "idle" ~> pc[c] \in {"idle", "pin"}

=============================================================================
