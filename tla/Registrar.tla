------------------------------ MODULE Registrar ------------------------------
(***************************************************************************)
(* What pairing promises (pairing.go: Register, registration.go), without  *)
(* transcripts, keys and messages: a call takes effect on the device at    *)
(* most once, in one step and under the PIN shown at that moment; it may   *)
(* do so after its end, when its client was killed or stopped waiting, but *)
(* never once its cleanup was acknowledged; and only a call that took      *)
(* effect succeeds.                                                        *)
(***************************************************************************)
EXTENDS Integers

CONSTANTS Clients, Pins, None

VARIABLES
    pin,            \* the PIN the device shows
    identities,     \* the calls that took effect, each with its PIN
    running,        \* the clients inside Register
    calls,          \* how many calls each client has begun
    outcome,        \* how its last call ended, or None
    settled         \* the calls that can take effect no more

registrarVars == <<pin, identities, running, calls, outcome, settled>>

Call(c) == <<c, calls[c]>>
Enrolled(t) == \E i \in identities : i.by = t

RegistrarInit ==
    /\ pin \in Pins /\ identities = {} /\ running = {} /\ settled = {}
    /\ calls = [c \in Clients |-> 0] /\ outcome = [c \in Clients |-> None]

Begin(c) ==
    /\ c \notin running /\ running' = running \cup {c}
    /\ calls' = [calls EXCEPT ![c] = @ + 1]
    /\ outcome' = [outcome EXCEPT ![c] = None]
    /\ UNCHANGED <<pin, identities, settled>>

\* The one step in which a call takes effect.
Enroll(c, n) ==
    /\ <<c, n>> \notin settled /\ ~Enrolled(<<c, n>>)
    /\ identities' = identities \cup {[by |-> <<c, n>>, pin |-> pin]}
    /\ UNCHANGED <<pin, running, calls, outcome, settled>>

\* A call that took effect may fail all the same: its answer was lost.
End(c, result) ==
    /\ c \in running /\ running' = running \ {c}
    /\ result = "registered" => Enrolled(Call(c))
    /\ outcome' = [outcome EXCEPT ![c] = result]
    /\ settled' \in {settled, settled \cup {Call(c)}}
    /\ UNCHANGED <<pin, identities, calls>>

Die(c) ==
    /\ c \in running /\ running' = running \ {c}
    /\ UNCHANGED <<pin, identities, calls, outcome, settled>>

ChangePIN ==
    /\ pin' \in Pins
    /\ UNCHANGED <<identities, running, calls, outcome, settled>>

RegistrarNext ==
    \/ \E c \in Clients :
          \/ Begin(c) \/ Die(c)
          \/ End(c, "failed") \/ End(c, "registered")
          \/ \E n \in 1 .. calls[c] : Enroll(c, n)
    \/ ChangePIN

RegistrarSpec == RegistrarInit /\ [][RegistrarNext]_registrarVars
=============================================================================
