------------------------- MODULE RegistrationProofs -------------------------
(***************************************************************************)
(* Machine-checked proofs about Registration, for any clients, PINs and    *)
(* late requests and any numbers of registrations, failures and changes of *)
(* the PIN.                                                                *)
(***************************************************************************)
EXTENDS Registration, TLAPS

-----------------------------------------------------------------------------
(* The inductive invariant. *)

Steps == {"idle", "cleanup", "M1", "M3", "pin", "M5", "M6", "cleaned"}

TypeInv ==
    /\ pin \in Pins /\ transcript \in Transcript \cup {None} /\ nonces \in Nat
    /\ request \in [Channels -> Request \cup {None}] /\ reply \in [Channels -> Reply \cup {None}]
    /\ pc \in [Clients -> Steps] /\ session \in [Clients -> Session \cup {None}]
    /\ calls \in [Clients -> Nat] /\ outcome \in [Clients -> Results \cup {None}]
    /\ settled \subseteq Tags /\ disturbed \in [Clients -> BOOLEAN]

\* The transcript is that of the latest sequence; once it has a key it commits
\* to the PIN in force, and it has a certificate only with a key.
TranscriptInv == transcript # None =>
    /\ transcript.nonce1 = nonces
    /\ transcript.key # None => transcript.eHash = pin /\ transcript.key[1] = nonces
    /\ transcript.certificate # None => transcript.key # None

\* What a client has asked and heard belongs to the step it is at.
AskedInv(c) == request[c] # None =>
    /\ reply[c] = None /\ pc[c] \notin {"idle", "pin"}
    /\ pc[c] \in {"cleanup", "cleaned"} => request[c].op = "cleanup"
    /\ pc[c] = "M1" => request[c].op = "pin"
    /\ pc[c] = "M3" => request[c].op = "hash" /\ request[c].nonce1 = session[c].nonce1
                       /\ request[c].nonce2 = Tag(c)
    /\ pc[c] = "M5" => request[c].op = "ca" /\ request[c].key = Key(c)
    /\ pc[c] = "M6" => request[c].op = "register" /\ request[c].key = Key(c)
                       /\ request[c].certificate = Key(c) /\ request[c].by = Tag(c)

HeardInv(c) == reply[c] # None =>
    /\ pc[c] \notin {"idle", "pin"}
    /\ pc[c] = "M1" /\ Ok(reply[c]) => reply[c].nonce1 \in Nat /\ reply[c].nonce1 <= nonces
    /\ pc[c] = "M3" /\ Ok(reply[c]) => reply[c].eHash \in Pins

LocalInv(c) ==
    /\ (pc[c] = "idle") <=> (session[c] = None)
    /\ pc[c] \in {"M3", "pin", "M5", "M6"} => session[c].nonce1 \in Nat /\ session[c].nonce1 <= nonces
    /\ pc[c] \in {"pin", "M5", "M6"} => session[c].eHash \in Pins

\* Success is reported only of an identity that the device has.
Has(t) == \E i \in identities : i.by = t
SuccessInv(c) ==
    /\ outcome[c] = "registered" => Has(Tag(c))
    /\ pc[c] # "idle" /\ session[c].result = "registered" => Has(Tag(c))
    /\ pc[c] = "M6" /\ reply[c] # None /\ Ok(reply[c]) => Has(Tag(c))

\* While nothing disturbs a call, the transcript is its own.
Own(c) == transcript # None /\ transcript.key = Key(c) /\ transcript.eHash = pin
CalmInv(c) ==
    /\ reply[c] # None => Ok(reply[c])
    /\ pc[c] = "M1" /\ reply[c] # None =>
          transcript # None /\ transcript.dh /\ reply[c].nonce1 = transcript.nonce1
    /\ pc[c] = "M3" => transcript # None /\ transcript.dh /\ session[c].nonce1 = transcript.nonce1
    /\ pc[c] = "M3" /\ reply[c] # None => Own(c) /\ reply[c].nonce2 = Tag(c) /\ reply[c].eHash = pin
    /\ pc[c] \in {"pin", "M5", "M6"} => Own(c) /\ session[c].eHash = pin
    /\ pc[c] = "M5" => session[c].pin = pin
    /\ pc[c] = "M5" /\ request[c] # None => request[c].eHash = pin /\ request[c].pin = pin
    /\ pc[c] = "M5" /\ reply[c] # None => transcript.certificate = Key(c)
    /\ pc[c] = "M6" => transcript.certificate = Key(c)
    /\ pc[c] = "cleaned" => session[c].result = "registered"
UndisturbedInv(c) ==
    /\ pc[c] # "idle" /\ ~disturbed[c] => CalmInv(c)
    /\ outcome[c] = "failed" => disturbed[c]

OneInv(c) == AskedInv(c) /\ HeardInv(c) /\ LocalInv(c) /\ SuccessInv(c) /\ UndisturbedInv(c)

\* A late registration message of a call that is over has a key of a sequence
\* that is over.
Over(t) ==
    \/ t \in settled
    \/ \E c \in Clients : t = Tag(c) /\ pc[c] = "cleaned" /\ reply[c] # None /\ Ok(reply[c])
LateInv == \A k \in Channels : request[k] # None /\ request[k].op = "register" =>
    /\ request[k].key[1] <= nonces
    /\ Over(request[k].by) => transcript = None \/ request[k].key[1] < nonces

\* A call that has ended does not run.
SettledInv ==
    /\ \A t \in settled : t[2] <= calls[t[1]]
    /\ \A c \in Clients : pc[c] # "idle" => Tag(c) \notin settled

IInv == TypeInv /\ TranscriptInv /\ LateInv /\ SettledInv /\ \A c \in Clients : OneInv(c)

-----------------------------------------------------------------------------
(* Messages. *)

LEMMA Messages ==
    ASSUME NEW q \in Request
    PROVE  /\ q # None /\ q.op \in {"cleanup", "pin", "hash", "ca", "register"}
           /\ q.op = "hash" => q.nonce1 \in Nat /\ q.nonce2 \in Tags
           /\ q.op = "ca" => q.key \in Keys /\ q.eHash \in Pins /\ q.pin \in Pins
           /\ q.op = "register" => q.key \in Keys /\ q.certificate \in Keys /\ q.by \in Tags
<1>1. q # None
  BY RegistrationAssumption DEF RegistrationAssumption
<1>2. QED
  BY <1>1 DEF Request

LEMMA Answers ==
    /\ \A r \in Reply : r # None /\ r.status \in {"failure", "refused", "ok"}
    /\ Failure \in Reply /\ Refused \in Reply /\ Done \in Reply
    /\ ~Ok(Failure) /\ ~Ok(Refused) /\ Ok(Done)
    /\ Failure # None /\ Refused # None /\ Done # None
<1>1. \A r \in Reply : r # None
  BY RegistrationAssumption DEF RegistrationAssumption
<1>2. \A r \in Reply : r.status \in {"failure", "refused", "ok"}
  BY DEF Reply
<1>3. Failure \in Reply /\ Refused \in Reply /\ Done \in Reply
  BY DEF Reply, Failure, Refused, Done
<1>4. ~Ok(Failure) /\ ~Ok(Refused) /\ Ok(Done)
  BY DEF Ok, Failure, Refused, Done
<1>5. QED
  BY <1>1, <1>2, <1>3, <1>4

\* What a running client has.
LEMMA Running ==
    ASSUME IInv, NEW c \in Clients, pc[c] # "idle"
    PROVE  /\ c \in Channels /\ OneInv(c) /\ session[c] \in Session /\ session[c] # None
           /\ Tag(c) \in Tags /\ Tag(c) \notin settled /\ calls[c] \in Nat
<1>1. OneInv(c) /\ session[c] \in Session
  BY DEF IInv, OneInv, LocalInv, TypeInv
<1>2. session[c] # None
  BY <1>1, RegistrationAssumption DEF RegistrationAssumption
<1>3. QED
  BY <1>1, <1>2 DEF IInv, TypeInv, SettledInv, Tag, Tags, Channels

-----------------------------------------------------------------------------
(* Frames: what the step of one client leaves alone. *)

Apart(c) == \A q \in Clients \ {c} :
    /\ pc'[q] = pc[q] /\ session'[q] = session[q] /\ calls'[q] = calls[q]
    /\ outcome'[q] = outcome[q] /\ disturbed'[q] = disturbed[q]
    /\ request'[q] = request[q] /\ reply'[q] = reply[q]

LEMMA OthersKeep ==
    ASSUME IInv, NEW c \in Clients, Apart(c), NEW q \in Clients, q # c, UNCHANGED device
    PROVE  OneInv(q)'
<1>1. /\ OneInv(q) /\ pc'[q] = pc[q] /\ session'[q] = session[q] /\ calls'[q] = calls[q]
      /\ outcome'[q] = outcome[q] /\ disturbed'[q] = disturbed[q]
      /\ request'[q] = request[q] /\ reply'[q] = reply[q]
      /\ UNCHANGED <<pin, transcript, nonces, identities>>
  BY DEF IInv, Apart, device
<1>2. Tag(q)' = Tag(q) /\ Key(q)' = Key(q) /\ Own(q)' = Own(q)
  BY <1>1 DEF Tag, Key, Own
<1>3. AskedInv(q)' /\ HeardInv(q)' /\ LocalInv(q)'
  BY <1>1, <1>2 DEF OneInv, AskedInv, HeardInv, LocalInv
<1>4. SuccessInv(q)'
  BY <1>1, <1>2 DEF OneInv, SuccessInv, Has
<1>5. UndisturbedInv(q)'
  BY <1>1, <1>2 DEF OneInv, UndisturbedInv, CalmInv
<1>6. QED
  BY <1>3, <1>4, <1>5 DEF OneInv

\* A step of a client that keeps its own part keeps the invariant if the only
\* new registration message is its own.
LEMMA ClientKeeps ==
    ASSUME IInv, NEW c \in Clients, Apart(c), UNCHANGED device, TypeInv', OneInv(c)',
           \A k \in Channels : request'[k] # None /\ request'[k].op = "register" =>
              \/ \E j \in Channels : request'[k] = request[j]
              \/ request'[k].key[1] <= nonces /\ pc[c] = "M5" /\ request'[k].by = Tag(c),
           pc'[c] = "cleaned" /\ reply'[c] # None /\ Ok(reply'[c]) =>
              pc[c] = "cleaned" /\ reply[c] # None /\ Ok(reply[c]) /\ calls'[c] = calls[c],
           \/ settled' = settled
           \/ settled' = settled \cup {Tag(c)} /\ Over(Tag(c)) /\ pc'[c] = "idle",
           \/ calls'[c] = calls[c] /\ (pc'[c] # "idle" => pc[c] # "idle")
           \/ calls'[c] = calls[c] + 1 /\ settled' = settled
    PROVE  IInv'
<1>1. \A q \in Clients : OneInv(q)'
  BY OthersKeep
<1>2. TranscriptInv' /\ UNCHANGED <<transcript, nonces>>
  BY DEF IInv, TranscriptInv, device
<1>3. calls \in [Clients -> Nat] /\ calls' \in [Clients -> Nat] /\ settled \subseteq Tags
  BY DEF IInv, TypeInv
<1>4. \A t : Over(t)' => Over(t)
  BY <1>3 DEF Over, Apart, Tag
<1>5. pc[c] = "M5" => ~Over(Tag(c))
  BY Running DEF Over, Tag
<1>6. LateInv'
  BY <1>2, <1>4, <1>5 DEF IInv, LateInv
<1>7. SettledInv'
  <2>1. \A q \in Clients : calls'[q] >= calls[q]
    BY <1>3 DEF Apart
  <2>2. ASSUME NEW t \in settled' PROVE t[2] <= calls'[t[1]]
    <3>1. CASE t \in settled
      <4>1. t[2] <= calls[t[1]] /\ t[1] \in Clients /\ t[2] \in Nat
        BY <3>1, <1>3 DEF IInv, SettledInv, Tags
      <4>2. QED
        BY <4>1, <2>1, <1>3
    <3>2. CASE t \notin settled
      <4>1. t = Tag(c) /\ calls'[c] = calls[c]
        BY <2>2, <3>2, <1>3
      <4>2. QED
        BY <4>1, <1>3 DEF Tag
    <3>3. QED
      BY <3>1, <3>2
  <2>3. ASSUME NEW q \in Clients, pc'[q] # "idle" PROVE Tag(q)' \notin settled'
    <3>1. CASE q # c
      BY <2>3, <3>1 DEF IInv, SettledInv, Apart, Tag
    <3>2. CASE q = c /\ calls'[c] = calls[c]
      BY <2>3, <3>2, <1>3 DEF IInv, SettledInv, Tag
    <3>3. CASE q = c /\ calls'[c] = calls[c] + 1 /\ settled' = settled
      BY <3>3, <1>3 DEF IInv, SettledInv, Tag, Tags
    <3>4. QED
      BY <3>1, <3>2, <3>3
  <2>4. QED
    BY <2>2, <2>3 DEF SettledInv
<1>8. QED
  BY <1>1, <1>2, <1>6, <1>7 DEF IInv

\* A running client sends its next message.
LEMMA AskKeeps ==
    ASSUME IInv, NEW c \in Clients, pc[c] # "idle", NEW q \in Request, NEW s \in Session, NEW b \in BOOLEAN,
           NEW step \in {"M1", "M3", "M5", "M6", "cleaned"}, Ask(c, q, step),
           session' = [session EXCEPT ![c] = s], disturbed' = [disturbed EXCEPT ![c] = b],
           UNCHANGED <<device, calls, outcome, settled>>, disturbed[c] => b,
           step = "cleaned" => q.op = "cleanup",
           step = "M1" => q.op = "pin",
           step = "M3" => q.op = "hash" /\ q.nonce1 = s.nonce1 /\ q.nonce2 = Tag(c),
           step = "M5" => q.op = "ca" /\ q.key = <<s.nonce1, Tag(c)>>,
           step = "M6" => pc[c] = "M5" /\ q.op = "register" /\ q.key = <<s.nonce1, Tag(c)>>
                          /\ q.certificate = q.key /\ q.by = Tag(c),
           step \in {"M3", "M5", "M6"} => s.nonce1 \in Nat /\ s.nonce1 <= nonces,
           step \in {"M5", "M6"} => s.eHash \in Pins,
           s.result = "registered" => Has(Tag(c)),
           ~b => /\ step = "M3" => transcript # None /\ transcript.dh /\ s.nonce1 = transcript.nonce1
                 /\ step \in {"M5", "M6"} => transcript # None /\ transcript.key = <<s.nonce1, Tag(c)>>
                                             /\ transcript.eHash = pin /\ s.eHash = pin
                 /\ step = "M5" => s.pin = pin /\ q.eHash = pin /\ q.pin = pin
                 /\ step = "M6" => transcript.certificate = <<s.nonce1, Tag(c)>>
                 /\ step = "cleaned" => s.result = "registered"
    PROVE  IInv'
<1>1. /\ request' = [request EXCEPT ![c] = q] /\ reply' = [reply EXCEPT ![c] = None]
      /\ pc' = [pc EXCEPT ![c] = step]
      /\ UNCHANGED <<pin, transcript, nonces, identities, calls, outcome, settled>>
  BY DEF Ask, device
<1>2. TypeInv'
  BY <1>1 DEF IInv, TypeInv, Steps
<1>3. /\ pc'[c] = step /\ request'[c] = q /\ reply'[c] = None /\ session'[c] = s /\ disturbed'[c] = b
      /\ calls'[c] = calls[c] /\ outcome'[c] = outcome[c] /\ Apart(c)
      /\ \A k \in Channels : k # c => request'[k] = request[k]
  BY <1>1, Running DEF IInv, TypeInv, Apart, Channels
<1>4. Tag(c)' = Tag(c) /\ Key(c)' = <<s.nonce1, Tag(c)>>
  BY <1>3 DEF Tag, Key
<1>5. OneInv(c) /\ s # None
  BY Running, RegistrationAssumption DEF RegistrationAssumption
<1>6. AskedInv(c)'
  BY <1>3, <1>4 DEF AskedInv
<1>7. HeardInv(c)' /\ LocalInv(c)'
  BY <1>1, <1>3, <1>5 DEF HeardInv, LocalInv
<1>8. SuccessInv(c)'
  BY <1>1, <1>3, <1>4, <1>5 DEF OneInv, SuccessInv, Has
<1>9. UndisturbedInv(c)'
  BY <1>1, <1>3, <1>4, <1>5 DEF OneInv, UndisturbedInv, CalmInv, Own
<1>10. \A k \in Channels : request'[k] # None /\ request'[k].op = "register" =>
              \/ \E j \in Channels : request'[k] = request[j]
              \/ request'[k].key[1] <= nonces /\ pc[c] = "M5" /\ request'[k].by = Tag(c)
  BY <1>3
<1>11. QED
  BY <1>2, <1>3, <1>6, <1>7, <1>8, <1>9, <1>10, ClientKeeps DEF OneInv

\* A client that leaves sends its cleanup first.
LEMMA LeaveKeeps ==
    ASSUME IInv, NEW c \in Clients, pc[c] # "idle", NEW b \in BOOLEAN,
           NEW result \in Results, Leave(c, result),
           disturbed' = [disturbed EXCEPT ![c] = b], disturbed[c] => b,
           UNCHANGED <<device, calls, outcome, settled>>,
           result = "registered" => Has(Tag(c)), ~b => result = "registered"
    PROVE  IInv'
<1> DEFINE q == [op |-> "cleanup"]
           s == [session[c] EXCEPT !.result = result]
<1>1. session' = [session EXCEPT ![c] = s] /\ Ask(c, q, "cleaned")
  BY DEF Leave
<1>2. q \in Request /\ q.op = "cleanup"
  BY DEF Request
<1>3. s \in Session /\ s.result = result
  BY Running DEF Session, Results
<1> HIDE DEF q, s
<1>4. QED
  BY <1>1, <1>2, <1>3, AskKeeps

-----------------------------------------------------------------------------
(* The steps of the clients. *)

LEMMA RegisterKeeps ==
    ASSUME IInv, NEW c \in Clients, Register(c)
    PROVE  IInv'
<1> DEFINE s == [nonce1 |-> None, eHash |-> None, pin |-> None, result |-> "failed"]
           q == [op |-> "cleanup"]
<1>1. /\ pc[c] = "idle" /\ calls' = [calls EXCEPT ![c] = @ + 1]
      /\ session' = [session EXCEPT ![c] = s] /\ outcome' = [outcome EXCEPT ![c] = None]
      /\ disturbed' = [disturbed EXCEPT ![c] = FALSE]
      /\ request' = [request EXCEPT ![c] = q] /\ reply' = [reply EXCEPT ![c] = None]
      /\ pc' = [pc EXCEPT ![c] = "cleanup"] /\ UNCHANGED <<device, settled>>
  BY DEF Register, Ask
<1>2. q \in Request /\ q.op = "cleanup"
  BY DEF Request
<1>3. s \in Session /\ s.result = "failed"
  BY DEF Session, Results
<1>4. s # None
  BY <1>3, RegistrationAssumption DEF RegistrationAssumption
<1> HIDE DEF q, s
<1>5. TypeInv'
  <2>1. calls' \in [Clients -> Nat] /\ outcome' \in [Clients -> Results \cup {None}]
    BY <1>1 DEF IInv, TypeInv
  <2>2. request' \in [Channels -> Request \cup {None}] /\ reply' \in [Channels -> Reply \cup {None}]
    BY <1>1, <1>2 DEF IInv, TypeInv
  <2>3. /\ pc' \in [Clients -> Steps] /\ session' \in [Clients -> Session \cup {None}]
        /\ disturbed' \in [Clients -> BOOLEAN]
    BY <1>1, <1>3 DEF IInv, TypeInv, Steps
  <2>4. QED
    BY <1>1, <2>1, <2>2, <2>3 DEF IInv, TypeInv, device
<1>6. /\ pc'[c] = "cleanup" /\ request'[c] = q /\ reply'[c] = None /\ session'[c] = s
      /\ calls'[c] = calls[c] + 1 /\ outcome'[c] = None /\ Apart(c)
      /\ \A k \in Channels : k # c => request'[k] = request[k]
  BY <1>1 DEF IInv, TypeInv, Apart, Channels
<1>7. AskedInv(c)' /\ HeardInv(c)' /\ LocalInv(c)'
  BY <1>2, <1>4, <1>6 DEF AskedInv, HeardInv, LocalInv
<1>8. SuccessInv(c)' /\ UndisturbedInv(c)'
  BY <1>3, <1>6, RegistrationAssumption
  DEF SuccessInv, UndisturbedInv, CalmInv, RegistrationAssumption, Results
<1>9. \A k \in Channels : request'[k] # None /\ request'[k].op = "register" =>
              \E j \in Channels : request'[k] = request[j]
  BY <1>2, <1>6
<1>10. OneInv(c)'
  BY <1>7, <1>8 DEF OneInv
<1>11. settled' = settled /\ UNCHANGED device
  BY <1>1
<1>12. QED
  BY <1>5, <1>6, <1>9, <1>10, <1>11, ClientKeeps

\* What a client has heard when it goes on.
LEMMA Hearing ==
    ASSUME IInv, NEW c \in Clients, NEW step \in Steps, Heard(c, step)
    PROVE  /\ pc[c] = step /\ pc[c] # "idle" /\ request[c] = None /\ reply[c] # None /\ reply[c] \in Reply
           /\ step # "idle" /\ step # "pin" /\ nonces \in Nat /\ disturbed[c] \in BOOLEAN
           /\ disturbed = [disturbed EXCEPT ![c] = disturbed[c]]
  BY DEF Heard, IInv, OneInv, AskedInv, HeardInv, TypeInv, Channels

LEMMA AskPINKeeps ==
    ASSUME IInv, NEW c \in Clients, AskPIN(c)
    PROVE  IInv'
<1>1. Heard(c, "cleanup") /\ "cleanup" \in Steps
  BY DEF AskPIN, Steps
<1>2. pc[c] = "cleanup" /\ request[c] = None /\ reply[c] # None
  BY <1>1, Hearing
<1>3. CASE Ok(reply[c])
  <2> DEFINE q == [op |-> "pin"]
  <2>1. /\ Ask(c, q, "M1") /\ session' = [session EXCEPT ![c] = session[c]]
        /\ UNCHANGED <<device, calls, outcome, settled>>
        /\ disturbed' = [disturbed EXCEPT ![c] = disturbed[c]] /\ disturbed[c] \in BOOLEAN
    BY <1>1, <1>3, Hearing DEF AskPIN, Quiet, IInv, TypeInv
  <2>2. q \in Request /\ q.op = "pin"
    BY DEF Request
  <2>3. session[c] \in Session /\ (session[c].result = "registered" => Has(Tag(c)))
    BY <1>2, Running DEF OneInv, SuccessInv
  <2> HIDE DEF q
  <2>4. QED
    BY <1>2, <2>1, <2>2, <2>3, AskKeeps
<1>4. CASE ~Ok(reply[c])
  <2>1. /\ pc' = [pc EXCEPT ![c] = "idle"] /\ session' = [session EXCEPT ![c] = None]
        /\ outcome' = [outcome EXCEPT ![c] = "failed"] /\ reply' = [reply EXCEPT ![c] = None]
        /\ UNCHANGED <<device, request, calls, disturbed, settled>>
    BY <1>4 DEF AskPIN, Return
  <2>2. TypeInv'
    BY <2>1 DEF IInv, TypeInv, Steps, Results, device
  <2>3. /\ pc'[c] = "idle" /\ request'[c] = None /\ reply'[c] = None /\ session'[c] = None
        /\ calls'[c] = calls[c] /\ outcome'[c] = "failed" /\ disturbed'[c] = disturbed[c] /\ Apart(c)
    BY <1>2, <2>1 DEF IInv, TypeInv, Apart, Channels
  <2>4. disturbed[c]
    BY <1>2, <1>4, Running DEF OneInv, UndisturbedInv, CalmInv
  <2>5. OneInv(c)'
    BY <2>3, <2>4 DEF OneInv, AskedInv, HeardInv, LocalInv, SuccessInv, UndisturbedInv
  <2>6. QED
    BY <2>1, <2>2, <2>3, <2>5, ClientKeeps
<1>5. QED
  BY <1>3, <1>4

LEMMA SendHashKeeps ==
    ASSUME IInv, NEW c \in Clients, SendHash(c)
    PROVE  IInv'
<1>1. Heard(c, "M1") /\ "M1" \in Steps
  BY DEF SendHash, Steps
<1>2. /\ pc[c] = "M1" /\ reply[c] # None /\ UNCHANGED <<device, calls, outcome, settled>>
      /\ disturbed' = [disturbed EXCEPT ![c] = disturbed[c]] /\ disturbed[c] \in BOOLEAN
  BY <1>1, Hearing DEF SendHash, Quiet
<1>3. CASE Ok(reply[c])
  <2> DEFINE n == reply[c].nonce1
             s == [session[c] EXCEPT !.nonce1 = n]
             q == [op |-> "hash", nonce1 |-> n, nonce2 |-> Tag(c)]
  <2>1. session' = [session EXCEPT ![c] = s] /\ Ask(c, q, "M3")
    BY <1>3 DEF SendHash, Nonce
  <2>2. n \in Nat /\ n <= nonces
    BY <1>2, <1>3, Running DEF OneInv, HeardInv
  <2>3. ~disturbed[c] => transcript # None /\ transcript.dh /\ n = transcript.nonce1
    BY <1>2, Running DEF OneInv, UndisturbedInv, CalmInv
  <2> HIDE DEF n
  <2>4. s \in Session /\ s.nonce1 = n /\ (s.result = "registered" => Has(Tag(c)))
    BY <1>2, <2>2, Running DEF Session, OneInv, SuccessInv
  <2>5. q \in Request /\ q.op = "hash" /\ q.nonce1 = n /\ q.nonce2 = Tag(c)
    BY <1>2, <2>2, Running DEF Request
  <2> HIDE DEF q, s
  <2>6. QED
    BY <1>2, <2>1, <2>2, <2>3, <2>4, <2>5, AskKeeps
<1>4. CASE ~Ok(reply[c])
  <2>1. Leave(c, "failed")
    BY <1>4 DEF SendHash
  <2>2. disturbed[c]
    BY <1>2, <1>4, Running DEF OneInv, UndisturbedInv, CalmInv
  <2>3. QED
    BY <1>2, <2>1, <2>2, LeaveKeeps DEF Results
<1>5. QED
  BY <1>3, <1>4

LEMMA CheckHashKeeps ==
    ASSUME IInv, NEW c \in Clients, CheckHash(c)
    PROVE  IInv'
<1>1. Heard(c, "M3") /\ "M3" \in Steps
  BY DEF CheckHash, Steps
<1>2. /\ pc[c] = "M3" /\ reply[c] # None /\ UNCHANGED <<device, calls, outcome, settled>>
      /\ request[c] = None /\ UNCHANGED disturbed
      /\ disturbed' = [disturbed EXCEPT ![c] = disturbed[c]] /\ disturbed[c] \in BOOLEAN
  BY <1>1, Hearing DEF CheckHash, Quiet
<1>3. CASE Ok(reply[c]) /\ reply[c].nonce2 = Tag(c)
  <2> DEFINE e == reply[c].eHash
             s == [session[c] EXCEPT !.eHash = e]
  <2>1. /\ session' = [session EXCEPT ![c] = s] /\ reply' = [reply EXCEPT ![c] = None]
        /\ pc' = [pc EXCEPT ![c] = "pin"] /\ UNCHANGED request
    BY <1>3 DEF CheckHash
  <2>2. e \in Pins /\ session[c] \in Session /\ OneInv(c) /\ session[c] # None
    BY <1>2, <1>3, Running DEF OneInv, HeardInv
  <2>3. ~disturbed[c] => Own(c) /\ e = pin
    BY <1>2, Running DEF OneInv, UndisturbedInv, CalmInv
  <2> HIDE DEF e
  <2>4. s \in Session /\ s.nonce1 = session[c].nonce1 /\ s.eHash = e /\ s.result = session[c].result
    BY <2>2 DEF Session
  <2>5. s # None
    BY <2>4, RegistrationAssumption DEF RegistrationAssumption
  <2> HIDE DEF s
  <2>6. TypeInv'
    BY <1>2, <2>1, <2>4 DEF IInv, TypeInv, Steps, device
  <2>7. /\ pc'[c] = "pin" /\ request'[c] = None /\ reply'[c] = None /\ session'[c] = s
        /\ calls'[c] = calls[c] /\ outcome'[c] = outcome[c] /\ disturbed'[c] = disturbed[c] /\ Apart(c)
    BY <1>2, <2>1 DEF IInv, TypeInv, Apart, Channels
  <2>8. Key(c)' = Key(c) /\ Tag(c)' = Tag(c) /\ Own(c)' = Own(c)
    BY <1>2, <2>4, <2>7 DEF Key, Tag, Own, device
  <2>9. AskedInv(c)' /\ HeardInv(c)' /\ LocalInv(c)'
    BY <1>2, <2>2, <2>4, <2>5, <2>7 DEF OneInv, AskedInv, HeardInv, LocalInv, device
  <2>10. SuccessInv(c)'
    BY <1>2, <2>2, <2>4, <2>7, <2>8 DEF OneInv, SuccessInv, Has, device
  <2>11. UndisturbedInv(c)'
    BY <1>2, <2>2, <2>3, <2>4, <2>7, <2>8 DEF OneInv, UndisturbedInv, CalmInv, device
  <2>12. QED
    BY <1>2, <2>1, <2>6, <2>7, <2>9, <2>10, <2>11, ClientKeeps DEF OneInv
<1>4. CASE ~(Ok(reply[c]) /\ reply[c].nonce2 = Tag(c))
  <2>1. Leave(c, "failed")
    BY <1>4 DEF CheckHash
  <2>2. disturbed[c]
    BY <1>2, <1>4, Running DEF OneInv, UndisturbedInv, CalmInv
  <2>3. QED
    BY <1>2, <2>1, <2>2, LeaveKeeps DEF Results
<1>5. QED
  BY <1>3, <1>4

LEMMA TypePINKeeps ==
    ASSUME IInv, NEW c \in Clients, TypePIN(c)
    PROVE  IInv'
<1>1. pc[c] = "pin" /\ UNCHANGED <<device, calls, outcome, settled>> /\ pc[c] # "idle"
  BY DEF TypePIN
<1>2. PICK p \in Pins \cup {None} :
          /\ disturbed' = [disturbed EXCEPT ![c] = @ \/ p # pin]
          /\ IF p = None THEN Leave(c, "failed")
             ELSE /\ session' = [session EXCEPT ![c].pin = p]
                  /\ Ask(c, [op |-> "ca", key |-> Key(c), eHash |-> session[c].eHash, pin |-> p], "M5")
  BY DEF TypePIN
<1>3. PICK b \in BOOLEAN : b <=> disturbed[c] \/ p # pin
  OBVIOUS
<1>4. disturbed' = [disturbed EXCEPT ![c] = b] /\ (disturbed[c] => b) /\ pin \in Pins /\ None \notin Pins
  BY <1>2, <1>3, RegistrationAssumption DEF IInv, TypeInv, RegistrationAssumption
<1>5. CASE p = None
  BY <1>1, <1>2, <1>3, <1>4, <1>5, LeaveKeeps DEF Results
<1>6. CASE p # None
  <2> DEFINE s == [session[c] EXCEPT !.pin = p]
             q == [op |-> "ca", key |-> Key(c), eHash |-> session[c].eHash, pin |-> p]
  <2>1. session' = [session EXCEPT ![c] = s] /\ Ask(c, q, "M5") /\ p \in Pins
    BY <1>2, <1>6
  <2>2. /\ OneInv(c) /\ session[c] \in Session /\ session[c].nonce1 \in Nat /\ session[c].nonce1 <= nonces
        /\ session[c].eHash \in Pins /\ (session[c].result = "registered" => Has(Tag(c)))
    BY <1>1, Running DEF OneInv, LocalInv, SuccessInv
  <2>3. /\ s \in Session /\ s.nonce1 = session[c].nonce1 /\ s.eHash = session[c].eHash /\ s.pin = p
        /\ s.result = session[c].result
    BY <2>1, <2>2 DEF Session
  <2>4. /\ q \in Request /\ q.op = "ca" /\ q.key = <<session[c].nonce1, Tag(c)>>
        /\ q.eHash = session[c].eHash /\ q.pin = p
    BY <1>1, <2>1, <2>2, Running DEF Request, Keys, Key
  <2>5. ~disturbed[c] => Own(c) /\ session[c].eHash = pin
    BY <1>1, <2>2 DEF OneInv, UndisturbedInv, CalmInv
  <2> HIDE DEF q, s
  <2>6. ~b => /\ transcript # None /\ transcript.key = <<s.nonce1, Tag(c)>> /\ transcript.eHash = pin
              /\ s.eHash = pin /\ s.pin = pin /\ q.eHash = pin /\ q.pin = pin
    BY <1>3, <2>3, <2>4, <2>5 DEF Own, Key
  <2>7. QED
    BY <1>1, <1>4, <2>1, <2>2, <2>3, <2>4, <2>6, AskKeeps
<1>7. QED
  BY <1>5, <1>6

LEMMA SendIdentityKeeps ==
    ASSUME IInv, NEW c \in Clients, SendIdentity(c)
    PROVE  IInv'
<1>1. Heard(c, "M5") /\ "M5" \in Steps
  BY DEF SendIdentity, Steps
<1>2. /\ pc[c] = "M5" /\ reply[c] # None /\ UNCHANGED <<device, calls, outcome, settled>>
      /\ pc[c] # "idle"
      /\ disturbed' = [disturbed EXCEPT ![c] = disturbed[c]] /\ disturbed[c] \in BOOLEAN
  BY <1>1, Hearing DEF SendIdentity, Quiet
<1>3. /\ OneInv(c) /\ session[c] \in Session /\ session[c].nonce1 \in Nat /\ session[c].nonce1 <= nonces
      /\ session[c].eHash \in Pins /\ (session[c].result = "registered" => Has(Tag(c)))
  BY <1>2, Running DEF OneInv, LocalInv, SuccessInv
<1>4. ~disturbed[c] => Own(c) /\ session[c].eHash = pin /\ session[c].pin = pin /\ Ok(reply[c])
                       /\ transcript.certificate = Key(c)
  BY <1>2, <1>3 DEF OneInv, UndisturbedInv, CalmInv
<1>5. CASE Ok(reply[c]) /\ session[c].eHash = session[c].pin
  <2> DEFINE q == [op |-> "register", key |-> Key(c), certificate |-> Key(c), by |-> Tag(c)]
  <2>1. Ask(c, q, "M6") /\ session' = [session EXCEPT ![c] = session[c]]
    BY <1>2, <1>5 DEF SendIdentity, IInv, TypeInv
  <2>2. /\ q \in Request /\ q.op = "register" /\ q.key = <<session[c].nonce1, Tag(c)>>
        /\ q.certificate = q.key /\ q.by = Tag(c)
    BY <1>2, <1>3, Running DEF Request, Keys, Key
  <2> HIDE DEF q
  <2>3. ~disturbed[c] => /\ transcript # None /\ transcript.key = <<session[c].nonce1, Tag(c)>>
                         /\ transcript.eHash = pin /\ session[c].eHash = pin
                         /\ transcript.certificate = <<session[c].nonce1, Tag(c)>>
    BY <1>4 DEF Own, Key
  <2>4. QED
    BY <1>2, <1>3, <2>1, <2>2, <2>3, AskKeeps
<1>6. CASE ~(Ok(reply[c]) /\ session[c].eHash = session[c].pin)
  <2>1. Leave(c, "failed") /\ disturbed[c]
    BY <1>4, <1>6 DEF SendIdentity
  <2>2. QED
    BY <1>2, <2>1, LeaveKeeps DEF Results
<1>7. QED
  BY <1>5, <1>6

LEMMA CheckRegisteredKeeps ==
    ASSUME IInv, NEW c \in Clients, CheckRegistered(c)
    PROVE  IInv'
<1>1. Heard(c, "M6") /\ "M6" \in Steps
  BY DEF CheckRegistered, Steps
<1>2. /\ pc[c] = "M6" /\ reply[c] # None /\ UNCHANGED <<device, calls, outcome, settled>>
      /\ pc[c] # "idle"
      /\ disturbed' = [disturbed EXCEPT ![c] = disturbed[c]] /\ disturbed[c] \in BOOLEAN
  BY <1>1, Hearing DEF CheckRegistered, Quiet
<1>3. (Ok(reply[c]) => Has(Tag(c))) /\ (~disturbed[c] => Ok(reply[c]))
  BY <1>2, Running DEF OneInv, SuccessInv, UndisturbedInv, CalmInv
<1>4. CASE Ok(reply[c])
  <2>1. Leave(c, "registered")
    BY <1>4 DEF CheckRegistered, Registered
  <2>2. QED
    BY <1>2, <1>3, <1>4, <2>1, LeaveKeeps DEF Results
<1>5. CASE ~Ok(reply[c])
  <2>1. Leave(c, "failed")
    BY <1>5 DEF CheckRegistered, Registered
  <2>2. QED
    BY <1>2, <1>3, <1>5, <2>1, LeaveKeeps DEF Results
<1>6. QED
  BY <1>4, <1>5

LEMMA FinishKeeps ==
    ASSUME IInv, NEW c \in Clients, Finish(c)
    PROVE  IInv'
<1>1. Heard(c, "cleaned") /\ "cleaned" \in Steps
  BY DEF Finish, Steps
<1>2. pc[c] = "cleaned" /\ reply[c] # None /\ request[c] = None /\ pc[c] # "idle"
  BY <1>1, Hearing
<1>3. /\ pc' = [pc EXCEPT ![c] = "idle"] /\ session' = [session EXCEPT ![c] = None]
      /\ outcome' = [outcome EXCEPT ![c] = session[c].result] /\ reply' = [reply EXCEPT ![c] = None]
      /\ UNCHANGED <<device, request, calls, disturbed>>
      /\ settled' = IF Ok(reply[c]) THEN settled \cup {Tag(c)} ELSE settled
  BY DEF Finish, Return
<1>4. /\ session[c].result \in Results /\ (session[c].result = "registered" => Has(Tag(c)))
      /\ (session[c].result = "failed" => disturbed[c]) /\ Tag(c) \in Tags
  BY <1>2, Running DEF Session, Results, OneInv, SuccessInv, UndisturbedInv, CalmInv
<1>5. TypeInv'
  BY <1>3, <1>4 DEF IInv, TypeInv, Steps, device
<1>6. /\ pc'[c] = "idle" /\ request'[c] = None /\ reply'[c] = None /\ session'[c] = None
      /\ calls'[c] = calls[c] /\ outcome'[c] = session[c].result /\ disturbed'[c] = disturbed[c]
      /\ Apart(c) /\ Tag(c)' = Tag(c)
  BY <1>2, <1>3 DEF IInv, TypeInv, Apart, Channels, Tag
<1>7. OneInv(c)'
  BY <1>3, <1>4, <1>6 DEF OneInv, AskedInv, HeardInv, LocalInv, SuccessInv, UndisturbedInv, Has, device
<1>8. settled' = settled \/ (settled' = settled \cup {Tag(c)} /\ Over(Tag(c)))
  BY <1>2, <1>3 DEF Over
<1>9. QED
  BY <1>2, <1>3, <1>5, <1>6, <1>7, <1>8, ClientKeeps

-----------------------------------------------------------------------------
(* What goes wrong on the way. *)

LEMMA LoseRequestKeeps ==
    ASSUME IInv, NEW c \in Clients, LoseRequest(c)
    PROVE  IInv'
<1>1. /\ request[c] # None /\ disturbed' = [disturbed EXCEPT ![c] = TRUE]
      /\ reply' = [reply EXCEPT ![c] = Failure] /\ request' = [request EXCEPT ![c] = None]
      /\ UNCHANGED <<device, calls, settled, pc, session, outcome>>
  BY DEF LoseRequest, GoesWrong, Answer
<1>2. OneInv(c)
  BY DEF IInv
<1>3. pc[c] \notin {"idle", "pin"}
  BY <1>1, <1>2 DEF OneInv, AskedInv
<1>4. TypeInv'
  BY <1>1, Answers DEF IInv, TypeInv, device
<1>5. /\ pc'[c] = pc[c] /\ request'[c] = None /\ reply'[c] = Failure /\ session'[c] = session[c]
      /\ calls'[c] = calls[c] /\ outcome'[c] = outcome[c] /\ disturbed'[c] /\ Apart(c) /\ Tag(c)' = Tag(c)
      /\ \A k \in Channels : k # c => request'[k] = request[k]
  BY <1>1 DEF IInv, TypeInv, Apart, Channels, Tag
<1>6. AskedInv(c)' /\ HeardInv(c)' /\ LocalInv(c)'
  BY <1>1, <1>2, <1>3, <1>5, Answers DEF OneInv, AskedInv, HeardInv, LocalInv, Ok, device
<1>7. SuccessInv(c)' /\ UndisturbedInv(c)'
  BY <1>1, <1>2, <1>5, Answers DEF OneInv, SuccessInv, UndisturbedInv, Has, Ok, device
<1>8. ~Ok(reply'[c])
  BY <1>5, Answers
<1>9. QED
  BY <1>1, <1>4, <1>5, <1>6, <1>7, <1>8, ClientKeeps DEF OneInv

LEMMA LoseReplyKeeps ==
    ASSUME IInv, NEW c \in Clients, LoseReply(c)
    PROVE  IInv'
<1>1. /\ reply[c] # None /\ disturbed' = [disturbed EXCEPT ![c] = TRUE]
      /\ reply' = [reply EXCEPT ![c] = Failure]
      /\ UNCHANGED <<device, calls, settled, request, pc, session, outcome>>
  BY DEF LoseReply, GoesWrong
<1>2. OneInv(c)
  BY DEF IInv
<1>3. pc[c] \notin {"idle", "pin"} /\ request[c] = None
  BY <1>1, <1>2 DEF OneInv, HeardInv, AskedInv
<1>4. TypeInv'
  BY <1>1, Answers DEF IInv, TypeInv, device
<1>5. /\ pc'[c] = pc[c] /\ request'[c] = None /\ reply'[c] = Failure /\ session'[c] = session[c]
      /\ calls'[c] = calls[c] /\ outcome'[c] = outcome[c] /\ disturbed'[c] /\ Apart(c) /\ Tag(c)' = Tag(c)
  BY <1>1, <1>3 DEF IInv, TypeInv, Apart, Channels, Tag
<1>6. AskedInv(c)' /\ HeardInv(c)' /\ LocalInv(c)'
  BY <1>1, <1>2, <1>3, <1>5, Answers DEF OneInv, AskedInv, HeardInv, LocalInv, Ok, device
<1>7. SuccessInv(c)' /\ UndisturbedInv(c)'
  BY <1>1, <1>2, <1>5, Answers DEF OneInv, SuccessInv, UndisturbedInv, Has, Ok, device
<1>8. ~Ok(reply'[c])
  BY <1>5, Answers
<1>9. QED
  BY <1>1, <1>4, <1>5, <1>6, <1>7, <1>8, ClientKeeps DEF OneInv

\* A request that goes adrift is an old one in a new place.
LEMMA AdriftKeeps ==
    ASSUME IInv, NEW c \in Clients, Adrift(c) \/ request' = [request EXCEPT ![c] = None]
    PROVE  /\ request' \in [Channels -> Request \cup {None}] /\ request'[c] = None
           /\ \A q \in Clients : q # c => request'[q] = request[q]
           /\ \A k \in Channels : request'[k] # None => \E j \in Channels : request'[k] = request[j]
<1>1. request \in [Channels -> Request \cup {None}] /\ c \in Channels
  BY DEF IInv, TypeInv, Channels
<1>2. CASE request' = [request EXCEPT ![c] = None]
  BY <1>1, <1>2 DEF Channels
<1>3. CASE Adrift(c)
  <2>1. PICK s \in Strays : request' = [request EXCEPT ![c] = None, ![s] = request[c]]
    BY <1>3 DEF Adrift
  <2>2. s \in Channels /\ s # c /\ s \notin Clients
    BY RegistrationAssumption DEF RegistrationAssumption, Channels
  <2>3. request'[c] = None /\ request'[s] = request[c]
        /\ \A k \in Channels : k # c /\ k # s => request'[k] = request[k]
    BY <1>1, <2>1, <2>2
  <2>4. request' \in [Channels -> Request \cup {None}]
    BY <1>1, <2>1, <2>2
  <2>5. \A q \in Clients : q # c => request'[q] = request[q]
    BY <2>2, <2>3 DEF Channels
  <2>6. \A k \in Channels : request'[k] # None => \E j \in Channels : request'[k] = request[j]
    BY <1>1, <2>2, <2>3
  <2>7. QED
    BY <2>3, <2>4, <2>5, <2>6
<1>4. QED
  BY <1>2, <1>3

LEMMA AbandonKeeps ==
    ASSUME IInv, NEW c \in Clients, Abandon(c)
    PROVE  IInv'
<1>1. /\ request[c] # None /\ disturbed' = [disturbed EXCEPT ![c] = TRUE]
      /\ reply' = [reply EXCEPT ![c] = Failure] /\ Adrift(c)
      /\ UNCHANGED <<device, calls, settled, pc, session, outcome>>
  BY DEF Abandon, GoesWrong
<1>2. OneInv(c)
  BY DEF IInv
<1>3. pc[c] \notin {"idle", "pin"}
  BY <1>1, <1>2 DEF OneInv, AskedInv
<1>4. /\ request' \in [Channels -> Request \cup {None}] /\ request'[c] = None
      /\ \A q \in Clients : q # c => request'[q] = request[q]
      /\ \A k \in Channels : request'[k] # None => \E j \in Channels : request'[k] = request[j]
  BY <1>1, AdriftKeeps
<1>5. TypeInv'
  BY <1>1, <1>4, Answers DEF IInv, TypeInv, device
<1>6. /\ pc'[c] = pc[c] /\ reply'[c] = Failure /\ session'[c] = session[c] /\ calls'[c] = calls[c]
      /\ outcome'[c] = outcome[c] /\ disturbed'[c] /\ Apart(c) /\ Tag(c)' = Tag(c)
  BY <1>1, <1>4 DEF IInv, TypeInv, Apart, Channels, Tag
<1>7. AskedInv(c)' /\ HeardInv(c)' /\ LocalInv(c)'
  BY <1>1, <1>2, <1>3, <1>4, <1>6, Answers DEF OneInv, AskedInv, HeardInv, LocalInv, Ok, device
<1>8. SuccessInv(c)' /\ UndisturbedInv(c)'
  BY <1>1, <1>2, <1>6, Answers DEF OneInv, SuccessInv, UndisturbedInv, Has, Ok, device
<1>9. ~Ok(reply'[c])
  BY <1>6, Answers
<1>10. QED
  BY <1>1, <1>4, <1>5, <1>6, <1>7, <1>8, <1>9, ClientKeeps DEF OneInv

LEMMA KillKeeps ==
    ASSUME IInv, NEW c \in Clients, Kill(c)
    PROVE  IInv'
<1>1. /\ disturbed' = [disturbed EXCEPT ![c] = TRUE] /\ reply' = [reply EXCEPT ![c] = None]
      /\ Adrift(c) \/ request' = [request EXCEPT ![c] = None]
      /\ pc' = [pc EXCEPT ![c] = "idle"] /\ session' = [session EXCEPT ![c] = None]
      /\ UNCHANGED <<device, calls, settled, outcome>>
  BY DEF Kill, GoesWrong
<1>2. OneInv(c)
  BY DEF IInv
<1>3. /\ request' \in [Channels -> Request \cup {None}] /\ request'[c] = None
      /\ \A q \in Clients : q # c => request'[q] = request[q]
      /\ \A k \in Channels : request'[k] # None => \E j \in Channels : request'[k] = request[j]
  BY <1>1, AdriftKeeps
<1>4. TypeInv'
  BY <1>1, <1>3 DEF IInv, TypeInv, Steps, device
<1>5. /\ pc'[c] = "idle" /\ reply'[c] = None /\ session'[c] = None /\ calls'[c] = calls[c]
      /\ outcome'[c] = outcome[c] /\ disturbed'[c] /\ Apart(c) /\ Tag(c)' = Tag(c)
  BY <1>1, <1>3 DEF IInv, TypeInv, Apart, Channels, Tag
<1>6. OneInv(c)'
  BY <1>1, <1>2, <1>3, <1>5
  DEF OneInv, AskedInv, HeardInv, LocalInv, SuccessInv, UndisturbedInv, Has, device
<1>7. QED
  BY <1>1, <1>3, <1>4, <1>5, <1>6, ClientKeeps

-----------------------------------------------------------------------------
(* The steps of the device. *)

\* What a handler may do: the answer goes to its sender, everybody else who is
\* registering is disturbed, and the transcript stays that of the latest sequence.
LEMMA ServingKeeps ==
    ASSUME IInv, NEW k \in Channels, NEW r \in Reply, request[k] # None, Answer(k, r),
           disturbed' = Disturbs(k), UNCHANGED <<client, settled, pin>>,
           transcript' \in Transcript \cup {None}, nonces' \in Nat, nonces' >= nonces,
           identities \subseteq identities', TranscriptInv',
           k \in Clients /\ pc[k] = "M1" /\ Ok(r) => r.nonce1 \in Nat /\ r.nonce1 <= nonces',
           k \in Clients /\ pc[k] = "M3" /\ Ok(r) => r.eHash \in Pins,
           k \in Clients /\ pc[k] = "M6" /\ Ok(r) => \E i \in identities' : i.by = Tag(k),
           k \in Clients /\ pc[k] = "cleaned" /\ Ok(r) => transcript' = None,
           k \in Clients /\ ~disturbed[k] => CalmInv(k)',
           transcript' = None \/ nonces' > nonces \/ transcript # None
    PROVE  IInv'
<1>1. /\ reply' = [reply EXCEPT ![k] = IF k \in Clients THEN r ELSE None]
      /\ request' = [request EXCEPT ![k] = None]
      /\ UNCHANGED <<pc, session, calls, outcome, settled, pin>>
      /\ disturbed' = [c \in Clients |-> disturbed[c] \/ (c # k /\ pc[c] # "idle")]
  BY DEF Answer, client, Disturbs
<1>2. TypeInv'
  <2>1. disturbed' \in [Clients -> BOOLEAN]
    BY <1>1 DEF IInv, TypeInv
  <2>2. reply' \in [Channels -> Reply \cup {None}] /\ request' \in [Channels -> Request \cup {None}]
    BY <1>1 DEF IInv, TypeInv
  <2>3. QED
    BY <1>1, <2>1, <2>2 DEF IInv, TypeInv
<1>3. /\ request'[k] = None /\ reply'[k] = IF k \in Clients THEN r ELSE None
      /\ \A j \in Channels : j # k => request'[j] = request[j] /\ reply'[j] = reply[j]
  BY <1>1 DEF IInv, TypeInv
<1>4. \A c \in Clients : /\ c \in Channels /\ Tag(c)' = Tag(c) /\ Key(c)' = Key(c)
                         /\ disturbed'[c] = (disturbed[c] \/ (c # k /\ pc[c] # "idle"))
  BY <1>1 DEF Tag, Key, Channels
<1>5. nonces \in Nat /\ \A c \in Clients : OneInv(c)
  BY DEF IInv, TypeInv
<1>6. ASSUME NEW c \in Clients, c # k PROVE OneInv(c)'
  <2>1. request'[c] = request[c] /\ reply'[c] = reply[c]
    BY <1>3, <1>4, <1>6
  <2>2. AskedInv(c)'
    BY <1>1, <1>4, <1>5, <2>1 DEF OneInv, AskedInv
  <2>3. HeardInv(c)'
    BY <1>1, <1>5, <2>1 DEF OneInv, HeardInv
  <2>4. LocalInv(c)'
    BY <1>1, <1>5 DEF OneInv, LocalInv
  <2>5. SuccessInv(c)'
    BY <1>1, <1>4, <1>5, <2>1 DEF OneInv, SuccessInv, Has
  <2>6. UndisturbedInv(c)'
    BY <1>1, <1>4, <1>5, <1>6 DEF OneInv, UndisturbedInv
  <2>7. QED
    BY <2>2, <2>3, <2>4, <2>5, <2>6 DEF OneInv
<1>7. ASSUME k \in Clients PROVE OneInv(k)'
  <2>1. pc[k] \notin {"idle", "pin"} /\ reply'[k] = r
    BY <1>3, <1>5, <1>7 DEF OneInv, AskedInv
  <2>2. AskedInv(k)' /\ HeardInv(k)'
    BY <1>1, <1>3, <1>7, <2>1 DEF AskedInv, HeardInv
  <2>3. LocalInv(k)'
    BY <1>1, <1>5, <1>7 DEF OneInv, LocalInv
  <2>4. SuccessInv(k)'
    BY <1>1, <1>4, <1>5, <1>7, <2>1 DEF OneInv, SuccessInv, Has
  <2>5. UndisturbedInv(k)'
    BY <1>1, <1>4, <1>5, <1>7 DEF OneInv, UndisturbedInv
  <2>6. QED
    BY <2>2, <2>3, <2>4, <2>5 DEF OneInv
<1>8. LateInv'
  <2> SUFFICES ASSUME NEW j \in Channels, (request[j] # None /\ request[j].op = "register")'
               PROVE  (/\ request[j].key[1] <= nonces
                       /\ Over(request[j].by) => transcript = None \/ request[j].key[1] < nonces)'
    BY DEF LateInv
  <2>1. request'[j] = request[j] /\ request[j] \in Request
    BY <1>3 DEF IInv, TypeInv
  <2>2. PICK n, t : n = request[j].key[1] /\ t = request[j].by
    OBVIOUS
  <2>3. n \in Nat /\ n <= nonces /\ (Over(t) => transcript = None \/ n < nonces)
    BY <2>1, <2>2, Messages DEF IInv, LateInv, Keys
  <2>4. Over(t)' => Over(t) \/ transcript' = None
    BY <1>1, <1>3, <1>4 DEF Over
  <2>5. n <= nonces' /\ (Over(t)' => transcript' = None \/ n < nonces')
    BY <1>5, <2>3, <2>4
  <2>6. QED
    BY <2>1, <2>2, <2>5
<1>9. SettledInv'
  BY <1>1, <1>4 DEF IInv, SettledInv
<1>10. QED
  BY <1>2, <1>6, <1>7, <1>8, <1>9 DEF IInv

\* The step of a client whose request is being served.
LEMMA Served ==
    ASSUME IInv, NEW k \in Channels, request[k] # None
    PROVE  /\ request[k] \in Request /\ nonces \in Nat /\ pin \in Pins
           /\ transcript # None => transcript \in Transcript
           /\ k \in Clients =>
                /\ pc[k] \in Steps \ {"idle", "pin"} /\ AskedInv(k) /\ reply[k] = None
                /\ request[k].op = "cleanup" => pc[k] \in {"cleanup", "cleaned"}
                /\ request[k].op = "pin" => pc[k] = "M1"
                /\ request[k].op = "hash" => pc[k] = "M3"
                /\ request[k].op = "ca" => pc[k] = "M5"
                /\ request[k].op = "register" => pc[k] = "M6"
                /\ ~disturbed[k] => CalmInv(k)
<1>1. request[k] \in Request /\ nonces \in Nat /\ pin \in Pins
  BY DEF IInv, TypeInv
<1>2. transcript # None => transcript \in Transcript
  BY DEF IInv, TypeInv
<1>3. ASSUME k \in Clients
      PROVE  /\ pc[k] \in Steps \ {"idle", "pin"} /\ AskedInv(k) /\ reply[k] = None
             /\ ~disturbed[k] => CalmInv(k)
  BY <1>3 DEF IInv, TypeInv, OneInv, AskedInv, UndisturbedInv
<1>4. QED
  BY <1>1, <1>2, <1>3 DEF Steps, AskedInv

\* A handler that refuses: never the request of a call that nothing disturbs.
LEMMA RefusalKeeps ==
    ASSUME IInv, NEW k \in Channels, request[k] # None, Refuse(k),
           disturbed' = Disturbs(k), UNCHANGED <<client, settled>>,
           ~(k \in Clients /\ ~disturbed[k])
    PROVE  IInv'
<1>1. Answer(k, Refused) /\ UNCHANGED <<pin, transcript, nonces, identities>>
  BY DEF Refuse, device
<1>2. TranscriptInv'
  BY <1>1 DEF IInv, TranscriptInv
<1>3. transcript \in Transcript \cup {None} /\ nonces \in Nat
  BY DEF IInv, TypeInv
<1>4. transcript' \in Transcript \cup {None} /\ nonces' \in Nat /\ nonces' >= nonces
      /\ identities \subseteq identities' /\ (transcript' = None \/ transcript # None)
  BY <1>1, <1>3
<1>5. Refused \in Reply /\ ~Ok(Refused) /\ UNCHANGED <<client, settled, pin>>
  BY <1>1, Answers
<1>6. QED
  BY <1>1, <1>2, <1>4, <1>5, ServingKeeps

LEMMA CleanupKeeps ==
    ASSUME IInv, NEW k \in Channels, request[k] # None, request[k].op = "cleanup", Cleanup(k),
           disturbed' = Disturbs(k), UNCHANGED <<client, settled>>
    PROVE  IInv'
<1>1. transcript' = None /\ Answer(k, Done) /\ UNCHANGED <<pin, nonces, identities>>
  BY DEF Cleanup
<1>2. TranscriptInv'
  BY <1>1 DEF TranscriptInv
<1>3. transcript' \in Transcript \cup {None} /\ nonces' \in Nat /\ nonces' >= nonces
      /\ identities \subseteq identities' /\ Done \in Reply /\ Ok(Done)
  BY <1>1, Answers, Served
<1>4. k \in Clients => pc[k] \in {"cleanup", "cleaned"}
  BY Served
<1>5. k \in Clients /\ ~disturbed[k] => CalmInv(k)'
  <2>1. k \in Clients => reply'[k] = Done /\ UNCHANGED <<pc, session>>
    BY <1>1 DEF Answer, IInv, TypeInv, client
  <2>2. QED
    BY <1>3, <1>4, <2>1, Served DEF CalmInv
<1>6. QED
  BY <1>1, <1>2, <1>3, <1>4, <1>5, ServingKeeps

LEMMA ServePINKeeps ==
    ASSUME IInv, NEW k \in Channels, request[k] # None, request[k].op = "pin", servePIN(k),
           disturbed' = Disturbs(k), UNCHANGED <<client, settled>>
    PROVE  IInv'
<1> DEFINE r == [status |-> "ok", nonce1 |-> nonces + 1]
<1>1. /\ transcript' = NewTranscript /\ nonces' = nonces + 1 /\ Answer(k, r)
      /\ UNCHANGED <<pin, identities>>
  BY DEF servePIN
<1>2. r \in Reply /\ Ok(r) /\ r.nonce1 = nonces'
  BY <1>1, Served DEF Reply, Ok
<1> HIDE DEF r
<1>3. /\ NewTranscript \in Transcript /\ NewTranscript.nonce1 = nonces + 1 /\ NewTranscript.dh
      /\ NewTranscript.key = None /\ NewTranscript.certificate = None
  BY Served DEF NewTranscript, Transcript
<1>4. NewTranscript # None
  BY <1>3, RegistrationAssumption DEF RegistrationAssumption
<1>5. TranscriptInv'
  BY <1>1, <1>3 DEF TranscriptInv
<1>6. k \in Clients => pc[k] = "M1"
  BY Served
<1>7. k \in Clients /\ ~disturbed[k] => CalmInv(k)'
  <2>1. k \in Clients => reply'[k] = r /\ UNCHANGED <<pc, session>>
    BY <1>1 DEF Answer, IInv, TypeInv, client
  <2>2. QED
    BY <1>1, <1>2, <1>3, <1>4, <1>6, <2>1 DEF CalmInv
<1>8. transcript' \in Transcript \cup {None} /\ nonces' \in Nat /\ nonces' >= nonces /\ nonces' > nonces
      /\ identities \subseteq identities'
  BY <1>1, <1>3, Served
<1>9. r.nonce1 \in Nat /\ r.nonce1 <= nonces'
  BY <1>2, <1>8
<1>10. QED
  BY <1>1, <1>2, <1>5, <1>6, <1>7, <1>8, <1>9, ServingKeeps

LEMMA ServeHashKeeps ==
    ASSUME IInv, NEW k \in Channels, request[k] # None, request[k].op = "hash", serveHash(k),
           disturbed' = Disturbs(k), UNCHANGED <<client, settled>>
    PROVE  IInv'
<1> DEFINE q == request[k]
           r == [status |-> "ok", nonce2 |-> q.nonce2, eHash |-> pin]
           t == [transcript EXCEPT !.key = <<q.nonce1, q.nonce2>>, !.eHash = pin]
<1>1. q \in Request /\ q.nonce1 \in Nat /\ q.nonce2 \in Tags /\ pin \in Pins
  BY Served, Messages
<1>2. k \in Clients => /\ pc[k] = "M3" /\ q.nonce1 = session[k].nonce1 /\ q.nonce2 = Tag(k)
                       /\ ~disturbed[k] => CalmInv(k)
  BY Served DEF AskedInv
<1>3. CASE transcript # None /\ transcript.dh /\ q.nonce1 = transcript.nonce1
  <2>1. transcript' = t /\ Answer(k, r) /\ UNCHANGED <<pin, nonces, identities>>
    BY <1>3 DEF serveHash
  <2>2. /\ t \in Transcript /\ t.nonce1 = transcript.nonce1 /\ t.dh = transcript.dh
        /\ t.key = <<q.nonce1, q.nonce2>> /\ t.eHash = pin /\ t.certificate = transcript.certificate
    BY <1>1, <1>3, Served DEF Transcript, Keys
  <2>3. t # None /\ t.key # None
    BY <1>1, <2>2, RegistrationAssumption DEF RegistrationAssumption, Keys
  <2>4. r \in Reply /\ Ok(r) /\ r.nonce2 = q.nonce2 /\ r.eHash = pin
    BY <1>1 DEF Reply, Ok
  <2> HIDE DEF r, t, q
  <2>5. TranscriptInv'
    BY <1>3, <2>1, <2>2, <2>3 DEF IInv, TranscriptInv
  <2>6. k \in Clients /\ ~disturbed[k] => CalmInv(k)'
    <3>1. k \in Clients => reply'[k] = r /\ UNCHANGED <<pc, session, calls>>
      BY <2>1 DEF Answer, IInv, TypeInv, client
    <3>2. k \in Clients => Key(k)' = <<q.nonce1, q.nonce2>> /\ Tag(k)' = Tag(k)
      BY <1>2, <3>1 DEF Key, Tag
    <3>3. QED
      BY <1>2, <1>3, <2>1, <2>2, <2>3, <2>4, <3>1, <3>2 DEF CalmInv, Own
  <2>7. transcript' \in Transcript \cup {None} /\ nonces' \in Nat /\ nonces' >= nonces
        /\ identities \subseteq identities' /\ UNCHANGED <<client, settled, pin>> /\ r.eHash \in Pins
    BY <1>1, <2>1, <2>2, <2>4, Served
  <2>8. QED
    BY <1>2, <1>3, <2>1, <2>4, <2>5, <2>6, <2>7, ServingKeeps
<1>4. CASE ~(transcript # None /\ transcript.dh /\ q.nonce1 = transcript.nonce1)
  <2>1. Refuse(k)
    BY <1>4 DEF serveHash
  <2>2. ~(k \in Clients /\ ~disturbed[k])
    BY <1>2, <1>4 DEF CalmInv
  <2>3. QED
    BY <2>1, <2>2, RefusalKeeps
<1>5. QED
  BY <1>3, <1>4

LEMMA ServeCAKeeps ==
    ASSUME IInv, NEW k \in Channels, request[k] # None, request[k].op = "ca", serveCA(k),
           disturbed' = Disturbs(k), UNCHANGED <<client, settled>>
    PROVE  IInv'
<1> DEFINE q == request[k]
           t == [transcript EXCEPT !.certificate = q.key]
           G == /\ transcript # None /\ transcript.key # None /\ q.key = transcript.key
                /\ q.eHash = transcript.eHash /\ q.pin = pin
<1>1. q \in Request /\ q.key \in Keys /\ pin \in Pins
  BY Served, Messages
<1>2. k \in Clients => /\ pc[k] = "M5" /\ q.key = Key(k)
                       /\ ~disturbed[k] => CalmInv(k)
  BY Served DEF AskedInv
<1>3. CASE G
  <2>1. transcript' = t /\ Answer(k, Done) /\ UNCHANGED <<pin, nonces, identities>>
    BY <1>3 DEF serveCA
  <2>2. /\ t \in Transcript /\ t.nonce1 = transcript.nonce1 /\ t.dh = transcript.dh
        /\ t.key = transcript.key /\ t.eHash = transcript.eHash /\ t.certificate = q.key
    BY <1>1, <1>3, Served DEF Transcript
  <2>3. t # None
    BY <2>2, RegistrationAssumption DEF RegistrationAssumption
  <2> HIDE DEF t, q
  <2>4. TranscriptInv'
    BY <1>3, <2>1, <2>2, <2>3 DEF IInv, TranscriptInv
  <2>5. k \in Clients /\ ~disturbed[k] => CalmInv(k)'
    <3>1. k \in Clients => reply'[k] = Done /\ request'[k] = None /\ UNCHANGED <<pc, session, calls>>
      BY <2>1 DEF Answer, IInv, TypeInv, client
    <3>2. k \in Clients => Key(k)' = Key(k)
      BY <3>1 DEF Key, Tag
    <3>3. QED
      BY <1>2, <1>3, <2>1, <2>2, <2>3, <3>1, <3>2, Answers DEF CalmInv, Own
  <2>6. transcript' \in Transcript \cup {None} /\ nonces' \in Nat /\ nonces' >= nonces
        /\ identities \subseteq identities' /\ UNCHANGED <<client, settled, pin>> /\ Done \in Reply
    BY <2>1, <2>2, Served, Answers
  <2>7. QED
    BY <1>2, <1>3, <2>1, <2>4, <2>5, <2>6, ServingKeeps
<1>4. CASE ~G
  <2>1. Refuse(k)
    BY <1>4 DEF serveCA
  <2>2. ASSUME k \in Clients, ~disturbed[k] PROVE FALSE
    <3>1. Own(k) /\ q.eHash = pin /\ q.pin = pin /\ q.key = Key(k)
      BY <1>2, <2>2 DEF CalmInv
    <3>2. q.key # None
      BY <1>1, RegistrationAssumption DEF RegistrationAssumption
    <3>3. QED
      BY <1>4, <3>1, <3>2 DEF Own
  <2>3. QED
    BY <2>1, <2>2, RefusalKeeps
<1>5. QED
  BY <1>3, <1>4

LEMMA ServeRegistrationKeeps ==
    ASSUME IInv, NEW k \in Channels, request[k] # None, request[k].op = "register", serveRegistration(k),
           disturbed' = Disturbs(k), UNCHANGED <<client, settled>>
    PROVE  IInv'
<1> DEFINE q == request[k]
           t == [transcript EXCEPT !.dh = FALSE]
           G == /\ transcript # None /\ transcript.certificate # None
                /\ q.key = transcript.key /\ q.certificate = transcript.certificate
<1>1. q \in Request /\ q.key \in Keys
  BY Served, Messages
<1>2. k \in Clients => /\ pc[k] = "M6" /\ q.key = Key(k) /\ q.certificate = Key(k) /\ q.by = Tag(k)
                       /\ ~disturbed[k] => CalmInv(k)
  BY Served DEF AskedInv
<1>3. CASE G
  <2>1. /\ identities' = identities \cup {[by |-> q.by, pin |-> transcript.eHash]}
        /\ transcript' = t /\ Answer(k, Done) /\ UNCHANGED <<pin, nonces>>
    BY <1>3 DEF serveRegistration
  <2>2. /\ t \in Transcript /\ t.nonce1 = transcript.nonce1
        /\ t.key = transcript.key /\ t.eHash = transcript.eHash /\ t.certificate = transcript.certificate
    BY <1>1, <1>3, Served DEF Transcript
  <2>3. t # None
    BY <2>2, RegistrationAssumption DEF RegistrationAssumption
  <2> HIDE DEF t, q
  <2>4. TranscriptInv'
    BY <1>3, <2>1, <2>2, <2>3 DEF IInv, TranscriptInv
  <2>5. k \in Clients /\ ~disturbed[k] => CalmInv(k)'
    <3>1. k \in Clients => reply'[k] = Done /\ request'[k] = None /\ UNCHANGED <<pc, session, calls>>
      BY <2>1 DEF Answer, IInv, TypeInv, client
    <3>2. k \in Clients => Key(k)' = Key(k)
      BY <3>1 DEF Key, Tag
    <3>3. QED
      BY <1>2, <1>3, <2>1, <2>2, <2>3, <3>1, <3>2, Answers DEF CalmInv, Own
  <2>6. transcript' \in Transcript \cup {None} /\ nonces' \in Nat /\ nonces' >= nonces
        /\ identities \subseteq identities' /\ UNCHANGED <<client, settled, pin>> /\ Done \in Reply
    BY <2>1, <2>2, Served, Answers
  <2>7. k \in Clients => \E i \in identities' : i.by = Tag(k)
    <3> DEFINE i == [by |-> q.by, pin |-> transcript.eHash]
    <3>1. i \in identities' /\ i.by = q.by
      BY <2>1
    <3> HIDE DEF i
    <3>2. QED
      BY <1>2, <3>1
  <2>8. QED
    BY <1>2, <1>3, <2>1, <2>4, <2>5, <2>6, <2>7, ServingKeeps
<1>4. CASE ~G
  <2>1. Refuse(k)
    BY <1>4 DEF serveRegistration
  <2>2. ASSUME k \in Clients, ~disturbed[k] PROVE FALSE
    <3>1. Own(k) /\ transcript.certificate = Key(k)
      BY <1>2, <2>2 DEF CalmInv
    <3>2. q.key # None
      BY <1>1, RegistrationAssumption DEF RegistrationAssumption
    <3>3. QED
      BY <1>2, <2>2, <1>4, <3>1, <3>2 DEF Own
  <2>3. QED
    BY <2>1, <2>2, RefusalKeeps
<1>5. QED
  BY <1>3, <1>4

LEMMA ServeHTTPKeeps ==
    ASSUME IInv, NEW k \in Channels, ServeHTTP(k)
    PROVE  IInv'
<1>1. request[k] # None /\ disturbed' = Disturbs(k) /\ UNCHANGED <<client, settled>>
  BY DEF ServeHTTP
<1>2. request[k].op \in {"cleanup", "pin", "hash", "ca", "register"}
  BY <1>1, Served, Messages
<1>3. /\ request[k].op = "cleanup" => Cleanup(k)
      /\ request[k].op = "pin" => servePIN(k)
      /\ request[k].op = "hash" => serveHash(k)
      /\ request[k].op = "ca" => serveCA(k)
      /\ request[k].op = "register" => serveRegistration(k)
  BY DEF ServeHTTP
<1>4. QED
  BY <1>1, <1>2, <1>3, CleanupKeeps, ServePINKeeps, ServeHashKeeps, ServeCAKeeps, ServeRegistrationKeeps

LEMMA SetPINKeeps ==
    ASSUME IInv, SetPIN
    PROVE  IInv'
<1>1. /\ transcript' = None /\ pin' \in Pins
      /\ UNCHANGED <<nonces, identities, request, reply, pc, session, calls, outcome, settled>>
      /\ disturbed' = [c \in Clients |-> disturbed[c] \/ (c # None /\ pc[c] # "idle")]
  BY DEF SetPIN, Disturbs, channels, client
<1>2. TypeInv'
  BY <1>1 DEF IInv, TypeInv
<1>3. TranscriptInv' /\ SettledInv'
  BY <1>1 DEF IInv, TranscriptInv, SettledInv, Tag
<1>4. LateInv'
  BY <1>1 DEF IInv, LateInv
<1>5. ASSUME NEW c \in Clients PROVE OneInv(c)'
  <2>1. OneInv(c) /\ Tag(c)' = Tag(c) /\ Key(c)' = Key(c)
    BY <1>1 DEF IInv, Tag, Key
  <2>2. AskedInv(c)' /\ HeardInv(c)' /\ LocalInv(c)' /\ SuccessInv(c)'
    BY <1>1, <2>1 DEF OneInv, AskedInv, HeardInv, LocalInv, SuccessInv, Has
  <2>3. UndisturbedInv(c)'
    BY <1>1, <2>1, RegistrationAssumption DEF OneInv, UndisturbedInv, RegistrationAssumption
  <2>4. QED
    BY <2>2, <2>3 DEF OneInv
<1>6. QED
  BY <1>2, <1>3, <1>4, <1>5 DEF IInv

-----------------------------------------------------------------------------
(* The invariant and what follows from it. *)

LEMMA InitKeeps == Init => IInv
<1> SUFFICES ASSUME Init PROVE IInv
  OBVIOUS
<1>1. pin \in Pins
  BY RegistrationAssumption DEF Init, FirstPin, RegistrationAssumption
<1>2. TypeInv
  BY <1>1 DEF Init, TypeInv, Steps
<1>3. TranscriptInv /\ LateInv /\ SettledInv
  BY DEF Init, TranscriptInv, LateInv, SettledInv
<1>4. ASSUME NEW c \in Clients PROVE OneInv(c)
  BY <1>4, RegistrationAssumption DEF Init, OneInv, AskedInv, HeardInv, LocalInv, SuccessInv,
     UndisturbedInv, RegistrationAssumption, Results, Channels
<1>5. QED
  BY <1>2, <1>3, <1>4 DEF IInv

LEMMA NextKeeps == IInv /\ Next => IInv'
<1> SUFFICES ASSUME IInv, Next PROVE IInv'
  OBVIOUS
<1>1. CASE Serving
  BY <1>1, ServeHTTPKeeps DEF Serving
<1>2. CASE Proceeding
  BY <1>2, AskPINKeeps, SendHashKeeps, CheckHashKeeps, SendIdentityKeeps, CheckRegisteredKeeps,
     FinishKeeps DEF Proceeding, Proceed
<1>3. CASE \E c \in Clients : Register(c) \/ TypePIN(c) \/ Network(c)
  BY <1>3, RegisterKeeps, TypePINKeeps, LoseRequestKeeps, LoseReplyKeeps, AbandonKeeps, KillKeeps
  DEF Network
<1>4. CASE SetPIN
  BY <1>4, SetPINKeeps
<1>5. QED
  BY <1>1, <1>2, <1>3, <1>4 DEF Next

LEMMA StutterKeeps == IInv /\ UNCHANGED vars => IInv'
<1> SUFFICES ASSUME IInv, UNCHANGED vars PROVE IInv'
  OBVIOUS
<1>1. UNCHANGED <<pin, transcript, nonces, identities, request, reply, pc, session, calls, outcome,
                  settled, disturbed>>
  BY DEF vars, device, channels, client
<1>2. TypeInv' /\ TranscriptInv'
  BY <1>1 DEF IInv, TypeInv, TranscriptInv
<1>3. LateInv' /\ SettledInv'
  BY <1>1 DEF IInv, LateInv, SettledInv, Over, Tag
<1>4. ASSUME NEW c \in Clients PROVE OneInv(c)'
  <2>1. OneInv(c) /\ Tag(c)' = Tag(c) /\ Key(c)' = Key(c) /\ Own(c)' = Own(c)
    BY <1>1 DEF IInv, Tag, Key, Own
  <2>2. AskedInv(c)' /\ HeardInv(c)' /\ LocalInv(c)' /\ SuccessInv(c)'
    BY <1>1, <2>1 DEF OneInv, AskedInv, HeardInv, LocalInv, SuccessInv, Has
  <2>3. UndisturbedInv(c)'
    BY <1>1, <2>1 DEF OneInv, UndisturbedInv, CalmInv
  <2>4. QED
    BY <2>2, <2>3 DEF OneInv
<1>5. QED
  BY <1>2, <1>3, <1>4 DEF IInv

THEOREM Invariance == Spec => []IInv
<1>1. IInv /\ [Next]_vars => IInv'
  BY NextKeeps, StutterKeeps
<1>2. QED
  BY InitKeeps, <1>1, PTL DEF Spec

\* Register reports a success only for an identity that the device has: the
\* answer to M6 was to this call's own message, under this call's own key,
\* whoever wiped or replaced the transcript in between.
THEOREM SuccessIsReal == Spec => []SuccessMeansRegistered
<1>1. IInv => SuccessMeansRegistered
  BY DEF IInv, OneInv, SuccessInv, Has, SuccessMeansRegistered
<1>2. QED
  BY <1>1, Invariance, PTL

\* Without a disturbance from outside Register gets through: what killed or
\* interrupted clients have left in the device, or still have on its way to it,
\* does not stand in its way as long as it does not arrive meanwhile.
THEOREM FailuresAreExplained == Spec => []FailuresHaveReasons
<1>1. IInv => FailuresHaveReasons
  BY DEF IInv, OneInv, UndisturbedInv, FailuresHaveReasons
<1>2. QED
  BY <1>1, Invariance, PTL

\* New identities come from the last message of a sequence, which the device
\* answers only with the key and the certificate of its transcript.
LEMMA OnlyM6Registers ==
    ASSUME IInv, [Next]_vars, NEW i \in identities', i \notin identities
    PROVE  \E k \in Channels :
              /\ request[k] # None /\ request[k].op = "register" /\ i.by = request[k].by
              /\ i.pin = transcript.eHash /\ transcript # None /\ transcript.certificate # None
              /\ request[k].key = transcript.key
<1>1. PICK k \in Channels : ServeHTTP(k)
  <2>1. ASSUME NEW c \in Clients, Proceed(c) PROVE UNCHANGED identities
    BY <2>1 DEF Proceed, AskPIN, SendHash, CheckHash, SendIdentity, CheckRegistered, Finish, Quiet,
       Return, device
  <2>2. ASSUME NEW c \in Clients, Register(c) \/ TypePIN(c) \/ Network(c) PROVE UNCHANGED identities
    BY <2>2 DEF Register, TypePIN, Network, LoseRequest, LoseReply, Abandon, Kill, GoesWrong, device
  <2>3. SetPIN => UNCHANGED identities
    BY DEF SetPIN
  <2>4. UNCHANGED vars => UNCHANGED identities
    BY DEF vars, device
  <2>5. QED
    BY <2>1, <2>2, <2>3, <2>4 DEF Next, Serving, Proceeding
<1>2. request[k] # None /\ request[k].op \in {"cleanup", "pin", "hash", "ca", "register"}
  BY <1>1, Served, Messages DEF ServeHTTP
<1>3. request[k].op = "register" /\ serveRegistration(k)
  BY <1>1, <1>2 DEF ServeHTTP, Cleanup, servePIN, serveHash, serveCA, Refuse, device
<1>4. /\ transcript # None /\ transcript.certificate # None /\ request[k].key = transcript.key
      /\ i = [by |-> request[k].by, pin |-> transcript.eHash]
  BY <1>3 DEF serveRegistration, Refuse, device
<1>5. QED
  BY <1>2, <1>3, <1>4

\* SetPIN ends the sequence under way, so the transcript that registers an
\* identity commits to the PIN that the device shows.
THEOREM RegisteredUnderTheCurrentPIN == Spec => RegisteredWithThePINInForce
<1>1. IInv /\ [Next]_vars => \A i \in identities' \ identities : i.pin = pin
  <2> SUFFICES ASSUME IInv, [Next]_vars, NEW i \in identities', i \notin identities
               PROVE  i.pin = pin
    OBVIOUS
  <2>1. transcript # None /\ transcript.certificate # None /\ i.pin = transcript.eHash
    BY OnlyM6Registers
  <2>2. QED
    BY <2>1 DEF IInv, TranscriptInv
<1>2. QED
  BY <1>1, Invariance, PTL DEF Spec, RegisteredWithThePINInForce

\* After an acknowledged cleanup no late message of the call registers anything:
\* its key belongs to a sequence that is over, and every new sequence has a new
\* nonce of the device in its key.
THEOREM CleanupIsFinal == Spec => SettledStaysSettled
<1>1. IInv /\ [Next]_vars => \A i \in identities' \ identities : i.by \notin settled
  <2> SUFFICES ASSUME IInv, [Next]_vars, NEW i \in identities', i \notin identities, i.by \in settled
               PROVE  FALSE
    OBVIOUS
  <2>1. PICK k \in Channels :
              /\ request[k] # None /\ request[k].op = "register" /\ i.by = request[k].by
              /\ transcript # None /\ transcript.certificate # None
              /\ request[k].key = transcript.key
    BY OnlyM6Registers
  <2>2. request[k].key \in Keys /\ request[k].key[1] < nonces
    BY <2>1, Served, Messages DEF IInv, LateInv, Over
  <2>3. transcript.key[1] = nonces
    BY <2>1 DEF IInv, TranscriptInv
  <2>4. QED
    BY <2>1, <2>2, <2>3, Served DEF Keys
<1>2. QED
  BY <1>1, Invariance, PTL DEF Spec, SettledStaysSettled

-----------------------------------------------------------------------------
(* At most one effect of a call. *)

\* A registration message that the device has not answered yet.
Registers(k) == request[k] # None /\ request[k].op = "register"
Begun(t) == t \in Tags /\ 1 <= t[2] /\ t[2] <= calls[t[1]]
BeforeM6 == {"cleanup", "M1", "M3", "pin", "M5"}

\* A call has its registration message once: not yet sent, under way in one
\* place, or answered; only in the last case the device may have its identity.
OnceInv ==
    /\ \A i \in identities : Begun(i.by)
    /\ \A k \in Channels : Registers(k) => Begun(request[k].by) /\ ~Has(request[k].by)
    /\ \A k, l \in Channels : Registers(k) /\ Registers(l) /\ request[k].by = request[l].by => k = l
    /\ \A c \in Clients : pc[c] \in BeforeM6 =>
          /\ 1 <= calls[c] /\ ~Has(Tag(c))
          /\ \A k \in Channels : Registers(k) => request[k].by # Tag(c)

\* Most steps send no registration message and answer none with an identity.
LEMMA OthersKeepOnce ==
    ASSUME OnceInv, UNCHANGED <<identities, calls>>,
           \A k \in Channels : Registers(k)' => request'[k] = request[k],
           \A c \in Clients : pc'[c] \in BeforeM6 => pc[c] \in BeforeM6
    PROVE  OnceInv'
<1>1. \A k \in Channels : Registers(k)' => Registers(k) /\ request'[k] = request[k]
  BY DEF Registers
<1>2. \A t : Begun(t)' = Begun(t) /\ Has(t)' = Has(t)
  BY DEF Begun, Has
<1>3. \A c \in Clients : Tag(c)' = Tag(c)
  BY DEF Tag
<1>4. QED
  BY <1>1, <1>2, <1>3 DEF OnceInv

\* A message without its sender is the same message in another place.
LEMMA AdriftKeepsOnce ==
    ASSUME IInv, OnceInv, NEW c \in Clients, Adrift(c), UNCHANGED <<identities, calls>>,
           \A d \in Clients : pc'[d] \in BeforeM6 => pc[d] \in BeforeM6
    PROVE  OnceInv'
<1>1. PICK s \in Strays : request[s] = None /\ request' = [request EXCEPT ![c] = None, ![s] = request[c]]
  BY DEF Adrift
<1>2. c # s /\ c \in Channels /\ s \in Channels
  BY RegistrationAssumption DEF RegistrationAssumption, Channels
<1>3. /\ request'[c] = None /\ request'[s] = request[c]
      /\ \A k \in Channels \ {c, s} : request'[k] = request[k]
  BY <1>1, <1>2 DEF IInv, TypeInv
<1> DEFINE From(k) == IF k = s THEN c ELSE k
<1>4. \A k \in Channels : Registers(k)' =>
         From(k) \in Channels /\ Registers(From(k)) /\ request'[k] = request[From(k)]
  BY <1>2, <1>3 DEF Registers
<1>5. \A k, l \in Channels : Registers(k)' /\ Registers(l)' /\ From(k) = From(l) => k = l
  BY <1>2, <1>3 DEF Registers
<1> HIDE DEF From
<1>6. \A t : Begun(t)' = Begun(t) /\ Has(t)' = Has(t)
  BY DEF Begun, Has
<1>7. \A d \in Clients : Tag(d)' = Tag(d)
  BY DEF Tag
<1>8. \A k \in Channels : Registers(k)' => Begun(request'[k].by) /\ ~Has(request'[k].by)
  BY <1>4 DEF OnceInv
<1>9. \A k, l \in Channels : Registers(k)' /\ Registers(l)' /\ request'[k].by = request'[l].by => k = l
  BY <1>4, <1>5 DEF OnceInv
<1>10. \A d \in Clients : pc'[d] \in BeforeM6 =>
         \A k \in Channels : Registers(k)' => request'[k].by # Tag(d)
  BY <1>4 DEF OnceInv
<1>11. QED
  BY <1>6, <1>7, <1>8, <1>9, <1>10 DEF OnceInv

\* A new call has a number that no message and no identity has.
LEMMA RegisterKeepsOnce ==
    ASSUME IInv, OnceInv, NEW c \in Clients, Register(c)
    PROVE  OnceInv'
<1>1. /\ calls' = [calls EXCEPT ![c] = @ + 1] /\ UNCHANGED identities
      /\ request' = [request EXCEPT ![c] = [op |-> "cleanup"]] /\ pc' = [pc EXCEPT ![c] = "cleanup"]
  BY DEF Register, Ask, device
<1>2. calls[c] \in Nat /\ calls'[c] = calls[c] + 1 /\ \A d \in Clients \ {c} : calls'[d] = calls[d]
  BY <1>1 DEF IInv, TypeInv
<1>3. \A k \in Channels : Registers(k)' => Registers(k) /\ request'[k] = request[k]
  BY <1>1 DEF Registers, IInv, TypeInv
<1>4. \A t : Begun(t) => Begun(t)'
  BY <1>2 DEF Begun, Tags, IInv, TypeInv
<1>5. \A t : Has(t)' = Has(t)
  BY <1>1 DEF Has
<1>6. ~Begun(Tag(c)')
  BY <1>2 DEF Begun, Tag
<1>7. ASSUME NEW d \in Clients, pc'[d] \in BeforeM6
      PROVE  /\ 1 <= calls'[d] /\ ~Has(Tag(d))'
             /\ \A k \in Channels : Registers(k)' => request'[k].by # Tag(d)'
  <2>1. CASE d = c
    <3>1. ~Has(Tag(c))'
      BY <1>1, <1>6 DEF OnceInv, Has
    <3>2. \A k \in Channels : Registers(k)' => request'[k].by # Tag(c)'
      BY <1>3, <1>6 DEF OnceInv
    <3>3. QED
      BY <1>2, <2>1, <3>1, <3>2
  <2>2. CASE d # c
    <3>1. pc[d] \in BeforeM6 /\ calls'[d] = calls[d] /\ Tag(d)' = Tag(d)
      BY <1>1, <1>2, <1>7, <2>2 DEF IInv, TypeInv, Tag
    <3>2. 1 <= calls[d] /\ ~Has(Tag(d)) /\ \A k \in Channels : Registers(k) => request[k].by # Tag(d)
      BY <3>1 DEF OnceInv
    <3>3. Has(Tag(d))' = Has(Tag(d))
      BY <1>1, <3>1 DEF Has
    <3>4. QED
      BY <1>3, <3>1, <3>2, <3>3
  <2>3. QED
    BY <2>1, <2>2
<1>8. \A i \in identities' : Begun(i.by)'
  BY <1>1, <1>4 DEF OnceInv
<1>9. ASSUME NEW k \in Channels, Registers(k)'
      PROVE  Begun(request[k].by)' /\ ~Has(request[k].by)'
  <2>1. request'[k] = request[k] /\ Begun(request[k].by) /\ ~Has(request[k].by)
    BY <1>3, <1>9 DEF OnceInv
  <2> DEFINE t == request[k].by
  <2>2. t' = t /\ Begun(t) /\ ~Has(t)
    BY <2>1
  <2>3. Begun(t)'
    BY <1>2, <2>2 DEF Begun, Tags, IInv, TypeInv
  <2>4. ~Has(t)'
    BY <1>1, <2>2 DEF Has
  <2>5. QED
    BY <2>3, <2>4
<1>10. \A k, l \in Channels : Registers(k)' /\ Registers(l)' /\ request'[k].by = request'[l].by => k = l
  BY <1>3 DEF OnceInv
<1>11. QED
  BY <1>7, <1>8, <1>9, <1>10 DEF OnceInv

\* M6 is sent once: the call leaves the steps before it.
LEMMA SendIdentityKeepsOnce ==
    ASSUME IInv, OnceInv, NEW c \in Clients, SendIdentity(c)
    PROVE  OnceInv'
<1>1. pc[c] = "M5" /\ UNCHANGED <<identities, calls>>
  BY DEF SendIdentity, Heard, Quiet, device
<1>2. CASE ~(Ok(reply[c]) /\ session[c].eHash = session[c].pin)
  <2>1. request' = [request EXCEPT ![c] = [op |-> "cleanup"]] /\ pc' = [pc EXCEPT ![c] = "cleaned"]
    BY <1>2 DEF SendIdentity, Leave, Ask
  <2>2. \A k \in Channels : Registers(k)' => request'[k] = request[k]
    BY <2>1 DEF Registers, IInv, TypeInv
  <2>3. \A d \in Clients : pc'[d] \in BeforeM6 => pc[d] \in BeforeM6
    BY <2>1 DEF BeforeM6, IInv, TypeInv
  <2>4. QED
    BY <1>1, <2>2, <2>3, OthersKeepOnce
<1>3. CASE Ok(reply[c]) /\ session[c].eHash = session[c].pin
  <2> DEFINE q == [op |-> "register", key |-> Key(c), certificate |-> Key(c), by |-> Tag(c)]
  <2>1. request' = [request EXCEPT ![c] = q] /\ pc' = [pc EXCEPT ![c] = "M6"]
    BY <1>3 DEF SendIdentity, Ask
  <2>2. q.by = Tag(c) /\ q.op = "register"
    OBVIOUS
  <2> HIDE DEF q
  <2>3. request'[c] = q /\ \A k \in Channels \ {c} : request'[k] = request[k]
    BY <2>1 DEF IInv, TypeInv, Channels
  <2>4. \A d \in Clients : pc'[d] \in BeforeM6 => d # c /\ pc[d] \in BeforeM6
    BY <2>1 DEF BeforeM6, IInv, TypeInv
  <2>5. /\ 1 <= calls[c] /\ ~Has(Tag(c))
        /\ \A k \in Channels : Registers(k) => request[k].by # Tag(c)
    BY <1>1 DEF OnceInv, BeforeM6
  <2>6. Begun(Tag(c))
    BY <2>5 DEF Begun, Tag, Tags, IInv, TypeInv
  <2>7. \A t : Begun(t)' = Begun(t) /\ Has(t)' = Has(t)
    BY <1>1 DEF Begun, Has
  <2>8. \A d \in Clients : Tag(d)' = Tag(d)
    BY <1>1 DEF Tag
  <2>9. \A k \in Channels \ {c} : Registers(k)' => Registers(k)
    BY <2>3 DEF Registers
  <2>10. \A k \in Channels : Registers(k)' => Begun(request'[k].by) /\ ~Has(request'[k].by)
    BY <2>2, <2>3, <2>5, <2>6, <2>9 DEF OnceInv
  <2>11. \A k, l \in Channels : Registers(k)' /\ Registers(l)' /\ request'[k].by = request'[l].by => k = l
    BY <2>2, <2>3, <2>5, <2>9 DEF OnceInv
  <2>12. ASSUME NEW d \in Clients, pc'[d] \in BeforeM6
         PROVE  /\ 1 <= calls[d] /\ ~Has(Tag(d))
                /\ \A k \in Channels : Registers(k)' => request'[k].by # Tag(d)
    <3>1. d # c /\ 1 <= calls[d] /\ ~Has(Tag(d))
      BY <2>4, <2>12 DEF OnceInv
    <3>2. \A k \in Channels \ {c} : Registers(k)' => request'[k].by # Tag(d)
      BY <2>3, <2>4, <2>9, <2>12 DEF OnceInv
    <3>3. request'[c].by # Tag(d)
      BY <2>2, <2>3, <3>1 DEF Tag
    <3>4. QED
      BY <3>1, <3>2, <3>3
  <2>13. QED
    BY <1>1, <2>7, <2>8, <2>10, <2>11, <2>12 DEF OnceInv
<1>4. QED
  BY <1>2, <1>3

\* The answer to M6 takes the message away, so its identity is the call's only one.
LEMMA ServeRegistrationKeepsOnce ==
    ASSUME IInv, OnceInv, NEW k \in Channels, Registers(k), serveRegistration(k), UNCHANGED client
    PROVE  OnceInv'
<1>1. UNCHANGED <<pc, calls>>
  BY DEF client
<1>2. request'[k] = None /\ \A l \in Channels \ {k} : request'[l] = request[l]
  BY DEF serveRegistration, Refuse, Answer, IInv, TypeInv
<1>3. \A l \in Channels : Registers(l)' => l # k /\ Registers(l) /\ request'[l] = request[l]
  BY <1>2 DEF Registers
<1>4. \A i \in identities' : i \in identities \/ i.by = request[k].by
  BY DEF serveRegistration, Refuse, device
<1>5. \A t : Begun(t)' = Begun(t)
  BY <1>1 DEF Begun
<1>6. \A t : Has(t)' => Has(t) \/ t = request[k].by
  BY <1>4 DEF Has
<1>7. \A c \in Clients : Tag(c)' = Tag(c)
  BY <1>1 DEF Tag
<1>8. \A i \in identities' : Begun(i.by)
  BY <1>4 DEF OnceInv
<1>9. ASSUME NEW l \in Channels, Registers(l)'
      PROVE  Begun(request'[l].by) /\ ~Has(request[l].by)'
  <2>1. l # k /\ Registers(l) /\ request'[l] = request[l]
    BY <1>3, <1>9
  <2>2. Begun(request[l].by) /\ ~Has(request[l].by) /\ request[l].by # request[k].by
    BY <2>1 DEF OnceInv
  <2>3. ~Has(request[l].by)'
    BY <1>4, <2>1, <2>2 DEF Has
  <2>4. QED
    BY <2>1, <2>2, <2>3
<1>10. ASSUME NEW c \in Clients, pc'[c] \in BeforeM6
       PROVE  1 <= calls'[c] /\ ~Has(Tag(c))' /\ \A l \in Channels : Registers(l)' => request'[l].by # Tag(c)
  <2>1. 1 <= calls[c] /\ ~Has(Tag(c)) /\ \A l \in Channels : Registers(l) => request[l].by # Tag(c)
    BY <1>1, <1>10 DEF OnceInv
  <2>2. ~Has(Tag(c))'
    BY <1>4, <1>7, <2>1 DEF Has
  <2>3. QED
    BY <1>1, <1>3, <2>1, <2>2
<1>11. QED
  BY <1>3, <1>5, <1>7, <1>8, <1>9, <1>10 DEF OnceInv

LEMMA ServeHTTPKeepsOnce ==
    ASSUME IInv, OnceInv, NEW k \in Channels, ServeHTTP(k)
    PROVE  OnceInv'
<1>1. request[k] # None /\ request[k].op \in {"cleanup", "pin", "hash", "ca", "register"}
      /\ UNCHANGED client
  BY Served, Messages DEF ServeHTTP
<1>2. CASE request[k].op = "register"
  BY <1>1, <1>2, ServeRegistrationKeepsOnce DEF ServeHTTP, Registers
<1>3. CASE request[k].op # "register"
  <2>1. (\E r : Answer(k, r)) /\ UNCHANGED identities
    BY <1>1, <1>3 DEF ServeHTTP, Cleanup, servePIN, serveHash, serveCA, Refuse, device
  <2>2. \A l \in Channels : Registers(l)' => request'[l] = request[l]
    BY <2>1 DEF Answer, Registers, IInv, TypeInv
  <2>3. UNCHANGED <<pc, calls>>
    BY <1>1 DEF client
  <2>4. QED
    BY <2>1, <2>2, <2>3, OthersKeepOnce
<1>4. QED
  BY <1>2, <1>3

\* Another message takes the place of what the client has asked.
LEMMA AsksOther ==
    ASSUME IInv, NEW c \in Clients, NEW q, q.op # "register", request' = [request EXCEPT ![c] = q]
    PROVE  \A k \in Channels : Registers(k)' => request'[k] = request[k]
BY DEF Registers, IInv, TypeInv

LEMMA ProceedKeepsOnce ==
    ASSUME IInv, OnceInv, NEW c \in Clients, Proceed(c)
    PROVE  OnceInv'
<1>1. CASE SendIdentity(c)
  BY <1>1, SendIdentityKeepsOnce
<1>2. CASE ~SendIdentity(c)
  <2>1. UNCHANGED <<identities, calls>>
    BY <1>2 DEF Proceed, AskPIN, SendHash, CheckHash, CheckRegistered, Finish, Quiet, Return, device
  <2>2. /\ pc[c] \in {"cleanup", "M1", "M3", "M6", "cleaned"}
        /\ \E s \in Steps : pc' = [pc EXCEPT ![c] = s]
                            /\ (s \in BeforeM6 => pc[c] \in BeforeM6)
    BY <1>2 DEF Proceed, AskPIN, SendHash, CheckHash, CheckRegistered, Finish, Return, Leave, Ask, Heard,
       Steps, BeforeM6
  <2>3. \/ UNCHANGED request
        \/ request' = [request EXCEPT ![c] = [op |-> "cleanup"]]
        \/ request' = [request EXCEPT ![c] = [op |-> "pin"]]
        \/ request' = [request EXCEPT ![c] = [op |-> "hash", nonce1 |-> Nonce(c), nonce2 |-> Tag(c)]]
    BY <1>2 DEF Proceed, AskPIN, SendHash, CheckHash, CheckRegistered, Finish, Return, Leave, Ask
  <2>4. \A k \in Channels : Registers(k)' => request'[k] = request[k]
    BY <2>3, AsksOther
  <2>5. \A d \in Clients : pc'[d] \in BeforeM6 => pc[d] \in BeforeM6
    BY <2>2 DEF IInv, TypeInv
  <2>6. QED
    BY <2>1, <2>4, <2>5, OthersKeepOnce
<1>3. QED
  BY <1>1, <1>2

LEMMA TypePINKeepsOnce ==
    ASSUME IInv, OnceInv, NEW c \in Clients, TypePIN(c)
    PROVE  OnceInv'
<1>1. pc[c] = "pin" /\ UNCHANGED <<identities, calls>>
  BY DEF TypePIN, device
<1>2. \E s \in {"cleaned", "M5"} : pc' = [pc EXCEPT ![c] = s]
  BY DEF TypePIN, Leave, Ask
<1>3. \/ request' = [request EXCEPT ![c] = [op |-> "cleanup"]]
      \/ \E p \in Pins :
            request' = [request EXCEPT ![c] =
                            [op |-> "ca", key |-> Key(c), eHash |-> session[c].eHash, pin |-> p]]
  BY DEF TypePIN, Leave, Ask
<1>4. \A k \in Channels : Registers(k)' => request'[k] = request[k]
  BY <1>3, AsksOther
<1>5. \A d \in Clients : pc'[d] \in BeforeM6 => pc[d] \in BeforeM6
  BY <1>1, <1>2 DEF BeforeM6, IInv, TypeInv
<1>6. QED
  BY <1>1, <1>4, <1>5, OthersKeepOnce

LEMMA NetworkKeepsOnce ==
    ASSUME IInv, OnceInv, NEW c \in Clients, Network(c)
    PROVE  OnceInv'
<1>1. UNCHANGED <<identities, calls>>
  BY DEF Network, LoseRequest, LoseReply, Abandon, Kill, GoesWrong, device
<1>2. \A d \in Clients : pc'[d] \in BeforeM6 => pc[d] \in BeforeM6
  BY DEF Network, LoseRequest, LoseReply, Abandon, Kill, BeforeM6, IInv, TypeInv
<1>3. CASE Adrift(c)
  BY <1>1, <1>2, <1>3, AdriftKeepsOnce
<1>4. CASE UNCHANGED request \/ request' = [request EXCEPT ![c] = None]
  <2>1. \A k \in Channels : Registers(k)' => request'[k] = request[k]
    BY <1>4 DEF Registers, IInv, TypeInv
  <2>2. QED
    BY <1>1, <1>2, <2>1, OthersKeepOnce
<1>5. QED
  BY <1>3, <1>4 DEF Network, LoseRequest, LoseReply, Abandon, Kill, Answer

LEMMA OnceKeeps == IInv /\ OnceInv /\ [Next]_vars => OnceInv'
<1> SUFFICES ASSUME IInv, OnceInv, [Next]_vars PROVE OnceInv'
  OBVIOUS
<1>1. CASE Serving
  BY <1>1, ServeHTTPKeepsOnce DEF Serving
<1>2. CASE Proceeding
  BY <1>2, ProceedKeepsOnce DEF Proceeding
<1>3. CASE \E c \in Clients : Register(c) \/ TypePIN(c) \/ Network(c)
  BY <1>3, RegisterKeepsOnce, TypePINKeepsOnce, NetworkKeepsOnce
<1>4. CASE SetPIN \/ UNCHANGED vars
  <2>1. UNCHANGED <<identities, calls, request, pc>>
    BY <1>4 DEF SetPIN, vars, device, channels, client
  <2>2. QED
    BY <2>1, OthersKeepOnce
<1>5. QED
  BY <1>1, <1>2, <1>3, <1>4 DEF Next

\* No identity is ever registered twice, however late its message arrives.
THEOREM RegisteredOnce == Spec => []OnceInv
<1>1. Init => OnceInv
  BY DEF Init, OnceInv, Registers, BeforeM6
<1>2. QED
  BY <1>1, OnceKeeps, Invariance, PTL DEF Spec

-----------------------------------------------------------------------------
(* The exchanges implement the promise of Registrar. *)

Calling == {c \in Clients : pc[c] # "idle"}

\* Unseen from outside are all steps that begin and end no call.
LEMMA Unseen ==
    ASSUME UNCHANGED <<pin, identities, calls, outcome, settled>>,
           \A c \in Clients : pc'[c] = "idle" <=> pc[c] = "idle"
    PROVE  UNCHANGED Outside!registrarVars
BY DEF Outside!registrarVars

\* The answer to M6 is the moment at which a call takes effect.
LEMMA ServeEnrolls ==
    ASSUME IInv, OnceInv, [Next]_vars, NEW k \in Channels, ServeHTTP(k)
    PROVE  [Outside!RegistrarNext]_Outside!registrarVars
<1>1. /\ request[k] # None /\ request[k].op \in {"cleanup", "pin", "hash", "ca", "register"}
      /\ UNCHANGED <<pc, calls, outcome, settled>>
  BY Served, Messages DEF ServeHTTP, client
<1>2. CASE UNCHANGED identities
  <2>1. UNCHANGED pin
    BY <1>1 DEF ServeHTTP, Cleanup, servePIN, serveHash, serveCA, serveRegistration, Refuse, device
  <2>2. QED
    BY <1>1, <1>2, <2>1, Unseen
<1>3. CASE identities' # identities
  <2>1. request[k].op = "register" /\ serveRegistration(k)
    BY <1>1, <1>3 DEF ServeHTTP, Cleanup, servePIN, serveHash, serveCA, Refuse, device
  <2>2. /\ transcript # None /\ transcript.certificate # None /\ request[k].key = transcript.key
        /\ identities' = identities \cup {[by |-> request[k].by, pin |-> transcript.eHash]}
        /\ UNCHANGED pin
    BY <1>3, <2>1 DEF serveRegistration, Refuse, device
  <2> DEFINE t == request[k].by
  <2>3. Begun(t) /\ ~Has(t)
    BY <1>1, <2>1 DEF OnceInv, Registers
  <2>4. transcript.eHash = pin /\ transcript.key[1] = nonces
    BY <2>2 DEF IInv, TranscriptInv
  <2>5. t \notin settled
    <3>1. request[k].key \in Keys /\ nonces \in Nat
      BY <1>1, <2>1, Served, Messages
    <3>2. Over(t) => request[k].key[1] < nonces
      BY <1>1, <2>1, <2>2 DEF IInv, LateInv
    <3>3. QED
      BY <2>2, <2>4, <3>1, <3>2 DEF Over, Keys
  <2> HIDE DEF t
  <2>6. PICK c \in Clients, n \in Nat : t = <<c, n>>
    BY <2>3 DEF Begun, Tags
  <2>7. n \in 1 .. calls[c]
    BY <2>3, <2>6 DEF Begun, IInv, TypeInv
  <2>8. identities' = identities \cup {[by |-> <<c, n>>, pin |-> pin]}
    BY <2>2, <2>4, <2>6 DEF t
  <2>9. Outside!Enroll(c, n)
    BY <1>1, <2>2, <2>3, <2>5, <2>6, <2>8 DEF Outside!Enroll, Outside!Enrolled, Has
  <2>10. QED
    BY <2>7, <2>9 DEF Outside!RegistrarNext
<1>4. QED
  BY <1>2, <1>3

LEMMA RegisterBegins ==
    ASSUME IInv, NEW c \in Clients, Register(c)
    PROVE  Outside!Begin(c)
<1>1. /\ pc[c] = "idle" /\ pc' = [pc EXCEPT ![c] = "cleanup"]
      /\ calls' = [calls EXCEPT ![c] = @ + 1] /\ outcome' = [outcome EXCEPT ![c] = None]
      /\ UNCHANGED <<pin, identities, settled>>
  BY DEF Register, Ask, device
<1>2. Calling' = Calling \cup {c} /\ c \notin Calling
  BY <1>1 DEF Calling, IInv, TypeInv
<1>3. QED
  BY <1>1, <1>2 DEF Outside!Begin, Calling

\* Every way out of Register is an end of the call, with a success only when
\* the device has its identity.
LEMMA ReturnEnds ==
    ASSUME IInv, NEW c \in Clients, pc[c] # "idle", NEW result \in Results, Return(c, result),
           result = "registered" => Has(Tag(c)), settled' \in {settled, settled \cup {Tag(c)}}
    PROVE  Outside!RegistrarNext
<1>1. /\ pc' = [pc EXCEPT ![c] = "idle"] /\ outcome' = [outcome EXCEPT ![c] = result]
      /\ UNCHANGED <<pin, identities, calls>>
  BY DEF Return, device
<1>2. Calling' = Calling \ {c} /\ c \in Calling
  BY <1>1 DEF Calling, IInv, TypeInv
<1>3. Outside!End(c, result)
  BY <1>1, <1>2 DEF Outside!End, Outside!Call, Outside!Enrolled, Calling, Has, Tag
<1>4. QED
  BY <1>3 DEF Outside!RegistrarNext, Results

LEMMA ProceedEnds ==
    ASSUME IInv, NEW c \in Clients, Proceed(c)
    PROVE  [Outside!RegistrarNext]_Outside!registrarVars
<1>1. pc[c] # "idle"
  BY DEF Proceed, AskPIN, SendHash, CheckHash, SendIdentity, CheckRegistered, Finish, Heard
<1>2. CASE AskPIN(c) /\ ~Ok(reply[c])
  <2>1. Return(c, "failed") /\ UNCHANGED settled /\ "failed" \in Results /\ "failed" # "registered"
    BY <1>2 DEF AskPIN, Results
  <2>2. QED
    BY <1>1, <2>1, ReturnEnds
<1>3. CASE Finish(c)
  <2>1. Return(c, session[c].result) /\ settled' \in {settled, settled \cup {Tag(c)}}
    BY <1>3 DEF Finish
  <2>2. session[c].result \in Results /\ (session[c].result = "registered" => Has(Tag(c)))
    BY <1>1, Running DEF OneInv, SuccessInv, Session
  <2>3. QED
    BY <1>1, <2>1, <2>2, ReturnEnds
<1>4. CASE ~Finish(c) /\ ~(AskPIN(c) /\ ~Ok(reply[c]))
  <2>1. /\ \E s \in Steps \ {"idle"} : pc' = [pc EXCEPT ![c] = s]
        /\ UNCHANGED <<pin, identities, calls, outcome, settled>>
    BY <1>4 DEF Proceed, AskPIN, SendHash, CheckHash, SendIdentity, CheckRegistered, Quiet, Leave, Ask,
       Steps, device
  <2>2. \A d \in Clients : pc'[d] = "idle" <=> pc[d] = "idle"
    BY <1>1, <2>1 DEF IInv, TypeInv
  <2>3. QED
    BY <2>1, <2>2, Unseen
<1>5. QED
  BY <1>2, <1>3, <1>4

LEMMA OthersUnseen ==
    ASSUME IInv, NEW c \in Clients, TypePIN(c) \/ Network(c)
    PROVE  [Outside!RegistrarNext]_Outside!registrarVars
<1>1. CASE Kill(c)
  <2>1. /\ pc[c] # "idle" /\ pc' = [pc EXCEPT ![c] = "idle"]
        /\ UNCHANGED <<pin, identities, calls, outcome, settled>>
    BY <1>1 DEF Kill, GoesWrong, device
  <2>2. Calling' = Calling \ {c} /\ c \in Calling
    BY <2>1 DEF Calling, IInv, TypeInv
  <2>3. Outside!Die(c)
    BY <2>1, <2>2 DEF Outside!Die, Calling
  <2>4. QED
    BY <2>3 DEF Outside!RegistrarNext
<1>2. CASE ~Kill(c)
  <2>1. UNCHANGED <<pin, identities, calls, outcome, settled>>
    BY <1>2 DEF TypePIN, Network, LoseRequest, LoseReply, Abandon, GoesWrong, device
  <2>2. \/ UNCHANGED pc
        \/ pc[c] = "pin" /\ \E s \in {"M5", "cleaned"} : pc' = [pc EXCEPT ![c] = s]
    BY <1>2 DEF TypePIN, Network, LoseRequest, LoseReply, Abandon, Leave, Ask
  <2>3. \A d \in Clients : pc'[d] = "idle" <=> pc[d] = "idle"
    BY <2>2 DEF IInv, TypeInv
  <2>4. QED
    BY <2>1, <2>3, Unseen
<1>3. QED
  BY <1>1, <1>2

\* Whatever clients, messages and processes do to each other, the device and the
\* callers see calls that take effect at most once, in one step, under the PIN
\* shown then, never after an acknowledged cleanup, and always before a success.
THEOREM RegistrationImplementsRegistrar == Spec => KeepsThePromise
<1>1. Init => Outside!RegistrarInit
  <2> SUFFICES ASSUME Init PROVE Outside!RegistrarInit
    OBVIOUS
  <2>1. pin \in Pins
    BY RegistrationAssumption DEF Init, FirstPin, RegistrationAssumption
  <2>2. {c \in Clients : pc[c] # "idle"} = {}
    BY DEF Init
  <2>3. QED
    BY <2>1, <2>2 DEF Init, Outside!RegistrarInit
<1>2. IInv /\ OnceInv /\ [Next]_vars => [Outside!RegistrarNext]_Outside!registrarVars
  <2> SUFFICES ASSUME IInv, OnceInv, [Next]_vars PROVE [Outside!RegistrarNext]_Outside!registrarVars
    OBVIOUS
  <2>1. CASE Serving
    BY <2>1, ServeEnrolls DEF Serving
  <2>2. CASE Proceeding
    BY <2>2, ProceedEnds DEF Proceeding
  <2>3. CASE \E c \in Clients : Register(c) \/ TypePIN(c) \/ Network(c)
    BY <2>3, RegisterBegins, OthersUnseen DEF Outside!RegistrarNext
  <2>4. CASE SetPIN
    <3>1. pin' \in Pins /\ UNCHANGED <<identities, pc, calls, outcome, settled>>
      BY <2>4 DEF SetPIN, client
    <3>2. Outside!ChangePIN
      BY <3>1 DEF Outside!ChangePIN
    <3>3. QED
      BY <3>2 DEF Outside!RegistrarNext
  <2>5. CASE UNCHANGED vars
    BY <2>5, Unseen DEF vars, device, client
  <2>6. QED
    BY <2>1, <2>2, <2>3, <2>4, <2>5 DEF Next
<1>3. QED
  BY <1>1, <1>2, Invariance, RegisteredOnce, PTL DEF Spec, KeepsThePromise, Outside!RegistrarSpec
=============================================================================
