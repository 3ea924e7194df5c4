------------------------------ MODULE Consent ------------------------------
(***************************************************************************)
(* A user's consent to one purpose (consent/router.py, consent/service.py): *)
(* granted and revoked by requests with an idempotency key, whose marker   *)
(* in Redis is set before the change is written.                           *)
(*                                                                         *)
(* The user changes his mind now and then: odd changes grant, even ones    *)
(* revoke.  A client sends the latest change, with one key per grant and   *)
(* the revoke after it, and may send it again.                             *)
(***************************************************************************)
EXTENDS Integers

CONSTANTS
  Requests,    \* requests in flight at a time
  MaxChanges,  \* bound: changes of mind
  MaxErrors    \* bound: failing requests and Redis errors

ASSUME ConsentAssumption == MaxChanges \in Nat /\ MaxErrors \in Nat

VARIABLES
  consent,   \* dpdp_consents has the purpose as granted
  changes,   \* changes the user has asked for
  marks,     \* markers: an action and a key
  sending,   \* per request: where it is, and its change
  errors,
  answered   \* ghost: a request for the latest change was answered 200

consent_vars == <<consent, changes, marks, sending, errors, answered>>

Grants(n) == n % 2 = 1

\* The marker is scoped by the action.
MarkOf(n) == [grant |-> Grants(n), key |-> (n + 1) \div 2]

NotSending == [at |-> "idle", change |-> 0]

ConsentInit ==
  /\ consent = FALSE /\ changes = 0 /\ marks = {}
  /\ sending = [r \in Requests |-> NotSending]
  /\ errors = 0 /\ answered = FALSE

\* A change of mind, or the last one again.
SendChange(r) ==
  /\ sending[r].at = "idle"
  /\ changes' \in {changes, changes + 1} \cap 1..MaxChanges
  /\ sending' = [sending EXCEPT ![r] = [at |-> "mark", change |-> changes']]
  /\ answered' = (answered /\ changes' = changes)
  /\ UNCHANGED <<consent, marks, errors>>

\* SET NX: a marker that is there already makes the request a replay, answered with the
\* state as it is; without Redis, the change is written anyway.
Mark(r) ==
  /\ sending[r].at = "mark"
  /\ LET n == sending[r].change
     IN  IF MarkOf(n) \in marks
         THEN /\ sending' = [sending EXCEPT ![r] = NotSending]
              /\ answered' = (answered \/ n = changes)
              /\ UNCHANGED <<marks, errors>>
         ELSE /\ \/ marks' = marks \cup {MarkOf(n)} /\ UNCHANGED errors
                 \/ errors < MaxErrors /\ errors' = errors + 1 /\ UNCHANGED marks
              /\ sending' = [sending EXCEPT ![r].at = "write"]
              /\ UNCHANGED answered
  /\ UNCHANGED <<consent, changes>>

\* apply_consent_change: the user's row and the audit row, in one commit.
WriteConsent(r) ==
  /\ sending[r].at = "write"
  /\ consent' = Grants(sending[r].change)
  /\ answered' = (answered \/ sending[r].change = changes)
  /\ sending' = [sending EXCEPT ![r] = NotSending]
  /\ UNCHANGED <<changes, marks, errors>>

FailRequest(r) ==
  /\ sending[r].at # "idle"
  /\ errors < MaxErrors
  /\ errors' = errors + 1
  /\ sending' = [sending EXCEPT ![r] = NotSending]
  /\ UNCHANGED <<consent, changes, marks, answered>>

\* After 24 hours.
MarkExpires ==
  /\ \E m \in marks : marks' = marks \ {m}
  /\ UNCHANGED <<consent, changes, sending, errors, answered>>

ConsentNext ==
  \/ \E r \in Requests : SendChange(r) \/ Mark(r) \/ WriteConsent(r) \/ FailRequest(r)
  \/ MarkExpires

ConsentSpec == ConsentInit /\ [][ConsentNext]_consent_vars

-----------------------------------------------------------------------------

ConsentTypeOK ==
  /\ consent \in BOOLEAN
  /\ changes \in 0..MaxChanges
  /\ marks \subseteq [grant : BOOLEAN, key : 1..changes]
  /\ sending \in [Requests -> [at : {"idle", "mark", "write"}, change : 0..changes]]
  /\ errors \in 0..MaxErrors
  /\ answered \in BOOLEAN

\* "A key reused across a grant then a revoke cannot make the revoke look like a replay and
\* be silently skipped (a fail-open trap -- consent would stay granted while the caller
\* receives 200)", router.py 84: once the latest change is a revoke that was answered with
\* 200, and no request is under way, the consent is not granted.
RevokeHonoured ==
  /\ answered /\ ~Grants(changes)
  /\ \A r \in Requests : sending[r] = NotSending
  => ~consent
=============================================================================
