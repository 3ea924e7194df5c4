------------------------------ MODULE Sessions ------------------------------
(***************************************************************************)
(* The login sessions of one account: the sign-in routes, rotation of the  *)
(* refresh token (auth/service.py, auth/router.py), logout, and the        *)
(* account's suspension, deletion request, cancellation and erasure        *)
(* (auth/erasure.py), all run by concurrent requests.                      *)
(*                                                                         *)
(* A jti is a number in the order of minting; the access token of a pair   *)
(* has the number of its refresh token.  The Redis keys of other accounts  *)
(* are left out: a jti's owner never changes, so a sweep passes over them, *)
(* and reading a key's owner and deleting the key is one step.  Requests   *)
(* that are refused before they change anything are not steps.             *)
(***************************************************************************)
EXTENDS Integers

CONSTANTS
  Requests,    \* HTTP requests the servers run at a time
  MaxTokens,   \* bound: token pairs minted
  MaxStamps,   \* bound: deletion requests made
  MaxCancels   \* bound: cancellations begun

ASSUME SessionsAssumption ==
  MaxTokens \in Nat /\ MaxStamps \in Nat /\ MaxCancels \in Nat

VARIABLES
  row,       \* the row of auth.users; pending is deletion_requested_at, 0 = NULL
  waited,    \* ERASURE_WAIT has passed since the pending request
  live,      \* jtis with a key auth:refresh:{jti}
  given,     \* jtis whose refresh token reached a browser
  access,    \* access tokens that still pass current_user_or_anonymous
  minted,    \* pairs minted so far
  stamps,    \* deletion requests made so far
  mailed,    \* requests whose cancel link was mailed
  cancels,   \* cancellations begun so far
  job,       \* per request: where it is, its jti, its stamp, keys left to sweep
  family,    \* ghost: the sign-in each jti descends from, by rotation
  since,     \* ghost: pairs minted when the latest deletion request committed
  swept,     \* ghost: requests whose sweep of the keys completed
  overlooked \* ghost: jtis whose key the sweep of the latest request could not read

vars == <<row, waited, live, given, access, minted, stamps, mailed, cancels, job, family,
          since, swept, overlooked>>
tokens == <<live, given, access, minted, family>>
links  == <<mailed, cancels>>
ghosts == <<since, swept, overlooked>>

Jtis == 1..MaxTokens

Places == {"idle", "authenticated", "consumed", "stored", "refused",
           "requested", "sweeping", "link", "admin", "erasing", "erased", "purging"}

NoJob == [at |-> "idle", jti |-> 0, stamp |-> 0, todo |-> {}]

Done(r) == job' = [job EXCEPT ![r] = NoJob]
Move(r, place) == job' = [job EXCEPT ![r].at = place]

\* suspended_at or deletion_requested_at is set.
Blocked == row.suspended \/ row.pending # 0

Absent == [present |-> FALSE, suspended |-> FALSE, pending |-> 0]

\* Mutant: the stored key is not a fresh jti's.
StoreUnminted(root) ==
  /\ minted < MaxTokens
  /\ live' = live \cup {minted + 1}
  /\ family' = [family EXCEPT ![minted + 1] = root]
  /\ UNCHANGED minted

\* A key is stored with the next jti.  A SCAN under way meets every key that
\* was there from its start to its end, and any of those stored meanwhile.
Store(root) ==
  /\ minted < MaxTokens
  /\ minted' = minted + 1
  /\ live' = live \cup {minted + 1}
  /\ family' = [family EXCEPT ![minted + 1] = root]

Met(r, seen) ==
  IF r \in seen THEN [job[r] EXCEPT !.todo = @ \cup {minted + 1}] ELSE job[r]

Sweeping == {r \in Requests : job[r].at \in {"sweeping", "purging"}}

-----------------------------------------------------------------------------

Init ==
  /\ row = [present |-> TRUE, suspended |-> FALSE, pending |-> 0]
  /\ waited = FALSE
  /\ live = {} /\ given = {} /\ access = {}
  /\ minted = 0
  /\ stamps = 0 /\ mailed = {} /\ cancels = 0
  /\ job = [r \in Requests |-> NoJob]
  /\ family = [t \in Jtis |-> 0]
  /\ since = 0 /\ swept = {} /\ overlooked = {}

\* Mutant: the account's state is not looked at.
SignInUnchecked(r) ==
  /\ job[r].at = "idle"
  /\ row.present
  /\ Move(r, "authenticated")
  /\ UNCHANGED <<row, waited, tokens, stamps, links, ghosts>>

\* authenticate_*: the user row is read and neither state is set.
SignIn(r) ==
  /\ job[r].at = "idle"
  /\ row.present /\ ~Blocked
  /\ Move(r, "authenticated")
  /\ UNCHANGED <<row, waited, tokens, stamps, links, ghosts>>

\* The route then mints a pair, stores its jti and sets the cookies.
SignInStores(r) ==
  /\ job[r].at = "authenticated"
  /\ Store(minted + 1)
  /\ given' = given \cup {minted + 1}
  /\ access' = access \cup {minted + 1}
  /\ \E seen \in SUBSET Sweeping :
       job' = [x \in Requests |-> IF x = r THEN NoJob ELSE Met(x, seen)]
  /\ UNCHANGED <<row, waited, stamps, links, ghosts>>

\* Mutant: GET, with the DELETE left for later.
ConsumeByGet(r) ==
  /\ job[r].at = "idle"
  /\ \E t \in given \cap live :
       job' = [job EXCEPT ![r] = [NoJob EXCEPT !.at = "consumed", !.jti = t]]
  /\ UNCHANGED <<row, waited, tokens, stamps, links, ghosts>>

\* rotate_refresh_token: GETDEL of the presented jti; any other caller with
\* the same token gets None and a 401.
Consume(r) ==
  /\ job[r].at = "idle"
  /\ \E t \in given \cap live :
       /\ live' = live \ {t}
       /\ job' = [job EXCEPT ![r] = [NoJob EXCEPT !.at = "consumed", !.jti = t]]
  /\ UNCHANGED <<row, waited, given, access, minted, family, stamps, links, ghosts>>

StoreRotated(r) ==
  /\ job[r].at = "consumed"
  /\ Store(family[job[r].jti])
  /\ \E seen \in SUBSET Sweeping :
       job' = [x \in Requests |->
                 IF x = r THEN [NoJob EXCEPT !.at = "stored", !.jti = minted + 1]
                          ELSE Met(x, seen)]
  /\ UNCHANGED <<row, waited, given, access, stamps, links, ghosts>>

\* Mutant: the row is not looked at after the rotation.
RefreshUnchecked(r) ==
  /\ job[r].at = "stored"
  /\ given' = given \cup {job[r].jti}
  /\ access' = access \cup {job[r].jti}
  /\ Done(r)
  /\ UNCHANGED <<row, waited, live, minted, family, stamps, links, ghosts>>

\* /auth/refresh reads the row after the rotation: a suspended or
\* deletion-pending account is refused.  A row that is gone is not.
CheckAfterRotation(r) ==
  /\ job[r].at = "stored"
  /\ IF row.present /\ Blocked
     THEN /\ Move(r, "refused")
          /\ UNCHANGED <<given, access>>
     ELSE /\ given' = given \cup {job[r].jti}
          /\ access' = access \cup {job[r].jti}
          /\ Done(r)
  /\ UNCHANGED <<row, waited, live, minted, family, stamps, links, ghosts>>

\* The refused request revokes the jti it has just stored.
RevokeRotated(r) ==
  /\ job[r].at = "refused"
  /\ live' = live \ {job[r].jti}
  /\ Done(r)
  /\ UNCHANGED <<row, waited, given, access, minted, family, stamps, links, ghosts>>

Logout ==
  /\ \E t \in given : live' = live \ {t} /\ access' = access \ {t}
  /\ UNCHANGED <<row, waited, given, minted, family, stamps, links, job, ghosts>>

\* IDLE_TTL runs out on a key, or ACCESS_TTL_MIN on an access token.
Expire ==
  /\ \/ \E t \in live : live' = live \ {t} /\ UNCHANGED access
     \/ \E t \in access : access' = access \ {t} /\ UNCHANGED live
  /\ UNCHANGED <<row, waited, given, minted, family, stamps, links, job, ghosts>>

-----------------------------------------------------------------------------

\* request_user_deletion commits the timestamp: by an admin (no access token)
\* or by the user with the access token of one of the account's sessions.  A
\* second request re-stamps.
RequestDeletion(r) ==
  /\ job[r].at = "idle"
  /\ row.present
  /\ stamps < MaxStamps
  /\ stamps' = stamps + 1
  /\ row' = [row EXCEPT !.pending = stamps + 1]
  /\ waited' = FALSE
  /\ since' = minted /\ overlooked' = {}
  /\ \E own \in access \cup {0} :
       job' = [job EXCEPT ![r] = [at |-> "requested", jti |-> own,
                                  stamp |-> stamps + 1, todo |-> {}]]
  /\ UNCHANGED <<tokens, links, swept>>

\* _revoke_all_refresh_jtis begins, after either commit.
StartSweep(r) ==
  /\ job[r].at \in {"requested", "erased"}
  /\ job' = [job EXCEPT ![r].at = IF @ = "requested" THEN "sweeping" ELSE "purging",
                        ![r].todo = live]
  /\ UNCHANGED <<row, waited, tokens, stamps, links, ghosts>>

\* The key's owner is read, and the key deleted.
SweepKey(r) ==
  /\ r \in Sweeping
  /\ \E t \in job[r].todo :
       /\ live' = live \ {t}
       /\ job' = [job EXCEPT ![r].todo = @ \ {t}]
  /\ UNCHANGED <<row, waited, given, access, minted, family, stamps, links, ghosts>>

\* The GET of the owner raises: the sweep goes on with the next key.
SkipKey(r) ==
  /\ r \in Sweeping
  /\ \E t \in job[r].todo :
       /\ job' = [job EXCEPT ![r].todo = @ \ {t}]
       /\ overlooked' = IF job[r].at = "sweeping" /\ job[r].stamp = row.pending
                        THEN overlooked \cup {t} ELSE overlooked
  /\ UNCHANGED <<row, waited, tokens, stamps, links, since, swept>>

\* Mutant: the sweep may stop before the last key.
EndSweepEarly(r) ==
  /\ job[r].at = "sweeping"
  /\ mailed' = mailed \cup {job[r].stamp}
  /\ swept' = swept \cup {job[r].stamp}
  /\ access' = access \ {job[r].jti}
  /\ Done(r)
  /\ UNCHANGED <<row, waited, live, given, minted, family, stamps, cancels, since,
                 overlooked>>

\* The email with the cancel link goes out, and the self-service route revokes
\* the access token it was called with.
EndSweep(r) ==
  /\ job[r].at = "sweeping" /\ job[r].todo = {}
  /\ mailed' = mailed \cup {job[r].stamp}
  /\ swept' = swept \cup {job[r].stamp}
  /\ access' = access \ {job[r].jti}
  /\ Done(r)
  /\ UNCHANGED <<row, waited, live, given, minted, family, stamps, cancels, since,
                 overlooked>>

EndPurge(r) ==
  /\ job[r].at = "purging" /\ job[r].todo = {}
  /\ Done(r)
  /\ UNCHANGED <<row, waited, tokens, stamps, links, ghosts>>

\* The row is read with a request pending; the link also has to carry its
\* stamp.
CancelReads(r) ==
  /\ job[r].at = "idle"
  /\ row.present /\ row.pending # 0
  /\ cancels < MaxCancels
  /\ cancels' = cancels + 1
  /\ \E how \in {"link", "admin"} :
       /\ how = "link" => row.pending \in mailed
       /\ job' = [job EXCEPT ![r] = [NoJob EXCEPT !.at = how, !.stamp = row.pending]]
  /\ UNCHANGED <<row, waited, tokens, stamps, mailed, ghosts>>

\* UPDATE ... SET deletion_requested_at = NULL WHERE id: it fails when the row
\* is gone, and looks at nothing else.
CancelCommits(r) ==
  /\ job[r].at \in {"link", "admin"}
  /\ IF row.present
     THEN row' = [row EXCEPT !.pending = 0] /\ waited' = FALSE
     ELSE UNCHANGED <<row, waited>>
  /\ Done(r)
  /\ UNCHANGED <<tokens, stamps, links, ghosts>>

\* Seven days: every request of the time is over, and so is the life of every
\* key (20 minutes) and access token (15 minutes) of the time.
WaitPasses ==
  /\ row.pending # 0 /\ ~waited
  /\ \A r \in Requests : job[r].at = "idle"
  /\ waited' = TRUE
  /\ live' = {} /\ access' = {}
  /\ UNCHANGED <<row, given, minted, family, stamps, links, job, ghosts>>

\* hard_erase_user reads the row and checks request and wait ...
EraseReads(r) ==
  /\ job[r].at = "idle"
  /\ row.present /\ row.pending # 0 /\ waited
  /\ Move(r, "erasing")
  /\ UNCHANGED <<row, waited, tokens, stamps, links, ghosts>>

\* ... counts the rows of some twenty tables, deletes WHERE id, and commits.
EraseCommits(r) ==
  /\ job[r].at = "erasing"
  /\ row' = Absent
  /\ waited' = FALSE
  /\ Move(r, "erased")
  /\ UNCHANGED <<tokens, stamps, links, ghosts>>

\* /admin/users/{id}/suspend and /unsuspend: no session is touched.
Suspend ==
  /\ row.present
  /\ row' = [row EXCEPT !.suspended = ~@]
  /\ UNCHANGED <<waited, tokens, stamps, links, job, ghosts>>

\* The server running a request dies, or a Redis or Postgres call of it, other
\* than a sweep's GET, raises.
Crash(r) ==
  /\ job[r].at # "idle"
  /\ Done(r)
  /\ UNCHANGED <<row, waited, tokens, stamps, links, ghosts>>

Next ==
  \/ \E r \in Requests :
       \/ SignIn(r) \/ SignInStores(r)
       \/ Consume(r) \/ StoreRotated(r) \/ CheckAfterRotation(r) \/ RevokeRotated(r)
       \/ RequestDeletion(r) \/ StartSweep(r) \/ SweepKey(r) \/ SkipKey(r)
       \/ EndSweep(r) \/ EndPurge(r)
       \/ CancelReads(r) \/ CancelCommits(r)
       \/ EraseReads(r) \/ EraseCommits(r)
       \/ Crash(r)
  \/ Logout \/ Expire \/ WaitPasses \/ Suspend

Spec == Init /\ [][Next]_vars

-----------------------------------------------------------------------------

TypeOK ==
  /\ row \in [present : BOOLEAN, suspended : BOOLEAN, pending : 0..MaxStamps]
  /\ waited \in BOOLEAN
  /\ minted \in 0..MaxTokens /\ stamps \in 0..MaxStamps
  /\ live \subseteq 1..minted /\ given \subseteq 1..minted /\ access \subseteq 1..minted
  /\ mailed \subseteq 1..stamps /\ swept \subseteq 1..stamps
  /\ since \in 0..minted /\ overlooked \subseteq 1..minted
  /\ row.pending <= stamps /\ cancels \in 0..MaxCancels
  /\ family \in [Jtis -> 0..MaxTokens]
  /\ job \in [Requests -> [at : Places, jti : 0..minted, stamp : 0..stamps,
                           todo : SUBSET (1..minted)]]

\* Rotation keeps a session a single chain: however many requests present the
\* same or older tokens of a sign-in together, at most one of them is live.
OneLivePerSignIn == \A t, u \in live : family[t] = family[u] => t = u

\* Once the sweep of the pending request is over, no refresh token a browser
\* holds is both older than the request, or rotated from one that was, and
\* live: a rotation that the sweep raced is refused.  What may remain is the
\* first token of a sign-in that had passed its check, and a token whose key
\* that very sweep could not read.
OnlyRacingSignInsSurvive ==
  row.pending \in swept =>
    \A t \in (live \cap given) \ overlooked : t > since /\ family[t] = t

\* An erased account has no session: refresh does not refuse an account whose
\* row is gone, and yet nothing a browser holds is live, even if the purge of
\* its keys never ran; but for a cancellation that raced the erasure.
NoSessionAfterErasure == ~row.present /\ cancels = 0 => live \cap given = {}

\* hard_erase_user "never erases an active account", erasure.py 14.
OnlyPendingErased == [][row.present /\ ~row'.present => row.pending # 0]_vars

\* Nothing but a cancellation takes a request back under an erasure: repeated requests,
\* suspensions, crashes and other erasures do not.
PendingUnlessCancelled ==
  [][row.present /\ ~row'.present /\ cancels = 0 => row.pending # 0]_vars

\* The sessions of module SessionChain: a session is the sign-in its tokens descend from.
Open == {family[t] : t \in live}

Exchanged == {family[job[r].jti] : r \in {x \in Requests : job[x].at = "consumed"}}

Chain == INSTANCE SessionChain WITH
  SignIns <- Jtis, started <- {family[t] : t \in 1..minted}, open <- Open, between <- Exchanged

\* Whatever races, sessions begin, go on and end as SessionChain allows: one that a logout,
\* a sweep, a dead request or the clock has ended is not opened again by a rotation.
ImplementsChain == Chain!Spec

\* Of the sessions that there have been, those that are over.
Ended == {family[t] : t \in 1..minted} \ (Open \cup Exchanged)

\* "Revoke the refresh jti so the token can never be rotated again", service.py 398: whatever
\* rotations, sweeps and crashes race, no step puts a token into a session that has none and
\* of which none is being exchanged.
EndedStaysEnded == [][Ended \subseteq Ended']_vars
=============================================================================
