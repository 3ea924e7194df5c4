--------------------------- MODULE SessionsProofs ---------------------------
(***************************************************************************)
(* Sessions for any set of concurrent requests and any bounds: a session   *)
(* stays one chain of tokens, no session older than a deletion request     *)
(* survives its sweep but those it could not read, and none survives the   *)
(* erasure.                                                                *)
(*                                                                         *)
(* None of these is inductive.  Chains adds what a rotation under way      *)
(* holds: the consumed jti's family has no live token.  Survivors adds     *)
(* what a sweep under way owes: every live token older than the request is *)
(* still on its list, or overlooked.  Closure says that nothing begins a   *)
(* session between the end of the wait and the erasure, nor afterwards.    *)
(*                                                                         *)
(* Of the chains a step starts one, lets one go on, or drops tokens        *)
(* (Moves), and each of these SessionChain does, too.                      *)
(***************************************************************************)
EXTENDS Sessions, TLAPS

JobsOver(m, s) ==
  [at : Places, jti : 0..m, stamp : 0..s, todo : SUBSET (1..m)]

\* TypeOK alone is not inductive either: a rotation under way holds a jti, and
\* the sweep of a request its stamp.
Held ==
  /\ \A r \in Requests :
       job[r].at \in {"consumed", "stored", "refused"} => job[r].jti \in 1..minted
  /\ \A r \in Requests : job[r].at \in {"requested", "sweeping"} => job[r].stamp # 0

Chains ==
  /\ OneLivePerSignIn
  /\ \A t \in 1..minted : family[t] \in 1..minted
  /\ \A r \in Requests : job[r].at = "consumed" =>
       \A t \in live : family[t] # family[job[r].jti]
  /\ \A r, x \in Requests :
       job[r].at = "consumed" /\ job[x].at = "consumed" /\ family[job[r].jti] = family[job[x].jti] => r = x

Owed(r) ==
  job[r].at = "sweeping" /\ job[r].stamp = row.pending
    => \A t \in (live \cap given) \ overlooked : t > since \/ t \in job[r].todo

Survivors ==
  /\ OnlyRacingSignInsSurvive
  /\ ~row.present => row.pending = 0
  /\ row.pending # 0 => \A t \in given : t > since => family[t] = t
  /\ \A r \in Requests : Owed(r)

\* Without a cancellation, from the end of the wait to the erasure and after it.
Closing ==
  /\ cancels = 0
  /\ waited \/ ~row.present \/ \E r \in Requests : job[r].at = "erasing"

\* What has no live token and stores none has no session.
Closure ==
  /\ waited => row.pending # 0
  /\ cancels = 0 => \A r \in Requests : job[r].at \notin {"link", "admin"}
  /\ cancels = 0 /\ row.present =>
       \A r \in Requests : job[r].at = "erasing" => row.pending # 0
  /\ Closing => live = {} /\ \A r \in Requests : job[r].at \notin {"authenticated", "consumed"}

-----------------------------------------------------------------------------

\* A job stays a job when more pairs are minted or requests made.
LEMMA JobsGrow ==
  ASSUME NEW m \in Nat, NEW s \in Nat, NEW n \in Nat, NEW u \in Nat, m <= n, s <= u
  PROVE  JobsOver(m, s) \subseteq JobsOver(n, u)
<1>1. 0..m \subseteq 0..n /\ 0..s \subseteq 0..u /\ SUBSET (1..m) \subseteq SUBSET (1..n)
  OBVIOUS
<1> QED
  BY <1>1 DEF JobsOver

\* The jobs after a key was stored: the storing request's is given, a sweep
\* under way may have the new key on its list, the others are as before.
LEMMA JobsAfterStore ==
  ASSUME TypeOK, minted < MaxTokens, NEW r \in Requests,
         NEW own \in JobsOver(minted + 1, stamps), NEW seen \in SUBSET Sweeping,
         job' = [x \in Requests |-> IF x = r THEN own ELSE Met(x, seen)]
  PROVE  /\ job' \in [Requests -> JobsOver(minted + 1, stamps)]
         /\ job'[r] = own
         /\ \A x \in Requests \ {r} :
              /\ job'[x].at = job[x].at
              /\ job'[x].jti = job[x].jti
              /\ job'[x].stamp = job[x].stamp
              /\ job[x].todo \subseteq job'[x].todo
<1> USE SessionsAssumption DEF SessionsAssumption
<1>1. minted \in Nat /\ stamps \in Nat /\ job \in [Requests -> JobsOver(minted, stamps)]
  BY DEF TypeOK, JobsOver
<1>2. ASSUME NEW x \in Requests
      PROVE  /\ Met(x, seen) \in JobsOver(minted + 1, stamps)
             /\ Met(x, seen).at = job[x].at
             /\ Met(x, seen).jti = job[x].jti
             /\ Met(x, seen).stamp = job[x].stamp
             /\ job[x].todo \subseteq Met(x, seen).todo
  <2>1. job[x] \in JobsOver(minted, stamps) /\ job[x] \in JobsOver(minted + 1, stamps)
    BY <1>1, JobsGrow
  <2>2. CASE x \notin seen
    BY <2>1, <2>2 DEF Met
  <2>3. CASE x \in seen
    <3>1. job[x].todo \cup {minted + 1} \in SUBSET (1..(minted + 1))
      BY <1>1, <2>1 DEF JobsOver
    <3> QED
      BY <2>1, <2>3, <3>1 DEF Met, JobsOver
  <2> QED
    BY <2>2, <2>3
<1> QED
  BY <1>2

\* What TypeOK says of the jobs, and of everything else.
JobsTyped == job \in [Requests -> JobsOver(minted, stamps)]

RestTyped ==
  /\ row \in [present : BOOLEAN, suspended : BOOLEAN, pending : 0..MaxStamps]
  /\ waited \in BOOLEAN
  /\ minted \in 0..MaxTokens /\ stamps \in 0..MaxStamps
  /\ live \subseteq 1..minted /\ given \subseteq 1..minted /\ access \subseteq 1..minted
  /\ mailed \subseteq 1..stamps /\ swept \subseteq 1..stamps
  /\ since \in 0..minted /\ overlooked \subseteq 1..minted
  /\ row.pending <= stamps /\ cancels \in 0..MaxCancels
  /\ family \in [Jtis -> 0..MaxTokens]

LEMMA TypeParts == (TypeOK <=> JobsTyped /\ RestTyped) /\ (TypeOK' <=> JobsTyped' /\ RestTyped')
BY DEF TypeOK, JobsTyped, RestTyped, JobsOver

\* A request's own job is replaced, or one field of it.
LEMMA JobReplaced ==
  ASSUME NEW m \in Nat, NEW s \in Nat, job \in [Requests -> JobsOver(m, s)], NEW r \in Requests
  PROVE  /\ \A j \in JobsOver(m, s) : [job EXCEPT ![r] = j] \in [Requests -> JobsOver(m, s)]
         /\ \A p \in Places : [job EXCEPT ![r].at = p] \in [Requests -> JobsOver(m, s)]
         /\ \A k \in SUBSET (1..m) :
              [job EXCEPT ![r].todo = k] \in [Requests -> JobsOver(m, s)]
         /\ [job EXCEPT ![r] = NoJob] \in [Requests -> JobsOver(m, s)]
<1>1. job[r] \in JobsOver(m, s)
  OBVIOUS
<1>2. \A p \in Places : [job[r] EXCEPT !.at = p] \in JobsOver(m, s)
  BY <1>1 DEF JobsOver
<1>3. \A k \in SUBSET (1..m) : [job[r] EXCEPT !.todo = k] \in JobsOver(m, s)
  BY <1>1 DEF JobsOver
<1>4. NoJob \in JobsOver(m, s)
  <2>1. "idle" \in Places /\ 0 \in 0..m /\ 0 \in 0..s /\ {} \in SUBSET (1..m)
    BY DEF Places
  <2> QED
    BY <2>1 DEF NoJob, JobsOver
<1> QED
  BY <1>1, <1>2, <1>3, <1>4

\* Every action gives a request a job.
LEMMA JobsTypedStep == TypeOK /\ Next => JobsTyped'
<1> SUFFICES ASSUME TypeOK, Next PROVE JobsTyped'
  OBVIOUS
<1>a. /\ minted \in Nat /\ stamps \in Nat /\ minted + 1 \in Nat /\ stamps + 1 \in Nat
      /\ job \in [Requests -> JobsOver(minted, stamps)]
  BY SessionsAssumption DEF SessionsAssumption, TypeOK, JobsOver
<1>b. ASSUME NEW r \in Requests, UNCHANGED <<minted, stamps>>,
             \/ \E p \in Places : job' = [job EXCEPT ![r].at = p]
             \/ job' = [job EXCEPT ![r] = NoJob]
             \/ \E j \in JobsOver(minted, stamps) : job' = [job EXCEPT ![r] = j]
      PROVE  JobsTyped'
  BY <1>a, <1>b, JobReplaced DEF JobsTyped
<1>1. ASSUME NEW r \in Requests, SignIn(r) \/ EraseReads(r) \/ EraseCommits(r) PROVE JobsTyped'
  <2>1. {"authenticated", "erasing", "erased"} \subseteq Places
    BY DEF Places
  <2> QED
    BY <1>1, <1>b, <2>1 DEF SignIn, EraseReads, EraseCommits, Move, tokens
<1>2. ASSUME NEW r \in Requests, SignInStores(r) PROVE JobsTyped'
  <2>1. PICK seen \in SUBSET Sweeping :
          job' = [x \in Requests |-> IF x = r THEN NoJob ELSE Met(x, seen)]
    BY <1>2 DEF SignInStores
  <2>2. NoJob \in JobsOver(minted + 1, stamps)
    <3>1. "idle" \in Places /\ 0 \in 0..(minted + 1) /\ 0 \in 0..stamps
      BY <1>a DEF Places
    <3> QED
      BY <3>1 DEF NoJob, JobsOver
  <2>3. job' \in [Requests -> JobsOver(minted + 1, stamps)]
    BY <1>2, <2>1, <2>2, JobsAfterStore DEF SignInStores, Store
  <2> QED
    BY <1>2, <2>3 DEF SignInStores, Store, JobsTyped
<1>3. ASSUME NEW r \in Requests, Consume(r) PROVE JobsTyped'
  <2>1. PICK t \in given \cap live :
          job' = [job EXCEPT ![r] = [NoJob EXCEPT !.at = "consumed", !.jti = t]]
    BY <1>3 DEF Consume
  <2>2. t \in 0..minted /\ "consumed" \in Places /\ 0 \in 0..stamps /\ {} \in SUBSET (1..minted)
    BY <1>a DEF TypeOK, Places
  <2>3. [NoJob EXCEPT !.at = "consumed", !.jti = t] \in JobsOver(minted, stamps)
    BY <2>2 DEF NoJob, JobsOver
  <2> QED
    BY <1>3, <1>b, <2>1, <2>3 DEF Consume
<1>4. ASSUME NEW r \in Requests, StoreRotated(r) PROVE JobsTyped'
  <2> DEFINE own == [NoJob EXCEPT !.at = "stored", !.jti = minted + 1]
  <2>1. PICK seen \in SUBSET Sweeping :
          job' = [x \in Requests |-> IF x = r THEN own ELSE Met(x, seen)]
    BY <1>4 DEF StoreRotated
  <2>2. own \in JobsOver(minted + 1, stamps)
    <3>1. "stored" \in Places /\ minted + 1 \in 0..(minted + 1) /\ 0 \in 0..stamps
      BY <1>a DEF Places
    <3> QED
      BY <3>1 DEF NoJob, JobsOver
  <2> HIDE DEF own
  <2>3. job' \in [Requests -> JobsOver(minted + 1, stamps)]
    BY <1>4, <2>1, <2>2, JobsAfterStore DEF StoreRotated, Store
  <2> QED
    BY <1>4, <2>3 DEF StoreRotated, Store, JobsTyped
<1>5. ASSUME NEW r \in Requests, CheckAfterRotation(r) PROVE JobsTyped'
  <2>1. "refused" \in Places
    BY DEF Places
  <2> QED
    BY <1>5, <1>b, <2>1 DEF CheckAfterRotation, Move, Done
<1>6. ASSUME NEW r \in Requests,
             RevokeRotated(r) \/ EndSweep(r) \/ EndPurge(r) \/ CancelCommits(r) \/ Crash(r)
      PROVE  JobsTyped'
  BY <1>6, <1>b DEF RevokeRotated, EndSweep, EndPurge, CancelCommits, Crash, Done, tokens
<1>7. ASSUME NEW r \in Requests, RequestDeletion(r) PROVE JobsTyped'
  <2>1. PICK own \in access \cup {0} :
          job' = [job EXCEPT ![r] = [at |-> "requested", jti |-> own,
                                     stamp |-> stamps + 1, todo |-> {}]]
    BY <1>7 DEF RequestDeletion
  <2>2. job \in [Requests -> JobsOver(minted, stamps + 1)]
    <3>1. JobsOver(minted, stamps) \subseteq JobsOver(minted, stamps + 1)
      BY <1>a, JobsGrow
    <3> QED
      BY <1>a, <3>1
  <2>3. own \in 0..minted /\ "requested" \in Places /\ stamps + 1 \in 0..(stamps + 1)
    BY <1>a DEF TypeOK, Places
  <2>4. [at |-> "requested", jti |-> own, stamp |-> stamps + 1, todo |-> {}]
          \in JobsOver(minted, stamps + 1)
    BY <2>3 DEF JobsOver
  <2>5. job' \in [Requests -> JobsOver(minted, stamps + 1)]
    BY <1>a, <2>1, <2>2, <2>4, JobReplaced
  <2> QED
    BY <1>7, <2>5 DEF RequestDeletion, tokens, JobsTyped
<1>8. ASSUME NEW r \in Requests, StartSweep(r) PROVE JobsTyped'
  <2>1. PICK p \in {"sweeping", "purging"} : job' = [job EXCEPT ![r] = [@ EXCEPT !.at = p, !.todo = live]]
    <3>1. job[r] \in JobsOver(minted, stamps)
      BY <1>a
    <3> QED
      BY <1>8, <1>a, <3>1 DEF StartSweep, JobsOver
  <2>2. p \in Places /\ live \in SUBSET (1..minted)
    BY DEF TypeOK, Places
  <2>3. [job[r] EXCEPT !.at = p, !.todo = live] \in JobsOver(minted, stamps)
    BY <1>a, <2>2 DEF JobsOver
  <2>4. job' = [job EXCEPT ![r] = [job[r] EXCEPT !.at = p, !.todo = live]]
    BY <1>a, <2>1
  <2> QED
    BY <1>8, <1>b, <2>3, <2>4 DEF StartSweep, tokens
<1>9. ASSUME NEW r \in Requests, SweepKey(r) \/ SkipKey(r) PROVE JobsTyped'
  <2>1. PICK t \in job[r].todo : job' = [job EXCEPT ![r].todo = @ \ {t}]
    BY <1>9 DEF SweepKey, SkipKey
  <2>2. job[r].todo \ {t} \in SUBSET (1..minted)
    BY <1>a DEF JobsOver
  <2>3. job' \in [Requests -> JobsOver(minted, stamps)]
    BY <1>a, <2>1, <2>2, JobReplaced
  <2> QED
    BY <1>9, <2>3 DEF SweepKey, SkipKey, tokens, JobsTyped
<1>10. ASSUME NEW r \in Requests, CancelReads(r) PROVE JobsTyped'
  <2>1. PICK how \in {"link", "admin"} :
          job' = [job EXCEPT ![r] = [NoJob EXCEPT !.at = how, !.stamp = row.pending]]
    BY <1>10 DEF CancelReads
  <2>2. how \in Places /\ row.pending \in 0..stamps /\ 0 \in 0..minted
    BY <1>a DEF TypeOK, Places
  <2>3. [NoJob EXCEPT !.at = how, !.stamp = row.pending] \in JobsOver(minted, stamps)
    BY <2>2 DEF NoJob, JobsOver
  <2> QED
    BY <1>10, <1>b, <2>1, <2>3 DEF CancelReads, tokens
<1>11. CASE Logout \/ Expire \/ WaitPasses \/ Suspend
  BY <1>a, <1>11 DEF Logout, Expire, WaitPasses, Suspend, tokens, JobsTyped
<1> QED
  BY <1>1, <1>2, <1>3, <1>4, <1>5, <1>6, <1>7, <1>8, <1>9, <1>10, <1>11 DEF Next

\* Every action gives everything else a value of its type.
LEMMA RestTypedStep == TypeOK /\ Held /\ Next => RestTyped'
<1> SUFFICES ASSUME TypeOK, Held, Next PROVE RestTyped'
  OBVIOUS
<1> USE SessionsAssumption DEF SessionsAssumption, RestTyped
<1>a. RestTyped
  BY TypeParts
<1>b. \A r \in Requests : job[r].stamp \in 0..stamps
  BY DEF TypeOK
<1>1. ASSUME NEW r \in Requests,
             SignIn(r) \/ StartSweep(r) \/ EndPurge(r) \/ EraseReads(r) \/ Crash(r)
      PROVE  RestTyped'
  BY <1>a, <1>1 DEF SignIn, StartSweep, EndPurge, EraseReads, Crash, tokens, links, ghosts
<1>2. ASSUME NEW r \in Requests, SignInStores(r) PROVE RestTyped'
  BY <1>a, <1>2 DEF SignInStores, Store, links, ghosts, Jtis
<1>3. ASSUME NEW r \in Requests, StoreRotated(r) PROVE RestTyped'
  <2>1. family[job[r].jti] \in 0..MaxTokens
    BY <1>a, <1>3 DEF Held, StoreRotated, Jtis
  <2> QED
    BY <1>a, <1>3, <2>1, SMTT(30) DEF StoreRotated, Store, links, ghosts, Jtis
<1>4. ASSUME NEW r \in Requests, Consume(r) \/ RevokeRotated(r) \/ SweepKey(r) PROVE RestTyped'
  BY <1>a, <1>4 DEF Consume, RevokeRotated, SweepKey, links, ghosts
<1>5. ASSUME NEW r \in Requests, CheckAfterRotation(r) PROVE RestTyped'
  <2>1. job[r].jti \in 1..minted \/ job[r].jti = 0
    BY <1>a DEF TypeOK
  <2>2. job[r].jti # 0
    BY <1>5 DEF Held, CheckAfterRotation
  <2> QED
    BY <1>a, <1>5, <2>1, <2>2 DEF CheckAfterRotation, links, ghosts
<1>6. ASSUME NEW r \in Requests, RequestDeletion(r) PROVE RestTyped'
  <2>1. row' \in [present : BOOLEAN, suspended : BOOLEAN, pending : 0..MaxStamps]
    BY <1>a, <1>6 DEF RequestDeletion
  <2>2. row'.pending <= stamps' /\ stamps' \in 0..MaxStamps
    BY <1>a, <1>6 DEF RequestDeletion
  <2>3. mailed \subseteq 1..stamps' /\ swept \subseteq 1..stamps'
    BY <1>a, <1>6 DEF RequestDeletion
  <2>4. /\ UNCHANGED <<live, given, access, minted, family, mailed, cancels, swept>>
        /\ waited' = FALSE /\ since' = minted /\ overlooked' = {}
    BY <1>6 DEF RequestDeletion, tokens, links
  <2>5. since' \in 0..minted'
    BY <1>a, <2>4
  <2> QED
    BY <1>a, <2>1, <2>2, <2>3, <2>4, <2>5
<1>7. ASSUME NEW r \in Requests, EndSweep(r) PROVE RestTyped'
  <2>1. job[r].stamp \in 1..stamps
    BY <1>a, <1>b, <1>7 DEF EndSweep, Held
  <2> QED
    BY <1>a, <1>7, <2>1 DEF EndSweep
<1>8. ASSUME NEW r \in Requests, CancelReads(r) \/ CancelCommits(r) PROVE RestTyped'
  <2>1. CASE CancelReads(r)
    BY <1>a, <2>1 DEF CancelReads, tokens, ghosts
  <2>2. CASE CancelCommits(r)
    <3>1. row' \in [present : BOOLEAN, suspended : BOOLEAN, pending : 0..MaxStamps]
      BY <1>a, <2>2 DEF CancelCommits
    <3>2. row'.pending <= stamps
      BY <1>a, <2>2 DEF CancelCommits
    <3>3. waited' \in BOOLEAN
      BY <1>a, <2>2 DEF CancelCommits
    <3> QED
      BY <1>a, <2>2, <3>1, <3>2, <3>3 DEF CancelCommits, tokens, links, ghosts
  <2> QED
    BY <1>8, <2>1, <2>2
<1>9. ASSUME NEW r \in Requests, EraseCommits(r) PROVE RestTyped'
  <2>1. row' \in [present : BOOLEAN, suspended : BOOLEAN, pending : 0..MaxStamps]
    BY <1>9 DEF EraseCommits, Absent
  <2>2. row'.pending <= stamps
    BY <1>a, <1>9 DEF EraseCommits, Absent
  <2> QED
    BY <1>a, <1>9, <2>1, <2>2 DEF EraseCommits, tokens, links, ghosts
<1>10. CASE Logout \/ Expire
  BY <1>a, <1>10 DEF Logout, Expire, links, ghosts
<1>11. CASE WaitPasses
  BY <1>a, <1>11 DEF WaitPasses, links, ghosts
<1>12. CASE Suspend
  <2>1. row' \in [present : BOOLEAN, suspended : BOOLEAN, pending : 0..MaxStamps]
    BY <1>a, <1>12 DEF Suspend
  <2>2. row'.pending <= stamps
    BY <1>a, <1>12 DEF Suspend
  <2> QED
    BY <1>a, <1>12, <2>1, <2>2 DEF Suspend, tokens, links, ghosts
<1>13. ASSUME NEW r \in Requests, SkipKey(r) PROVE RestTyped'
  <2>1. \A t \in job[r].todo : t \in 1..minted
    BY DEF TypeOK
  <2>2. overlooked' \subseteq 1..minted
    BY <1>a, <1>13, <2>1 DEF SkipKey
  <2> QED
    BY <1>a, <1>13, <2>2 DEF SkipKey, tokens, links
<1> QED
  BY <1>1, <1>2, <1>3, <1>4, <1>5, <1>6, <1>7, <1>8, <1>9, <1>10, <1>11, <1>12, <1>13 DEF Next

\* What a job holds, it holds until it is done.
LEMMA HeldStep == TypeOK /\ Held /\ Next => Held'
<1> SUFFICES ASSUME TypeOK, Held, Next PROVE Held'
  OBVIOUS
<1> USE SessionsAssumption DEF SessionsAssumption
<1>a. /\ minted \in Nat /\ stamps \in Nat /\ job \in [Requests -> JobsOver(minted, stamps)]
      /\ 1..minted \subseteq 1..(minted + 1)
  BY DEF TypeOK, JobsOver
<1>b. \A r \in Requests : /\ job[r].jti \in 0..minted /\ job[r].at \in Places
                          /\ DOMAIN job[r] = {"at", "jti", "stamp", "todo"}
  BY <1>a DEF JobsOver
<1>1. ASSUME NEW r \in Requests, SignIn(r) \/ EraseReads(r) \/ EraseCommits(r) PROVE Held'
  BY <1>a, <1>1 DEF SignIn, EraseReads, EraseCommits, Move, tokens, Held, JobsOver
<1>2. ASSUME NEW r \in Requests, SignInStores(r) PROVE Held'
  <2>1. PICK seen \in SUBSET Sweeping :
          job' = [x \in Requests |-> IF x = r THEN NoJob ELSE Met(x, seen)]
    BY <1>2 DEF SignInStores
  <2>2. NoJob \in JobsOver(minted + 1, stamps)
    <3>1. "idle" \in Places /\ 0 \in 0..(minted + 1) /\ 0 \in 0..stamps
      BY <1>a DEF Places
    <3> QED
      BY <3>1 DEF NoJob, JobsOver
  <2>3. /\ job'[r] = NoJob
        /\ \A x \in Requests \ {r} :
             job'[x].at = job[x].at /\ job'[x].jti = job[x].jti /\ job'[x].stamp = job[x].stamp
    BY <1>2, <2>1, <2>2, JobsAfterStore DEF SignInStores, Store
  <2>4. minted' = minted + 1
    BY <1>2 DEF SignInStores, Store
  <2> QED
    BY <1>a, <2>3, <2>4 DEF Held, NoJob
<1>3. ASSUME NEW r \in Requests, Consume(r) PROVE Held'
  BY <1>a, <1>3 DEF Consume, NoJob, Held, TypeOK
<1>4. ASSUME NEW r \in Requests, StoreRotated(r) PROVE Held'
  <2> DEFINE own == [NoJob EXCEPT !.at = "stored", !.jti = minted + 1]
  <2>1. PICK seen \in SUBSET Sweeping :
          job' = [x \in Requests |-> IF x = r THEN own ELSE Met(x, seen)]
    BY <1>4 DEF StoreRotated
  <2>2. own \in JobsOver(minted + 1, stamps) /\ own.at = "stored" /\ own.jti = minted + 1
    <3>1. "stored" \in Places /\ minted + 1 \in 0..(minted + 1) /\ 0 \in 0..stamps
      BY <1>a DEF Places
    <3> QED
      BY <3>1 DEF NoJob, JobsOver
  <2> HIDE DEF own
  <2>3. /\ job'[r] = own
        /\ \A x \in Requests \ {r} :
             job'[x].at = job[x].at /\ job'[x].jti = job[x].jti /\ job'[x].stamp = job[x].stamp
    BY <1>4, <2>1, <2>2, JobsAfterStore DEF StoreRotated, Store
  <2>4. minted' = minted + 1
    BY <1>4 DEF StoreRotated, Store
  <2> QED
    BY <1>a, <2>2, <2>3, <2>4 DEF Held
<1>5. ASSUME NEW r \in Requests,
             CheckAfterRotation(r) \/ RevokeRotated(r) \/ EndSweep(r) \/ EndPurge(r)
               \/ CancelCommits(r) \/ Crash(r)
      PROVE  Held'
  BY <1>a, <1>5 DEF CheckAfterRotation, RevokeRotated, EndSweep, EndPurge, CancelCommits, Crash,
                    Move, Done, NoJob, tokens, Held, JobsOver
<1>6. ASSUME NEW r \in Requests, RequestDeletion(r) PROVE Held'
  BY <1>a, <1>6 DEF RequestDeletion, tokens, Held
<1>7. ASSUME NEW r \in Requests, StartSweep(r) \/ SweepKey(r) \/ SkipKey(r) PROVE Held'
  BY <1>a, <1>7 DEF StartSweep, SweepKey, SkipKey, tokens, Held, JobsOver
<1>8. ASSUME NEW r \in Requests, CancelReads(r) PROVE Held'
  BY <1>a, <1>8 DEF CancelReads, NoJob, tokens, Held
<1>9. CASE Logout \/ Expire \/ WaitPasses \/ Suspend
  BY <1>9 DEF Logout, Expire, WaitPasses, Suspend, tokens, Held
<1> QED
  BY <1>1, <1>2, <1>3, <1>4, <1>5, <1>6, <1>7, <1>8, <1>9 DEF Next

-----------------------------------------------------------------------------

\* A step that stores no key and starts no rotation keeps the chains.
LEMMA ChainsKept ==
  ASSUME Chains, UNCHANGED <<minted, family>>, live' \subseteq live,
         \A r \in Requests : job'[r].at = "consumed" => job[r].at = "consumed" /\ job'[r].jti = job[r].jti
  PROVE  Chains'
BY DEF Chains, OneLivePerSignIn

\* The store of a jti whose family is root: the chain root's tail is replaced.
LEMMA ChainsStored ==
  ASSUME TypeOK, Held, Chains, NEW r \in Requests, NEW root, Store(root),
         \/ root = minted + 1
         \/ job[r].at = "consumed" /\ root = family[job[r].jti],
         \A x \in Requests : job'[x].at = "consumed" =>
           x # r /\ job[x].at = "consumed" /\ job'[x].jti = job[x].jti
  PROVE  Chains'
<1> USE SessionsAssumption DEF SessionsAssumption
<1>1. /\ minted \in Nat /\ minted < MaxTokens /\ minted' = minted + 1
      /\ live \subseteq 1..minted /\ live' = live \cup {minted + 1}
      /\ family \in [1..MaxTokens -> 0..MaxTokens]
      /\ family' = [family EXCEPT ![minted + 1] = root]
  BY DEF TypeOK, Store, Jtis
<1>2. family'[minted + 1] = root /\ \A t \in 1..minted : family'[t] = family[t]
  BY <1>1
<1>3. \A t \in 1..minted : family[t] \in 1..minted
  BY DEF Chains
<1>4. \A x \in Requests : job[x].at = "consumed" => job[x].jti \in 1..minted
  BY DEF Held
<1>5. root \in 1..(minted + 1)
  BY <1>1, <1>3, <1>4
<1>6. \A t \in live : family[t] # root
  <2>1. CASE root = minted + 1
    BY <1>1, <1>3, <2>1
  <2>2. CASE job[r].at = "consumed" /\ root = family[job[r].jti]
    BY <2>2 DEF Chains
  <2> QED
    BY <2>1, <2>2
<1>7. \A x \in Requests : job[x].at = "consumed" /\ x # r => family[job[x].jti] # root
  <2>1. CASE root = minted + 1
    <3>1. \A x \in Requests : job[x].at = "consumed" => family[job[x].jti] \in 1..minted
      BY <1>3, <1>4
    <3> QED
      BY <1>1, <2>1, <3>1
  <2>2. CASE job[r].at = "consumed" /\ root = family[job[r].jti]
    BY <2>2 DEF Chains
  <2> QED
    BY <2>1, <2>2
<1>8. OneLivePerSignIn'
  <2>a. \A t \in live : family'[t] = family[t]
    BY <1>1, <1>2
  <2>1. \A t, u \in live : family'[t] = family'[u] => t = u
    BY <2>a DEF Chains, OneLivePerSignIn
  <2>2. \A t \in live : family'[t] # family'[minted + 1]
    BY <1>2, <1>6, <2>a
  <2> QED
    BY <1>1, <2>1, <2>2 DEF OneLivePerSignIn
<1>9. \A t \in 1..minted' : family'[t] \in 1..minted'
  BY <1>1, <1>2, <1>3, <1>5
<1>10. \A x \in Requests : job'[x].at = "consumed" =>
         /\ x # r /\ job[x].at = "consumed"
         /\ job'[x].jti = job[x].jti /\ job[x].jti \in 1..minted
         /\ family'[job'[x].jti] = family[job[x].jti]
  <2>1. \A x \in Requests : job'[x].at = "consumed" => job[x].jti \in 1..minted
    BY <1>4
  <2> QED
    BY <1>2, <2>1
<1>11. \A x \in Requests : job'[x].at = "consumed" => \A t \in live' : family'[t] # family'[job'[x].jti]
  <2>1. \A x \in Requests : job[x].at = "consumed" => \A t \in live : family[t] # family[job[x].jti]
    BY DEF Chains
  <2>2. \A t \in live : family'[t] = family[t]
    BY <1>1, <1>2
  <2> QED
    BY <1>1, <1>2, <1>7, <1>10, <2>1, <2>2
<1>12. \A x, y \in Requests :
         /\ job'[x].at = "consumed" /\ job'[y].at = "consumed"
         /\ family'[job'[x].jti] = family'[job'[y].jti]
         => x = y
  <2>1. \A x, y \in Requests :
          job[x].at = "consumed" /\ job[y].at = "consumed" /\ family[job[x].jti] = family[job[y].jti] => x = y
    BY DEF Chains
  <2> QED
    BY <1>10, <2>1
<1> QED
  BY <1>8, <1>9, <1>11, <1>12 DEF Chains

\* What a step does to tokens and rotations.
Rotating == {x \in Requests : job[x].at = "consumed"}

StillRotating == \A x \in Rotating' \cap Rotating : job'[x].jti = job[x].jti

Stores(r, root) ==
  /\ Store(root) /\ r \in Requests /\ StillRotating /\ Rotating' = Rotating \ {r}
  /\ \/ root = minted + 1 /\ r \notin Rotating
     \/ root = family[job[r].jti] /\ r \in Rotating

Presents(r, t) ==
  /\ r \in Requests \ Rotating /\ Rotating' = Rotating \cup {r} /\ StillRotating
  /\ t \in live /\ live' = live \ {t} /\ job'[r].jti = t
  /\ UNCHANGED <<minted, family>>

Drops ==
  /\ live' \subseteq live /\ Rotating' = Rotating /\ StillRotating
  /\ UNCHANGED <<minted, family>>

Breaks(r) ==
  /\ r \in Rotating /\ Rotating' = Rotating \ {r} /\ StillRotating
  /\ UNCHANGED <<live, minted, family>>

LEMMA Moves ==
  ASSUME TypeOK, Next
  PROVE  \/ Drops
         \/ \E r \in Requests : \/ Breaks(r) \/ (\E t \in live : Presents(r, t))
                               \/ (\E root \in {minted + 1, family[job[r].jti]} : Stores(r, root))
<1>a. minted \in Nat /\ stamps \in Nat /\ job \in [Requests -> JobsOver(minted, stamps)]
  BY SessionsAssumption DEF TypeOK, JobsOver
<1>1. ASSUME NEW r \in Requests, SignIn(r) \/ EraseReads(r) \/ EraseCommits(r) PROVE Drops
  BY <1>a, <1>1 DEF SignIn, EraseReads, EraseCommits, Move, tokens, JobsOver, Drops, Rotating,
                    StillRotating
<1>2. ASSUME NEW r \in Requests, SignInStores(r)
      PROVE  \E root \in {minted + 1, family[job[r].jti]} : Stores(r, root)
  <2>1. PICK seen \in SUBSET Sweeping :
          job' = [x \in Requests |-> IF x = r THEN NoJob ELSE Met(x, seen)]
    BY <1>2 DEF SignInStores
  <2>2. NoJob \in JobsOver(minted + 1, stamps) /\ NoJob.at = "idle"
    <3>1. "idle" \in Places /\ 0 \in 0..(minted + 1) /\ 0 \in 0..stamps
      BY <1>a DEF Places
    <3> QED
      BY <3>1 DEF NoJob, JobsOver
  <2> HIDE DEF NoJob
  <2>3. /\ job'[r].at = "idle" /\ job[r].at = "authenticated"
        /\ \A x \in Requests \ {r} : job'[x].at = job[x].at /\ job'[x].jti = job[x].jti
    BY <1>2, <2>1, <2>2, JobsAfterStore DEF SignInStores, Store
  <2>4. Stores(r, minted + 1)
    BY <1>2, <2>3 DEF SignInStores, Stores, Rotating, StillRotating
  <2> QED
    BY <2>4
<1>3. ASSUME NEW r \in Requests, Consume(r) PROVE \E t \in live : Presents(r, t)
  <2>1. PICK t \in given \cap live :
          /\ live' = live \ {t}
          /\ job' = [job EXCEPT ![r] = [NoJob EXCEPT !.at = "consumed", !.jti = t]]
    BY <1>3 DEF Consume
  <2>2. /\ UNCHANGED <<minted, family>> /\ job[r].at # "consumed"
        /\ job'[r].at = "consumed" /\ job'[r].jti = t
        /\ \A x \in Requests \ {r} : job'[x] = job[x]
    BY <1>a, <1>3, <2>1 DEF Consume, NoJob
  <2>3. Presents(r, t)
    BY <2>1, <2>2 DEF Presents, Rotating, StillRotating
  <2> QED
    BY <2>3
<1>4. ASSUME NEW r \in Requests, StoreRotated(r)
      PROVE  \E root \in {minted + 1, family[job[r].jti]} : Stores(r, root)
  <2> DEFINE own == [NoJob EXCEPT !.at = "stored", !.jti = minted + 1]
  <2>1. PICK seen \in SUBSET Sweeping :
          job' = [x \in Requests |-> IF x = r THEN own ELSE Met(x, seen)]
    BY <1>4 DEF StoreRotated
  <2>2. own \in JobsOver(minted + 1, stamps) /\ own.at = "stored"
    <3>1. "stored" \in Places /\ minted + 1 \in 0..(minted + 1) /\ 0 \in 0..stamps
      BY <1>a DEF Places
    <3> QED
      BY <3>1 DEF NoJob, JobsOver
  <2> HIDE DEF own
  <2>3. /\ job'[r].at = "stored" /\ job[r].at = "consumed"
        /\ \A x \in Requests \ {r} : job'[x].at = job[x].at /\ job'[x].jti = job[x].jti
    BY <1>4, <2>1, <2>2, JobsAfterStore DEF StoreRotated, Store
  <2>4. Stores(r, family[job[r].jti])
    BY <1>4, <2>3 DEF StoreRotated, Stores, Rotating, StillRotating
  <2> QED
    BY <2>4
<1>5. ASSUME NEW r \in Requests,
             CheckAfterRotation(r) \/ RevokeRotated(r) \/ EndSweep(r) \/ EndPurge(r)
               \/ CancelCommits(r)
      PROVE  Drops
  BY <1>a, <1>5 DEF CheckAfterRotation, RevokeRotated, EndSweep, EndPurge, CancelCommits,
                    Move, Done, NoJob, tokens, JobsOver, Drops, Rotating, StillRotating
<1>6. ASSUME NEW r \in Requests, Crash(r) PROVE Drops \/ Breaks(r)
  BY <1>a, <1>6 DEF Crash, Done, NoJob, tokens, Drops, Breaks, Rotating, StillRotating
<1>7. ASSUME NEW r \in Requests,
             RequestDeletion(r) \/ StartSweep(r) \/ SweepKey(r) \/ SkipKey(r) \/ CancelReads(r)
      PROVE  Drops
  <2>1. CASE RequestDeletion(r)
    BY <1>a, <2>1 DEF RequestDeletion, tokens, Drops, Rotating, StillRotating
  <2>2. CASE StartSweep(r)
    BY <1>a, <2>2 DEF StartSweep, tokens, JobsOver, Drops, Rotating, StillRotating
  <2>3. CASE SweepKey(r) \/ SkipKey(r)
    BY <1>a, <2>3 DEF SweepKey, SkipKey, tokens, JobsOver, Drops, Rotating, StillRotating
  <2>4. CASE CancelReads(r)
    BY <1>a, <2>4 DEF CancelReads, NoJob, tokens, Drops, Rotating, StillRotating
  <2> QED
    BY <1>7, <2>1, <2>2, <2>3, <2>4
<1>8. CASE Logout \/ Expire \/ WaitPasses \/ Suspend
  BY <1>8 DEF Logout, Expire, WaitPasses, Suspend, tokens, Drops, Rotating, StillRotating
<1> QED
  BY <1>1, <1>2, <1>3, <1>4, <1>5, <1>6, <1>7, <1>8 DEF Next

LEMMA ChainsStep == TypeOK /\ Held /\ Chains /\ Next => Chains'
<1> SUFFICES ASSUME TypeOK, Held, Chains, Next PROVE Chains'
  OBVIOUS
<1>1. CASE Drops
  BY <1>1, ChainsKept DEF Drops, Rotating, StillRotating
<1>2. ASSUME NEW r \in Requests, Breaks(r) PROVE Chains'
  BY <1>2, ChainsKept DEF Breaks, Rotating, StillRotating
<1>3. ASSUME NEW r \in Requests, NEW t \in live, Presents(r, t) PROVE Chains'
  <2>a. UNCHANGED <<minted, family>> /\ live' = live \ {t} /\ job'[r].jti = t
    BY <1>3 DEF Presents
  <2>b. ASSUME NEW x \in Requests, job'[x].at = "consumed"
        PROVE  x = r \/ (job[x].at = "consumed" /\ job'[x].jti = job[x].jti)
    <3>1. x = r \/ x \in Rotating' \cap Rotating
      BY <1>3, <2>b DEF Presents, Rotating
    <3>2. x \in Rotating' \cap Rotating => job'[x].jti = job[x].jti
      BY <1>3 DEF Presents, StillRotating
    <3> QED
      BY <3>1, <3>2 DEF Rotating
  <2>1. /\ UNCHANGED <<minted, family>> /\ live' = live \ {t} /\ job'[r].jti = t
        /\ \A x \in Requests : job'[x].at = "consumed" =>
             x = r \/ (job[x].at = "consumed" /\ job'[x].jti = job[x].jti)
    BY <2>a, <2>b
  <2>2. \A u \in live' : family[u] # family[t]
    BY <2>1 DEF Chains, OneLivePerSignIn
  <2>3. \A x \in Requests : job[x].at = "consumed" => family[job[x].jti] # family[t]
    BY DEF Chains
  <2>4. OneLivePerSignIn'
    BY <2>1 DEF Chains, OneLivePerSignIn
  <2> QED
    BY <2>1, <2>2, <2>3, <2>4 DEF Chains
<1>4. ASSUME NEW r \in Requests, NEW root, Stores(r, root) PROVE Chains'
  BY <1>4, ChainsStored DEF Stores, Rotating, StillRotating
<1> QED
  BY <1>1, <1>2, <1>3, <1>4, Moves

-----------------------------------------------------------------------------

\* A step that stores no key, makes and ends no request, and takes from the
\* list of a sweep only what is no longer live, or is overlooked by the one that counts.
LEMMA SurvivorsKept ==
  ASSUME Survivors, row'.pending = row.pending, row'.present = row.present,
         UNCHANGED <<since, swept, given, family>>, live' \subseteq live,
         overlooked \subseteq overlooked',
         \A r \in Requests : job'[r].at = "sweeping" =>
           /\ job[r].at = "sweeping" /\ job'[r].stamp = job[r].stamp
           /\ job[r].stamp = row.pending =>
                \A t \in live' \ overlooked' : t \in job[r].todo => t \in job'[r].todo
  PROVE  Survivors'
<1>1. OnlyRacingSignInsSurvive'
  BY DEF Survivors, OnlyRacingSignInsSurvive
<1>2. (~row'.present => row'.pending = 0) /\ (row'.pending # 0 => \A t \in given' : t > since' => family'[t] = t)
  BY DEF Survivors
<1>3. \A r \in Requests : job'[r].at = "sweeping" /\ job'[r].stamp = row'.pending
        => \A t \in (live' \cap given') \ overlooked' : t > since' \/ t \in job'[r].todo
  BY DEF Survivors, Owed
<1> QED
  BY <1>1, <1>2, <1>3 DEF Survivors, Owed

\* With no request pending nothing is owed.
LEMMA SurvivorsIdle ==
  ASSUME RestTyped', Held', row'.pending = 0
  PROVE  Survivors'
<1>1. row'.pending \notin swept'
  BY DEF RestTyped
<1>2. \A r \in Requests : job'[r].at = "sweeping" => job'[r].stamp # 0
  BY DEF Held
<1> QED
  BY <1>1, <1>2 DEF Survivors, Owed, OnlyRacingSignInsSurvive

\* A stored key is a browser's only if it is the first of a sign-in.
LEMMA SurvivorsStored ==
  ASSUME TypeOK, Survivors, NEW root, Store(root),
         UNCHANGED <<row, since, swept, overlooked>>,
         given' = given \/ (given' = given \cup {minted + 1} /\ root = minted + 1),
         \A r \in Requests : job'[r].at = "sweeping" =>
           /\ job[r].at = "sweeping" /\ job'[r].stamp = job[r].stamp
           /\ job[r].todo \subseteq job'[r].todo
  PROVE  Survivors'
<1> USE SessionsAssumption DEF SessionsAssumption
<1>1. /\ minted \in Nat /\ minted < MaxTokens /\ minted + 1 > since
      /\ live' = live \cup {minted + 1} /\ live \subseteq 1..minted /\ given \subseteq 1..minted
      /\ family \in [1..MaxTokens -> 0..MaxTokens]
      /\ family' = [family EXCEPT ![minted + 1] = root]
  BY DEF TypeOK, Store, Jtis
<1>2. \A t \in 1..minted : family'[t] = family[t]
  BY <1>1
<1>3. \A t \in given' : t \in given \/ (t > since /\ family'[t] = t)
  <2>1. family'[minted + 1] = root
    BY <1>1
  <2>2. CASE given' = given
    BY <2>2
  <2>3. CASE given' = given \cup {minted + 1} /\ root = minted + 1
    BY <1>1, <2>1, <2>3
  <2> QED
    BY <2>2, <2>3
<1>4. \A t \in live' \cap given' : t \in live \cap given \/ (t > since /\ family'[t] = t)
  BY <1>1, <1>3
<1>5. \A t \in given : family'[t] = family[t]
  BY <1>1, <1>2
<1>6. OnlyRacingSignInsSurvive'
  BY <1>4, <1>5 DEF Survivors, OnlyRacingSignInsSurvive
<1>7. row'.pending # 0 => \A t \in given' : t > since' => family'[t] = t
  BY <1>3, <1>5 DEF Survivors
<1>8. \A r \in Requests : job'[r].at = "sweeping" /\ job'[r].stamp = row'.pending
        => \A t \in (live' \cap given') \ overlooked' : t > since' \/ t \in job'[r].todo
  BY <1>4 DEF Survivors, Owed
<1> QED
  BY <1>6, <1>7, <1>8 DEF Survivors, Owed

LEMMA SurvivorsStep ==
  TypeOK /\ Held /\ Survivors /\ RestTyped' /\ Held' /\ Next => Survivors'
<1> SUFFICES ASSUME TypeOK, Held, Survivors, RestTyped', Held', Next PROVE Survivors'
  OBVIOUS
<1> USE SessionsAssumption DEF SessionsAssumption
<1>a. minted \in Nat /\ stamps \in Nat /\ job \in [Requests -> JobsOver(minted, stamps)]
  BY DEF TypeOK, JobsOver
<1>1. ASSUME NEW r \in Requests, SignIn(r) \/ EraseReads(r) PROVE Survivors'
  <2>1. /\ UNCHANGED <<row, since, swept, overlooked, live, given, family>>
        /\ \A x \in Requests : job'[x].at = "sweeping" => job'[x] = job[x]
    BY <1>a, <1>1 DEF SignIn, EraseReads, Move, tokens, ghosts, JobsOver
  <2> QED
    BY <2>1, SurvivorsKept
<1>2. ASSUME NEW r \in Requests, SignInStores(r) PROVE Survivors'
  <2>1. PICK seen \in SUBSET Sweeping :
          job' = [x \in Requests |-> IF x = r THEN NoJob ELSE Met(x, seen)]
    BY <1>2 DEF SignInStores
  <2>2. NoJob \in JobsOver(minted + 1, stamps)
    <3>1. "idle" \in Places /\ 0 \in 0..(minted + 1) /\ 0 \in 0..stamps
      BY <1>a DEF Places
    <3> QED
      BY <3>1 DEF NoJob, JobsOver
  <2>3. /\ job'[r] = NoJob
        /\ \A x \in Requests \ {r} : /\ job'[x].at = job[x].at
                                    /\ job'[x].stamp = job[x].stamp
                                    /\ job[x].todo \subseteq job'[x].todo
    BY <1>2, <2>1, <2>2, JobsAfterStore DEF SignInStores, Store
  <2>4. \A x \in Requests : job'[x].at = "sweeping" =>
          /\ job[x].at = "sweeping" /\ job'[x].stamp = job[x].stamp
          /\ job[x].todo \subseteq job'[x].todo
    BY <2>3 DEF NoJob
  <2> DEFINE root == minted + 1
  <2>5. /\ Store(root) /\ root = minted + 1 /\ given' = given \cup {minted + 1}
        /\ UNCHANGED <<row, since, swept, overlooked>>
    BY <1>2 DEF SignInStores, ghosts
  <2> HIDE DEF root
  <2> QED
    BY <2>4, <2>5, SurvivorsStored
<1>3. ASSUME NEW r \in Requests, StoreRotated(r) PROVE Survivors'
  <2> DEFINE own == [NoJob EXCEPT !.at = "stored", !.jti = minted + 1]
  <2>1. PICK seen \in SUBSET Sweeping :
          job' = [x \in Requests |-> IF x = r THEN own ELSE Met(x, seen)]
    BY <1>3 DEF StoreRotated
  <2>2. own \in JobsOver(minted + 1, stamps) /\ own.at = "stored"
    <3>1. "stored" \in Places /\ minted + 1 \in 0..(minted + 1) /\ 0 \in 0..stamps
      BY <1>a DEF Places
    <3> QED
      BY <3>1 DEF NoJob, JobsOver
  <2> HIDE DEF own
  <2>3. /\ job'[r] = own
        /\ \A x \in Requests \ {r} : /\ job'[x].at = job[x].at
                                    /\ job'[x].stamp = job[x].stamp
                                    /\ job[x].todo \subseteq job'[x].todo
    BY <1>3, <2>1, <2>2, JobsAfterStore DEF StoreRotated, Store
  <2>4. \A x \in Requests : job'[x].at = "sweeping" =>
          /\ job[x].at = "sweeping" /\ job'[x].stamp = job[x].stamp
          /\ job[x].todo \subseteq job'[x].todo
    BY <2>2, <2>3
  <2>5. Store(family[job[r].jti]) /\ given' = given /\ UNCHANGED <<row, since, swept, overlooked>>
    BY <1>3 DEF StoreRotated, ghosts
  <2> QED
    BY <2>4, <2>5, SurvivorsStored
<1>4. ASSUME NEW r \in Requests, CheckAfterRotation(r) PROVE Survivors'
  <2>1. CASE row.present /\ Blocked
    <3>1. /\ UNCHANGED <<row, since, swept, overlooked, live, given, family>>
          /\ \A x \in Requests : job'[x].at = "sweeping" => job'[x] = job[x]
      BY <1>a, <1>4, <2>1 DEF CheckAfterRotation, Move, ghosts, JobsOver
    <3> QED
      BY <3>1, SurvivorsKept
  <2>2. CASE ~(row.present /\ Blocked)
    <3>1. row'.pending = 0
      BY <1>4, <2>2 DEF CheckAfterRotation, Blocked, Survivors
    <3> QED
      BY <3>1, SurvivorsIdle
  <2> QED
    BY <2>1, <2>2
<1>5. ASSUME NEW r \in Requests,
             Consume(r) \/ RevokeRotated(r) \/ EndPurge(r) \/ CancelReads(r) \/ Crash(r)
      PROVE  Survivors'
  <2>1. UNCHANGED <<row, since, swept, overlooked, given, family>> /\ live' \subseteq live
    BY <1>5 DEF Consume, RevokeRotated, EndPurge, CancelReads, Crash, tokens, ghosts
  <2>2. \A x \in Requests : job'[x].at = "sweeping" => job'[x] = job[x]
    <3>1. CASE Consume(r)
      BY <1>a, <3>1 DEF Consume, NoJob
    <3>2. CASE RevokeRotated(r) \/ EndPurge(r) \/ Crash(r)
      BY <1>a, <3>2 DEF RevokeRotated, EndPurge, Crash, Done, NoJob
    <3>3. CASE CancelReads(r)
      BY <1>a, <3>3 DEF CancelReads, NoJob
    <3> QED
      BY <1>5, <3>1, <3>2, <3>3
  <2> QED
    BY <2>1, <2>2, SurvivorsKept
<1>6. ASSUME NEW r \in Requests, SweepKey(r) \/ SkipKey(r) PROVE Survivors'
  <2>1. PICK t \in job[r].todo :
          /\ job' = [job EXCEPT ![r].todo = @ \ {t}]
          /\ \/ live' = live \ {t}
             \/ job[r].at = "sweeping" /\ job[r].stamp = row.pending => t \in overlooked'
    BY <1>6 DEF SweepKey, SkipKey
  <2>2. \A x \in Requests :
          /\ job'[x].at = job[x].at /\ job'[x].stamp = job[x].stamp
          /\ job[x].at = "sweeping" /\ job[x].stamp = row.pending =>
               \A u \in live' \ overlooked' : u \in job[x].todo => u \in job'[x].todo
    <3>1. job'[r].at = job[r].at /\ job'[r].stamp = job[r].stamp /\ job'[r].todo = job[r].todo \ {t}
      BY <1>a, <2>1 DEF JobsOver
    <3>2. \A x \in Requests \ {r} : job'[x] = job[x]
      BY <1>a, <2>1
    <3> QED
      BY <2>1, <3>1, <3>2
  <2>3. /\ UNCHANGED <<row, since, swept, given, family>> /\ live' \subseteq live
        /\ overlooked \subseteq overlooked'
    BY <1>6 DEF SweepKey, SkipKey, tokens, ghosts
  <2> QED
    BY <2>2, <2>3, SurvivorsKept
<1>7. ASSUME NEW r \in Requests, RequestDeletion(r) PROVE Survivors'
  <2>1. /\ row'.present /\ row'.pending = stamps + 1 /\ since' = minted
        /\ UNCHANGED <<swept, given, family>>
    BY <1>7 DEF RequestDeletion, tokens, TypeOK
  <2>2. /\ \A x \in Requests : job'[x].at = "sweeping" => job'[x].stamp # stamps + 1
    <3>1. \A x \in Requests : job'[x].at = "sweeping" => job'[x] = job[x]
      BY <1>a, <1>7 DEF RequestDeletion
    <3>2. \A x \in Requests : job[x].stamp # stamps + 1
      BY <1>a DEF JobsOver
    <3> QED
      BY <3>1, <3>2
  <2>3. stamps + 1 \notin swept
    BY <1>a DEF TypeOK
  <2>4. \A t \in given : ~(t > minted)
    BY <1>a DEF TypeOK
  <2> QED
    BY <2>1, <2>2, <2>3, <2>4 DEF Survivors, Owed, OnlyRacingSignInsSurvive
<1>8. ASSUME NEW r \in Requests, StartSweep(r) PROVE Survivors'
  <2>1. UNCHANGED <<row, since, swept, overlooked, live, given, family>>
    BY <1>8 DEF StartSweep, tokens, ghosts
  <2>2. job'[r].todo = live /\ \A x \in Requests \ {r} : job'[x] = job[x]
    BY <1>a, <1>8 DEF StartSweep, JobsOver
  <2>3. \A x \in Requests : job'[x].at = "sweeping" /\ job'[x].stamp = row'.pending
          => \A t \in (live' \cap given') \ overlooked' : t > since' \/ t \in job'[x].todo
    BY <2>1, <2>2 DEF Survivors, Owed
  <2> QED
    BY <2>1, <2>3 DEF Survivors, Owed, OnlyRacingSignInsSurvive
<1>9. ASSUME NEW r \in Requests, EndSweep(r) PROVE Survivors'
  <2>1. /\ UNCHANGED <<row, since, overlooked, live, given, family>> /\ swept' = swept \cup {job[r].stamp}
        /\ job[r].at = "sweeping" /\ job[r].todo = {} /\ job[r].stamp # 0
    BY <1>9 DEF EndSweep, Held
  <2>2. \A x \in Requests : job'[x].at = "sweeping" => job'[x] = job[x]
    BY <1>a, <1>9 DEF EndSweep, Done, NoJob
  <2>3. job[r].stamp = row.pending => \A t \in (live \cap given) \ overlooked : t > since /\ family[t] = t
    BY <2>1 DEF Survivors, Owed
  <2> QED
    BY <2>1, <2>2, <2>3 DEF Survivors, Owed, OnlyRacingSignInsSurvive
<1>10. ASSUME NEW r \in Requests, CancelCommits(r) PROVE Survivors'
  <2>1. row'.pending = 0
    BY <1>10 DEF CancelCommits, Survivors, TypeOK
  <2> QED
    BY <2>1, SurvivorsIdle
<1>11. ASSUME NEW r \in Requests, EraseCommits(r) PROVE Survivors'
  <2>1. row'.pending = 0
    BY <1>11 DEF EraseCommits, Absent
  <2> QED
    BY <2>1, SurvivorsIdle
<1>12. CASE Logout \/ Expire \/ WaitPasses \/ Suspend
  <2>1. UNCHANGED <<since, swept, overlooked, given, family, job>> /\ live' \subseteq live
    BY <1>12 DEF Logout, Expire, WaitPasses, Suspend, tokens, ghosts
  <2>2. row'.pending = row.pending /\ row'.present = row.present
    BY <1>12 DEF Logout, Expire, WaitPasses, Suspend, TypeOK
  <2> QED
    BY <2>1, <2>2, SurvivorsKept
<1> QED
  BY <1>1, <1>2, <1>3, <1>4, <1>5, <1>6, <1>7, <1>8, <1>9, <1>10, <1>11, <1>12 DEF Next

-----------------------------------------------------------------------------

\* A step that leaves row and wait, stores or consumes a token only before the wait is over,
\* and starts neither a cancellation nor an erasure.
LEMMA ClosureKept ==
  ASSUME Closure, UNCHANGED <<waited, cancels>>,
         row'.pending = row.pending, row'.present = row.present,
         Closing => live' \subseteq live,
         \A r \in Requests : job'[r].at \in {"link", "admin", "erasing"} => job[r].at = job'[r].at,
         Closing => \A r \in Requests :
           job'[r].at \in {"authenticated", "consumed"} => job[r].at = job'[r].at
  PROVE  Closure'
<1>1. Closing' => Closing
  BY DEF Closing
<1>2. /\ waited' => row'.pending # 0
      /\ cancels' = 0 => \A r \in Requests : job'[r].at \notin {"link", "admin"}
      /\ cancels' = 0 /\ row'.present =>
           \A r \in Requests : job'[r].at = "erasing" => row'.pending # 0
  BY DEF Closure
<1>3. Closing' => live' = {} /\ \A r \in Requests : job'[r].at \notin {"authenticated", "consumed"}
  BY <1>1 DEF Closure
<1> QED
  BY <1>2, <1>3 DEF Closure

LEMMA ClosureStep == TypeOK /\ Survivors /\ Closure /\ Next => Closure'
<1> SUFFICES ASSUME TypeOK, Survivors, Closure, Next PROVE Closure'
  OBVIOUS
<1> USE SessionsAssumption DEF SessionsAssumption
<1>a. /\ minted \in Nat /\ cancels \in Nat /\ row \in [present : BOOLEAN, suspended : BOOLEAN, pending : 0..MaxStamps]
      /\ job \in [Requests -> JobsOver(minted, stamps)]
  BY DEF TypeOK, JobsOver
<1>b. ~row.present => row.pending = 0
  BY DEF Survivors
<1>1. ASSUME NEW r \in Requests, SignIn(r) PROVE Closure'
  <2>1. ~Closing
    BY <1>1 DEF SignIn, Blocked, Closing, Closure
  <2>2. \A x \in Requests : job'[x].at \in {"link", "admin", "erasing"} => job[x].at = job'[x].at
    BY <1>a, <1>1 DEF SignIn, Move, JobsOver
  <2> QED
    BY <1>1, <2>1, <2>2, ClosureKept DEF SignIn, links
<1>2. ASSUME NEW r \in Requests, SignInStores(r) PROVE Closure'
  <2>1. ~Closing
    BY <1>2 DEF SignInStores, Closure
  <2>2. PICK seen \in SUBSET Sweeping :
          job' = [x \in Requests |-> IF x = r THEN NoJob ELSE Met(x, seen)]
    BY <1>2 DEF SignInStores
  <2>3. NoJob \in JobsOver(minted + 1, stamps)
    <3>1. "idle" \in Places /\ 0 \in 0..(minted + 1) /\ 0 \in 0..stamps
      BY <1>a DEF Places, TypeOK
    <3> QED
      BY <3>1 DEF NoJob, JobsOver
  <2>4. job'[r] = NoJob /\ \A x \in Requests \ {r} : job'[x].at = job[x].at
    BY <1>2, <2>2, <2>3, JobsAfterStore DEF SignInStores, Store
  <2>5. \A x \in Requests : job'[x].at \in {"link", "admin", "erasing"} => job[x].at = job'[x].at
    BY <2>4 DEF NoJob
  <2> QED
    BY <1>2, <2>1, <2>5, ClosureKept DEF SignInStores, links
<1>3. ASSUME NEW r \in Requests, Consume(r) PROVE Closure'
  <2>1. ~Closing
    BY <1>3 DEF Consume, Closure
  <2>2. \A x \in Requests : job'[x].at \in {"link", "admin", "erasing"} => job[x].at = job'[x].at
    BY <1>a, <1>3 DEF Consume, NoJob
  <2> QED
    BY <1>3, <2>1, <2>2, ClosureKept DEF Consume, links
<1>4. ASSUME NEW r \in Requests, StoreRotated(r) PROVE Closure'
  <2>1. ~Closing
    BY <1>4 DEF StoreRotated, Closure
  <2> DEFINE own == [NoJob EXCEPT !.at = "stored", !.jti = minted + 1]
  <2>2. PICK seen \in SUBSET Sweeping :
          job' = [x \in Requests |-> IF x = r THEN own ELSE Met(x, seen)]
    BY <1>4 DEF StoreRotated
  <2>3. own \in JobsOver(minted + 1, stamps) /\ own.at = "stored"
    <3>1. "stored" \in Places /\ minted + 1 \in 0..(minted + 1) /\ 0 \in 0..stamps
      BY <1>a DEF Places, TypeOK
    <3> QED
      BY <3>1 DEF NoJob, JobsOver
  <2> HIDE DEF own
  <2>4. job'[r] = own /\ \A x \in Requests \ {r} : job'[x].at = job[x].at
    BY <1>4, <2>2, <2>3, JobsAfterStore DEF StoreRotated, Store
  <2>5. \A x \in Requests : job'[x].at \in {"link", "admin", "erasing"} => job[x].at = job'[x].at
    BY <2>3, <2>4
  <2> QED
    BY <1>4, <2>1, <2>5, ClosureKept DEF StoreRotated, links
<1>5. ASSUME NEW r \in Requests,
             CheckAfterRotation(r) \/ RevokeRotated(r) \/ StartSweep(r) \/ SweepKey(r)
               \/ SkipKey(r) \/ EndSweep(r) \/ EndPurge(r) \/ Crash(r)
      PROVE  Closure'
  <2>1. UNCHANGED <<row, waited, cancels>> /\ live' \subseteq live
    BY <1>5 DEF CheckAfterRotation, RevokeRotated, StartSweep, SweepKey, SkipKey, EndSweep, EndPurge,
                Crash, tokens, links
  <2>2. \A x \in Requests :
          job'[x].at \in {"link", "admin", "erasing", "authenticated", "consumed"}
            => job[x].at = job'[x].at
    <3>1. CASE CheckAfterRotation(r) \/ RevokeRotated(r) \/ EndSweep(r) \/ EndPurge(r) \/ Crash(r)
      BY <1>a, <3>1 DEF CheckAfterRotation, RevokeRotated, EndSweep, EndPurge, Crash, Move,
                        Done, NoJob, JobsOver
    <3>2. CASE StartSweep(r) \/ SweepKey(r) \/ SkipKey(r)
      BY <1>a, <3>2 DEF StartSweep, SweepKey, SkipKey, JobsOver
    <3> QED
      BY <1>5, <3>1, <3>2
  <2> QED
    BY <2>1, <2>2, ClosureKept
<1>6. ASSUME NEW r \in Requests, RequestDeletion(r) PROVE Closure'
  <2>1. /\ row.present /\ row'.pending # 0 /\ row'.present /\ waited' = FALSE
        /\ UNCHANGED <<cancels, live>>
    BY <1>a, <1>6 DEF RequestDeletion, tokens, links, TypeOK
  <2>2. \A x \in Requests :
          job'[x].at \in {"link", "admin", "erasing", "authenticated", "consumed"}
            => job[x].at = job'[x].at
    BY <1>a, <1>6 DEF RequestDeletion
  <2>3. Closing' => Closing
    BY <2>1, <2>2 DEF Closing
  <2> QED
    BY <2>1, <2>2, <2>3 DEF Closure
<1>7. ASSUME NEW r \in Requests, CancelReads(r) PROVE Closure'
  <2>1. UNCHANGED <<row, waited>> /\ cancels' # 0
    BY <1>a, <1>7 DEF CancelReads
  <2> QED
    BY <2>1 DEF Closure, Closing
<1>8. ASSUME NEW r \in Requests, CancelCommits(r) PROVE Closure'
  <2>1. cancels # 0 /\ cancels' = cancels
    BY <1>8 DEF CancelCommits, links, Closure
  <2>2. waited' => row'.pending # 0
    BY <1>8 DEF CancelCommits, Closure
  <2> QED
    BY <2>1, <2>2 DEF Closure, Closing
<1>9. ASSUME NEW r \in Requests, EraseReads(r) PROVE Closure'
  <2>1. /\ row.pending # 0 /\ waited
        /\ UNCHANGED <<row, waited, cancels, live>>
    BY <1>9 DEF EraseReads, tokens, links
  <2>2. \A x \in Requests :
          job'[x].at \in {"link", "admin", "authenticated", "consumed"} => job[x].at = job'[x].at
    BY <1>a, <1>9 DEF EraseReads, Move, JobsOver
  <2>3. cancels = 0 => Closing
    BY <2>1 DEF Closing
  <2> QED
    BY <2>1, <2>2, <2>3 DEF Closure, Closing
<1>10. ASSUME NEW r \in Requests, EraseCommits(r) PROVE Closure'
  <2>1. /\ job[r].at = "erasing" /\ row'.present = FALSE /\ waited' = FALSE
        /\ UNCHANGED <<cancels, live>>
    BY <1>10 DEF EraseCommits, Absent, tokens, links
  <2>2. \A x \in Requests :
          job'[x].at \in {"link", "admin", "authenticated", "consumed"} => job[x].at = job'[x].at
    BY <1>a, <1>10 DEF EraseCommits, Move, JobsOver
  <2>3. cancels = 0 => Closing
    BY <2>1 DEF Closing
  <2> QED
    BY <2>1, <2>2, <2>3 DEF Closure, Closing
<1>11. CASE WaitPasses
  <2>1. /\ row.pending # 0 /\ live' = {} /\ UNCHANGED <<row, cancels, job>>
        /\ \A x \in Requests : job[x].at = "idle"
    BY <1>11 DEF WaitPasses, links
  <2> QED
    BY <2>1 DEF Closure
<1>12. CASE Logout \/ Expire \/ Suspend
  <2>1. UNCHANGED <<waited, cancels, job>> /\ live' \subseteq live
    BY <1>12 DEF Logout, Expire, Suspend, tokens, links
  <2>2. row'.pending = row.pending /\ row'.present = row.present
    BY <1>a, <1>12 DEF Logout, Expire, Suspend
  <2> QED
    BY <2>1, <2>2, ClosureKept
<1> QED
  BY <1>1, <1>2, <1>3, <1>4, <1>5, <1>6, <1>7, <1>8, <1>9, <1>10, <1>11, <1>12 DEF Next

-----------------------------------------------------------------------------

\* The inductive invariant.
Inv == TypeOK /\ Held /\ Chains /\ Survivors /\ Closure

LEMMA InitInv == Init => Inv
<1> SUFFICES ASSUME Init PROVE Inv
  OBVIOUS
<1> USE SessionsAssumption DEF SessionsAssumption
<1>1. minted = 0 /\ stamps = 0 /\ \A r \in Requests : job[r] = NoJob
  BY DEF Init
<1>2. JobsTyped
  <2>1. "idle" \in Places /\ 0 \in 0..minted /\ 0 \in 0..stamps /\ {} \in SUBSET (1..minted)
    BY <1>1 DEF Places
  <2>2. NoJob \in JobsOver(minted, stamps)
    BY <2>1 DEF NoJob, JobsOver
  <2> QED
    BY <2>2 DEF Init, JobsTyped
<1>3. RestTyped
  <2>1. row \in [present : BOOLEAN, suspended : BOOLEAN, pending : 0..MaxStamps]
    BY DEF Init
  <2>2. family \in [Jtis -> 0..MaxTokens]
    BY DEF Init
  <2>3. row.pending = 0 /\ since = 0 /\ cancels = 0 /\ waited = FALSE
    BY DEF Init
  <2>4. /\ live \subseteq 1..minted /\ given \subseteq 1..minted /\ access \subseteq 1..minted
        /\ mailed \subseteq 1..stamps /\ swept \subseteq 1..stamps
        /\ overlooked \subseteq 1..minted
    BY DEF Init
  <2>5. waited \in BOOLEAN
    BY <2>3
  <2>6. /\ minted \in 0..MaxTokens /\ stamps \in 0..MaxStamps /\ since \in 0..minted
        /\ row.pending <= stamps /\ cancels \in 0..MaxCancels
    BY <1>1, <2>3
  <2> QED
    BY <2>1, <2>2, <2>4, <2>5, <2>6 DEF RestTyped
<1>4. Held
  BY <1>1 DEF Held, NoJob
<1>5. Chains
  BY <1>1 DEF Init, Chains, OneLivePerSignIn, NoJob
<1>6. Survivors
  BY <1>1 DEF Init, Survivors, Owed, OnlyRacingSignInsSurvive, NoJob
<1>7. Closure
  BY <1>1 DEF Init, Closure, Closing, NoJob
<1> QED
  BY <1>2, <1>3, <1>4, <1>5, <1>6, <1>7, TypeParts DEF Inv

LEMMA NextInv == Inv /\ [Next]_vars => Inv'
<1> SUFFICES ASSUME Inv, [Next]_vars PROVE Inv'
  OBVIOUS
<1>1. CASE Next
  BY <1>1, JobsTypedStep, RestTypedStep, HeldStep, ChainsStep, SurvivorsStep, ClosureStep, TypeParts
    DEF Inv
<1>2. CASE UNCHANGED vars
  <2>1. TypeOK'
    BY <1>2 DEF Inv, TypeOK, vars
  <2>2. Held'
    BY <1>2 DEF Inv, Held, vars
  <2>3. Chains'
    BY <1>2 DEF Inv, Chains, OneLivePerSignIn, vars
  <2>4. Survivors'
    BY <1>2 DEF Inv, Survivors, Owed, OnlyRacingSignInsSurvive, vars
  <2>5. Closure'
    BY <1>2 DEF Inv, Closure, Closing, vars
  <2> QED
    BY <2>1, <2>2, <2>3, <2>4, <2>5 DEF Inv
<1> QED
  BY <1>1, <1>2

LEMMA Invariance == Spec => []Inv
BY InitInv, NextInv, PTL DEF Spec

\* Every value the sessions' keys, row and requests take has its type.
THEOREM SessionsTyped == Spec => []TypeOK
<1>1. Inv => TypeOK
  BY DEF Inv
<1> QED
  BY <1>1, Invariance, PTL

\* GETDEL keeps a sign-in's tokens a chain for any number of requests: two
\* that descend from the same sign-in are never live together.
THEOREM OneLive == Spec => []OneLivePerSignIn
<1>1. Inv => OneLivePerSignIn
  BY DEF Inv, Chains
<1> QED
  BY <1>1, Invariance, PTL

\* For any number of rotations, sign-ins, crashes and repeated deletion
\* requests: a browser's live token that outlives the pending request's sweep
\* is the first token of a sign-in that stored it after the request, or one
\* whose key erasure.py's sweep passed over because its GET raised.
THEOREM SweptSessionsEnd == Spec => []OnlyRacingSignInsSurvive
<1>1. Inv => OnlyRacingSignInsSurvive
  BY DEF Inv, Survivors
<1> QED
  BY <1>1, Invariance, PTL

\* An erasure that no cancellation raced leaves no session, whatever else runs at the time:
\* signing in, rotation, more deletion requests, more erasures, crashes before the purge.
THEOREM ErasedAccountsEnd == Spec => []NoSessionAfterErasure
<1>1. Inv => NoSessionAfterErasure
  BY DEF Inv, Closure, Closing, NoSessionAfterErasure
<1> QED
  BY <1>1, Invariance, PTL

\* Of all that runs beside hard_erase_user, only a cancellation makes it erase an active
\* account, which is what sessions_erase_cancel's counterexample shows.
THEOREM OnlyCancellationsRace == Spec => PendingUnlessCancelled
<1>1. Inv /\ [Next]_vars =>
        [row.present /\ ~row'.present /\ cancels = 0 => row.pending # 0]_vars
  <2> SUFFICES ASSUME Inv, Next, row.present, ~row'.present, cancels = 0
               PROVE  row.pending # 0
    OBVIOUS
  <2>1. row \in [present : BOOLEAN, suspended : BOOLEAN, pending : 0..MaxStamps]
    BY DEF Inv, TypeOK
  <2>2. CASE \E r \in Requests : EraseCommits(r)
    BY <2>2 DEF EraseCommits, Inv, Closure
  <2>3. ASSUME NEW r \in Requests, RequestDeletion(r) \/ CancelCommits(r) PROVE FALSE
    <3>1. \E p : row' = row \/ row' = [row EXCEPT !.pending = p]
      BY <2>3 DEF RequestDeletion, CancelCommits
    <3> QED
      BY <2>1, <3>1
  <2>4. CASE Suspend
    BY <2>1, <2>4 DEF Suspend
  <2>5. ASSUME NEW r \in Requests,
               SignIn(r) \/ SignInStores(r) \/ Consume(r) \/ StoreRotated(r)
                 \/ CheckAfterRotation(r) \/ RevokeRotated(r) \/ StartSweep(r) \/ SweepKey(r)
                 \/ SkipKey(r) \/ EndSweep(r) \/ EndPurge(r) \/ CancelReads(r) \/ EraseReads(r) \/ Crash(r)
        PROVE  row' = row
    BY <2>5 DEF SignIn, SignInStores, Consume, StoreRotated, CheckAfterRotation, RevokeRotated,
                StartSweep, SweepKey, SkipKey, EndSweep, EndPurge, CancelReads, EraseReads, Crash
  <2>6. CASE Logout \/ Expire \/ WaitPasses
    BY <2>6 DEF Logout, Expire, WaitPasses
  <2> QED
    BY <2>2, <2>3, <2>4, <2>5, <2>6 DEF Next
<1> QED
  BY <1>1, Invariance, PTL DEF Spec, PendingUnlessCancelled

\* Rotations and tokens by the sign-ins they descend from: a move is a move of SessionChain.
LEMMA ChainMoves ==
  ASSUME TypeOK, Held, Chains, Next
  PROVE  Chain!Next \/ UNCHANGED Chain!vars
<1> DEFINE started == {family[t] : t \in 1..minted}
<1>a. /\ minted \in Nat /\ live \subseteq 1..minted /\ Rotating \subseteq Requests
      /\ \A t \in 1..minted : family[t] \in 1..minted /\ family[t] \in Jtis
      /\ \A x \in Rotating : job[x].jti \in 1..minted
  BY SessionsAssumption DEF TypeOK, Chains, Held, Rotating, Jtis
<1>b. /\ \A t, u \in live : family[t] = family[u] => t = u
      /\ \A x \in Rotating : \A t \in live : family[t] # family[job[x].jti]
      /\ \A x, y \in Rotating : family[job[x].jti] = family[job[y].jti] => x = y
  BY DEF Chains, OneLivePerSignIn, Rotating
<1>c. Exchanged = {family[job[x].jti] : x \in Rotating}
  BY DEF Exchanged, Rotating
<1>d. Exchanged' = {family'[job'[x].jti] : x \in Rotating'}
  BY DEF Exchanged, Rotating
<1>1. CASE Drops
  <2>1. Exchanged' = Exchanged
    BY <1>1, <1>c, <1>d DEF Drops, StillRotating
  <2>2. Open' \subseteq Open /\ started' = started
    BY <1>1 DEF Drops, Open
  <2>3. Chain!End(Open \ Open')
    BY <2>1, <2>2 DEF Chain!End
  <2>4. (Open \ Open') \in SUBSET Open
    OBVIOUS
  <2> QED
    BY <2>3, <2>4 DEF Chain!Next
<1>2. ASSUME NEW r \in Requests, Breaks(r) PROVE Chain!Next
  <2>1. Rotating' = Rotating \ {r} /\ r \in Rotating /\ UNCHANGED <<live, minted, family>>
        /\ \A x \in Rotating' : job'[x].jti = job[x].jti
    BY <1>2 DEF Breaks, StillRotating
  <2>2. PICK s : s = family[job[r].jti]
    OBVIOUS
  <2>3. s \in Exchanged /\ s \in Jtis /\ Exchanged' = Exchanged \ {s}
    BY <1>a, <1>b, <1>c, <1>d, <2>1, <2>2
  <2>4. Open' = Open /\ started' = started
    BY <2>1 DEF Open
  <2> QED
    BY <2>3, <2>4 DEF Chain!Next, Chain!GiveUp
<1>3. ASSUME NEW r \in Requests, NEW t \in live, Presents(r, t) PROVE Chain!Next
  <2>1. /\ r \notin Rotating /\ Rotating' = Rotating \cup {r} /\ live' = live \ {t}
        /\ job'[r].jti = t /\ UNCHANGED <<minted, family>>
        /\ \A x \in Rotating : job'[x].jti = job[x].jti
    BY <1>3 DEF Presents, StillRotating
  <2>2. PICK s : s = family[t]
    OBVIOUS
  <2>3. s \in Open /\ s \in Jtis /\ s \notin Exchanged /\ Open' = Open \ {s}
    BY <1>a, <1>b, <1>c, <2>1, <2>2 DEF Open
  <2>4. Exchanged' = Exchanged \cup {s} /\ started' = started
    BY <1>c, <1>d, <2>1, <2>2
  <2> QED
    BY <2>3, <2>4 DEF Chain!Next, Chain!Exchange
<1>4. ASSUME NEW r \in Requests, NEW root, Stores(r, root) PROVE Chain!Next
  <2>1. /\ minted' = minted + 1 /\ live' = live \cup {minted + 1} /\ minted + 1 \in Jtis
        /\ family' = [family EXCEPT ![minted + 1] = root] /\ DOMAIN family = Jtis
        /\ Rotating' = Rotating \ {r} /\ \A x \in Rotating' : job'[x].jti = job[x].jti
    BY <1>4, <1>a, SessionsAssumption DEF Stores, Store, StillRotating, TypeOK, Jtis
  <2>2. family'[minted + 1] = root /\ \A t \in 1..minted : family'[t] = family[t]
    BY <1>a, <2>1
  <2>3. Open' = Open \cup {root}
    BY <1>a, <2>1, <2>2 DEF Open
  <2>4. 1..minted' = 1..minted \cup {minted + 1}
    BY <1>a, <2>1
  <2>5. started' = started \cup {root}
    BY <1>a, <2>2, <2>4
  <2>6. \A x \in Rotating' : family'[job'[x].jti] = family[job[x].jti]
    BY <1>a, <2>1, <2>2
  <2>7. CASE root = minted + 1 /\ r \notin Rotating
    <3>1. Exchanged' = Exchanged
      BY <1>c, <1>d, <2>1, <2>6, <2>7
    <3>2. root \notin started /\ root \in Jtis
      BY <1>a, <2>1, <2>7
    <3> QED
      BY <2>3, <2>5, <3>1, <3>2 DEF Chain!Next, Chain!Start
  <2>8. CASE root = family[job[r].jti] /\ r \in Rotating
    <3>1. root \in Exchanged /\ root \in Jtis /\ root \notin Open /\ root \in started
      BY <1>a, <1>b, <1>c, <2>8 DEF Open
    <3>2. Exchanged' = Exchanged \ {root}
      BY <1>a, <1>b, <1>c, <1>d, <2>1, <2>6, <2>8
    <3>3. started' = started
      BY <2>5, <3>1
    <3> QED
      BY <2>3, <3>1, <3>2, <3>3 DEF Chain!Next, Chain!Resume
  <2> QED
    BY <1>4, <2>7, <2>8 DEF Stores
<1> QED
  BY <1>1, <1>2, <1>3, <1>4, Moves

\* For any requests and bounds, a session that has ended, by whatever, has ended for good,
\* and each sign-in opens one.
THEOREM SessionsImplementChain == Spec => ImplementsChain
<1>1. Init => Chain!Init
  <2> SUFFICES ASSUME Init PROVE Chain!Init
    OBVIOUS
  <2>1. 1..minted = {} /\ live = {} /\ \A x \in Requests : job[x].at # "consumed"
    BY DEF Init, NoJob
  <2> QED
    BY <2>1 DEF Chain!Init, Open, Exchanged
<1>2. Inv /\ [Next]_vars => [Chain!Next]_(Chain!vars)
  <2> SUFFICES ASSUME Inv, [Next]_vars PROVE Chain!Next \/ UNCHANGED Chain!vars
    OBVIOUS
  <2>1. CASE Next
    BY <2>1, ChainMoves DEF Inv
  <2>2. CASE UNCHANGED vars
    BY <2>2 DEF vars, Chain!vars, Open, Exchanged
  <2> QED
    BY <2>1, <2>2
<1> QED
  BY <1>1, <1>2, Invariance, PTL DEF Spec, ImplementsChain, Chain!Spec

\* What has ended does not begin again, as SessionChain has it: rotate_refresh_token stores a
\* token only for one that its GETDEL has taken.
THEOREM EndedForGood == Spec => EndedStaysEnded
<1>1. Inv /\ [Next]_vars => [Ended \subseteq Ended']_vars
  <2> SUFFICES ASSUME Inv, Next PROVE Ended \subseteq Ended'
    OBVIOUS
  <2> DEFINE started == {family[t] : t \in 1..minted}
  <2>1. CASE UNCHANGED Chain!vars
    BY <2>1 DEF Ended, Chain!vars
  <2>2. ASSUME Chain!Next
        PROVE  started \subseteq started' /\ \A s \in started \ (Open \cup Exchanged) : s \notin Open' \cup Exchanged'
    BY <2>2 DEF Chain!Next, Chain!Start, Chain!Exchange, Chain!Resume, Chain!GiveUp, Chain!End
  <2> QED
    BY <2>1, <2>2, ChainMoves DEF Inv, Ended
<1> QED
  BY <1>1, Invariance, PTL DEF Spec, EndedStaysEnded
=============================================================================
