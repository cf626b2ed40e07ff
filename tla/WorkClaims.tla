----------------------------- MODULE WorkClaims -----------------------------
(***************************************************************************)
(* What a sweep promises about work, whoever offers it: each seed is       *)
(* claimed at most once, only its owner builds it, and a build that ended  *)
(* - finished, failed, or lost with its worker - is not begun again.       *)
(***************************************************************************)
CONSTANTS Seeds, Workers, Nobody

VARIABLES
  owner,  \* the worker that claimed the seed
  busy    \* is it being built?

claims == <<owner, busy>>

Init ==
  /\ owner = [s \in Seeds |-> Nobody]
  /\ busy = [s \in Seeds |-> FALSE]

Claim(s, w) ==
  /\ owner[s] = Nobody
  /\ owner' = [owner EXCEPT ![s] = w]
  /\ busy' = [busy EXCEPT ![s] = TRUE]

\* Several builds end at once when the process that runs them dies.
Release(S) ==
  /\ \A s \in S : busy[s]
  /\ busy' = [s \in Seeds |-> busy[s] /\ s \notin S]
  /\ UNCHANGED owner

Next ==
  \/ \E s \in Seeds, w \in Workers : Claim(s, w)
  \/ \E S \in SUBSET Seeds : Release(S)

Spec == Init /\ [][Next]_claims
=============================================================================
