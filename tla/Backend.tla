------------------------------- MODULE Backend ------------------------------
(***************************************************************************)
(* What the scheduler relies on in a backend, whichever it is              *)
(* (src/super_q/backends/base.py): run() is called once for a seed, takes  *)
(* a slot if there is one, comes back with an outcome or an exception,     *)
(* which gives the slot back, and says ok only of a seed whose own compile *)
(* was fit to be shipped.                                                  *)
(***************************************************************************)
EXTENDS Naturals

CONSTANT Jobs

VARIABLES
  call,   \* each call of run()
  free,   \* slots nobody has
  fit     \* seeds whose own compile is fit to be shipped

promised == <<call, free, fit>>

Init ==
  /\ call = [t \in Jobs |-> "asked"]
  /\ free \in Nat
  /\ fit = {}

\* The backend is made, with its slots, before it is called.
Made ==
  /\ \A t \in Jobs : call[t] = "asked"
  /\ free' \in Nat
  /\ UNCHANGED <<call, fit>>

Refuse(t) ==
  /\ call[t] = "asked"
  /\ call' = [call EXCEPT ![t] = "raised"]
  /\ UNCHANGED <<free, fit>>

Enter(t) ==
  /\ call[t] = "asked" /\ free > 0
  /\ call' = [call EXCEPT ![t] = "inside"]
  /\ free' = free - 1
  /\ UNCHANGED fit

\* A compile may end well after run() has given it up.
Fits(t) ==
  /\ call[t] # "asked"
  /\ fit' = fit \cup {t}
  /\ UNCHANGED <<call, free>>

Leave(t, how) ==
  /\ call[t] = "inside"
  /\ call' = [call EXCEPT ![t] = how]
  /\ free' = free + 1
  /\ fit' \in {fit, fit \cup {t}}
  /\ how = "ok" => t \in fit'

Next ==
  \/ Made
  \/ \E t \in Jobs : Refuse(t) \/ Enter(t) \/ Fits(t)
  \/ \E t \in Jobs, how \in {"ok", "bad", "raised"} : Leave(t, how)

Spec == Init /\ [][Next]_promised
=============================================================================
