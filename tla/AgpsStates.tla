----------------------------- MODULE AgpsStates -----------------------------
(***************************************************************************)
(* The four states of a NIF state machine (loc_eng_agps.cpp) and the       *)
(* state each of them moves to.  The four classes AgpsReleasedState,       *)
(* AgpsPendingState, AgpsAcquiredState and AgpsReleasingState are one      *)
(* function per event here; the lists they look at are arguments, already  *)
(* in the form the handler leaves them in.  AgpsStateMachine and           *)
(* DSStateMachine share them as the two C++ classes share the states.      *)
(***************************************************************************)

AgpsState == {"Released", "Pending", "Acquired", "Releasing"}

\* Faulty variants: a NIF given up with inactive subscribers on its list, or
\* kept for them.
OnUnsubscribeActive(state, subs, act) ==
  IF state = "Released" \/ act = {} THEN "Released" ELSE state

OnUnsubscribeEmpty(state, subs, act) ==
  IF state = "Released" \/ subs = {} THEN "Released" ELSE state

\* RSRC_UNSUBSCRIBE, with the subscribers and the active ones that remain.
OnUnsubscribe(state, subs, act) ==
  IF state = "Released" \/ subs = {} THEN "Released"
  ELSE IF act = {} THEN "Releasing"
  ELSE state

\* Faulty variant: a late grant overtaken by the release is taken.
OnGrantedLate(state) ==
  IF state \in {"Pending", "Releasing"} THEN "Acquired" ELSE state

\* RSRC_GRANTED: only Pending listens to it.
OnGranted(state) == IF state = "Pending" THEN "Acquired" ELSE state

\* Releasing, once the inactive subscribers have been told and removed.
AfterClose(act) == IF act = {} THEN "Released" ELSE "Pending"

\* RSRC_RELEASED: forced in Acquired, awaited in Releasing.
OnReleased(state, act) ==
  IF state = "Acquired" THEN "Released"
  ELSE IF state = "Releasing" THEN AfterClose(act)
  ELSE state

\* Faulty variant: Pending goes on after the denial.
OnDeniedPending(state, act) == IF state = "Releasing" THEN AfterClose(act) ELSE state

\* RSRC_DENIED: the answer Pending waits for; in Releasing the denial that
\* raced with the unsubscription.
OnDenied(state, act) ==
  IF state = "Pending" THEN "Released"
  ELSE IF state = "Releasing" THEN AfterClose(act)
  ELSE state

\* Faulty variant: an attempt that is only pending is not called off.
ReleasesNifHeld(state, next) == state = "Acquired" /\ next \in {"Released", "Releasing"}

\* Whether leaving `state' for `next' on an unsubscription asks the
\* connectivity service to release: Pending and Acquired do, Releasing has
\* done so already.
ReleasesNif(state, next) ==
  state \in {"Pending", "Acquired"} /\ next \in {"Released", "Releasing"}
=============================================================================
