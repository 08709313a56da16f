----------------------------- MODULE ClientPromise -----------------------------
(***************************************************************************)
(* What connectChat (priv/ui/js/client.js) promises to the code that uses  *)
(* it: a session is awaited, then there, then over; a call is declined at  *)
(* once or asked, and every asked call ends once: kept by an answer, which *)
(* takes a session, or broken, at the latest when the session is over.     *)
(***************************************************************************)
CONSTANT Promises

VARIABLES life, promise

promiseVars == <<life, promise>>

PromiseInit == life = "connecting" /\ promise = [p \in Promises |-> "none"]

Establish ==
  life = "connecting" /\ life' = "ready" /\ UNCHANGED promise

Asked(p) ==
  /\ life # "over" /\ promise[p] = "none"
  /\ promise' = [promise EXCEPT ![p] = "asked"] /\ UNCHANGED life

Declined(p) ==
  /\ promise[p] = "none"
  /\ promise' = [promise EXCEPT ![p] = "broken"] /\ UNCHANGED life

Kept(p) ==
  /\ life = "ready" /\ promise[p] = "asked"
  /\ promise' = [promise EXCEPT ![p] = "kept"] /\ UNCHANGED life

Broken(p) ==
  /\ promise[p] = "asked"
  /\ promise' = [promise EXCEPT ![p] = "broken"] /\ UNCHANGED life

Over ==
  /\ life # "over" /\ life' = "over"
  /\ promise' = [p \in Promises |-> IF promise[p] = "asked" THEN "broken"
                                                            ELSE promise[p]]

PromiseNext ==
  \/ Establish \/ Over
  \/ \E p \in Promises : Asked(p) \/ Declined(p) \/ Kept(p) \/ Broken(p)

PromiseSpec ==
  /\ PromiseInit /\ [][PromiseNext]_promiseVars
  /\ \A p \in Promises : WF_promiseVars(Kept(p) \/ Broken(p))
================================================================================
