----------------------------- MODULE SlmService -----------------------------
(***************************************************************************)
(* What SharedSlmQueue promises its callers, with no line, no sort, no     *)
(* timer and no counters: one request holds the model at a time, the model *)
(* is never free while somebody waits for it, every request is answered    *)
(* once, and an answer other than a cancellation is given only to the      *)
(* holder, when it gives the model up.                                     *)
(***************************************************************************)
CONSTANTS Requests, None

VARIABLES promise,   \* how each request stands
          holder     \* the request that holds the model, or None

vars == <<promise, holder>>

Served == {"value", "error", "timeout"}
Open   == {r \in Requests : promise[r] = "open"}

Init == /\ promise = [r \in Requests |-> "none"]
        /\ holder = None

\* The model goes to one of the requests in W that still waits.  The requests
\* in C have been withdrawn and are cancelled on the way; the model stays free
\* only when that leaves nobody.
HandTo(W, answers) ==
  \E C \in SUBSET W :
    /\ promise' = [r \in Requests |-> IF r \in C THEN "cancelled"
                                                 ELSE answers[r]]
    /\ \/ W = C /\ holder' = None
       \/ holder' \in W \ C

Submit(r) ==
  /\ promise[r] = "none"
  /\ IF holder = None
     THEN HandTo({r}, [promise EXCEPT ![r] = "open"])
     ELSE /\ promise' = [promise EXCEPT ![r] = "open"]
          /\ UNCHANGED holder

Refuse(r) ==
  /\ promise[r] = "none"
  /\ promise' = [promise EXCEPT ![r] = "invalid"]
  /\ UNCHANGED holder

Release ==
  /\ holder # None
  /\ \E answer \in Served :
       HandTo(Open \ {holder}, [promise EXCEPT ![holder] = answer])

Next == \/ \E r \in Requests : Submit(r) \/ Refuse(r)
        \/ Release

SafeSpec == Init /\ [][Next]_vars

\* The model is given up in the end, so everyone in Open gets its turn.
Spec == SafeSpec /\ WF_vars(Release)
=============================================================================
