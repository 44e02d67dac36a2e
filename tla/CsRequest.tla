------------------------------ MODULE CsRequest ------------------------------
(***************************************************************************)
(* What the generic request context (Esm/ib/src/cs/cs_context.c, header    *)
(* Esm/ib/include/cs_context.h) promises to its callers.                   *)
(*                                                                         *)
(* A request is idle until a caller issues it.  A request that is accepted *)
(* is pending; it leaves that state exactly once, through its callback,    *)
(* with the answer to that very request or with a failure.  A request that *)
(* is refused fails at once.  At most PoolSize requests are pending.       *)
(***************************************************************************)
EXTENDS Naturals, FiniteSets

CONSTANTS Req,       \* the requests, each with a transaction id of its own
          PoolSize   \* generic_cntxt_t.poolSize

VARIABLE st          \* what the caller knows about each request

Status == {"idle", "pending", "answered", "failed"}

Pending == {r \in Req : st[r] = "pending"}

Init == st = [r \in Req |-> "idle"]

\* One request changes its status.
Become(r, s) == st' = [st EXCEPT ![r] = s]

Issue(r) ==
    /\ st[r] = "idle"
    /\ Cardinality(Pending) < PoolSize
    /\ Become(r, "pending")

Refuse(r) ==
    /\ st[r] = "idle"
    /\ Become(r, "failed")

Answer(r) ==
    /\ st[r] = "pending"
    /\ Become(r, "answered")

Fail(r) ==
    /\ st[r] = "pending"
    /\ Become(r, "failed")

Next == \E r \in Req : Issue(r) \/ Refuse(r) \/ Answer(r) \/ Fail(r)

Spec == Init /\ [][Next]_st

(* A request that was accepted is called back in the end: "care is taken   *)
(* to ensure that callers can depend on eventually getting a callback"     *)
(* (cs_context.h:62).                                                      *)
CalledBack == \A r \in Req : (st[r] = "pending") ~> (st[r] \in {"answered", "failed"})
=============================================================================
