------------------------------ MODULE CsContext ------------------------------
(***************************************************************************)
(* The generic request context of the fabric manager: a pool of entries    *)
(* that carries single-packet requests over an unreliable network, resends *)
(* them and reports each one through a callback.                           *)
(*     Esm/ib/src/cs/cs_context.c, Esm/ib/include/cs_context.h             *)
(*                                                                         *)
(* Three users of it are modelled, as records of Configs:                  *)
(*   "SM"     the LFT/MFT dispatcher (sm_utility.c, sm_topology_rcv.c);    *)
(*            a first send that fails is left to the ageing                *)
(*   "NOTICE" forwarded traps (sa_Trap.c, sm_async.c): plain retries, no   *)
(*            callback function                                            *)
(*   "PM"     the PMA dispatcher (pm_dispatch.c): a callback retires its   *)
(*            own entry and issues the next packets on the spot; a send    *)
(*            that fails is reported to the sender, which retires it       *)
(*                                                                         *)
(* Every entry point runs under cntx->lock.  The only critical section     *)
(* with a structure of its own is the one of the receive thread, which     *)
(* walks the hash chains (cs_cntxt_age) and runs callbacks inside it; the  *)
(* lock is free exactly when rcv.pc = "recv".                              *)
(*                                                                         *)
(* Left out: cs_cntxt_get_wait, the response queue and                     *)
(* cs_entxt_reuse_nolock, which no code calls.                             *)
(***************************************************************************)
EXTENDS Integers, FiniteSets

CONSTANTS Entry,     \* the pool of entries
          Req,       \* the requests; a request stands for its transaction id
          None,      \* no request / no entry
          lidOf,     \* destination lid of each request
          hashTableDepth,
          Configs    \* the users of the context (see above)

ASSUME CsAssumption ==
    /\ IsFiniteSet(Entry)
    /\ None \notin Entry \cup Req
    /\ lidOf \in [Req -> Nat]
    /\ hashTableDepth \in Nat \ {0}
    /\ Configs \subseteq
         [user : {"SM", "NOTICE", "PM"}, errorOnSendFail : BOOLEAN,
          MinRespTimeout : Nat, totalTimeout : Nat \ {0},
          defaultTimeout : Nat, maxRetries : Nat]
    /\ \A k \in Configs : k.MinRespTimeout # 0 => k.defaultTimeout = k.MinRespTimeout

VARIABLES cntx,       \* the configuration of the context
          free,       \* entries on free_list
          numFree, numAlloc,
          hash,       \* bucket -> entries on its chain
          ent,        \* the fields of each entry
          wire,       \* answers still to come from the network, per request
          done,       \* what the callback of each request reported
          rcv         \* the receive thread: what it does with the lock held

vars == <<cntx, free, numFree, numAlloc, hash, ent, wire, done, rcv>>

Bucket == 0 .. hashTableDepth - 1

\* lid % hashTableDepth, or the only chain there is.
BucketOf(r) == IF hashTableDepth > 1 THEN lidOf[r] % hashTableDepth ELSE 0

Outcome == {"none", "answered", "failed", "wrong", "twice"}

\* The time since tstamp: below RespTimeout, at least RespTimeout, or negative:
\* the entry was stamped after the running cs_cntxt_age read the clock.  How
\* much longer timeoutAdder makes it (sendFailed) is left open.
Clock == {"fresh", "due", "ahead"}

\* state stands for the flags alloced, hashed and releasing.
EntryType == [req : Req \cup {None}, state : {"free", "hashed", "releasing"},
              retries : Nat, RespTimeout : Nat, cumulative_timeout : Nat,
              clock : Clock]

\* An entry after the memset of cs_cntxt_retire_nolock.
Cleared == [req |-> None, state |-> "free", retries |-> 0, RespTimeout |-> 0,
            cumulative_timeout |-> 0, clock |-> "fresh"]

\* An entry on a chain: sent n times for r, waiting for timeout after it has
\* waited for spent in all.
OnChain(r, n, timeout, spent, clock) ==
    [req |-> r, state |-> "hashed", retries |-> n, RespTimeout |-> timeout,
     cumulative_timeout |-> spent, clock |-> clock]

Receiving == [pc |-> "recv", self |-> None, back |-> "recv", bucket |-> 0, rest |-> {}]

Init ==
    /\ cntx \in Configs
    /\ free = Entry
    /\ numFree = Cardinality(Entry)
    /\ numAlloc = 0
    /\ hash = [b \in Bucket |-> {}]
    /\ ent = [e \in Entry |-> Cleared]
    /\ wire = [r \in Req |-> 0]
    /\ done = [r \in Req |-> "none"]
    /\ rcv = Receiving

\* The caller issues a request once.
Unissued(r) == done[r] = "none" /\ \A e \in Entry : ent[e].req # r

\* The callback of r runs with outcome o.
Reported(r, o) == [done EXCEPT ![r] = IF @ = "none" THEN o ELSE "twice"]

-----------------------------------------------------------------------------
(* Issuing a request: cs_cntxt_get_nolock, cntxt_reserve and               *)
(* cs_cntxt_send_mad_nolock, as each user calls them.                      *)

\* cntxt_reserve stamps the entry with the current time, which is later than
\* the time a running cs_cntxt_age works with.
Stamps == IF rcv.back = "age" THEN {"fresh", "ahead"} ELSE {"fresh"}

Accept(r, e, ok, stamp) ==
    /\ e \in free
    /\ free' = free \ {e}
    /\ numFree' = numFree - 1
    /\ numAlloc' = numAlloc + 1
    /\ ent' = [ent EXCEPT ![e] = OnChain(r, 1, cntx.defaultTimeout, 0, stamp)]
    /\ hash' = [hash EXCEPT ![BucketOf(r)] = @ \cup {e}]
    /\ wire' = IF ok THEN [wire EXCEPT ![r] = @ + 1] ELSE wire
    /\ done' = done

\* No free entry, or the first send of a "PM" request fails and the sender
\* retires the entry again (PmFailPacketQuery and its siblings).
Refuse(r, ok) ==
    /\ free = {} \/ (cntx.user = "PM" /\ ~ok)
    /\ done' = Reported(r, "failed")
    /\ UNCHANGED <<free, numFree, numAlloc, ent, hash, wire>>

Issue(r) ==
    /\ Unissued(r)
    /\ \E ok \in BOOLEAN :
         \/ /\ cntx.user = "PM" => ok
            /\ \E e \in Entry, stamp \in Stamps : Accept(r, e, ok, stamp)
         \/ Refuse(r, ok)

\* A thread that takes the lock to issue a request.
UserIssue(r) ==
    /\ rcv.pc = "recv"
    /\ Issue(r)
    /\ UNCHANGED <<cntx, rcv>>

\* A "PM" callback issues the next packet, with the lock held.
CallbackIssue(r) ==
    /\ rcv.pc = "callback"
    /\ cntx.user = "PM"
    /\ Issue(r)
    /\ UNCHANGED <<cntx, rcv>>

-----------------------------------------------------------------------------
(* cntxt_release, in two steps: up to the callback, and after it.          *)

\* Mutant: the walk goes on from the entry it has just released.
ReleaseThenIterate(e, o, back) ==
    /\ hash' = [hash EXCEPT ![BucketOf(ent[e].req)] = @ \ {e}]
    /\ done' = Reported(ent[e].req, o)
    /\ IF cntx.user = "PM"
         THEN /\ ent' = [ent EXCEPT ![e] = Cleared]
              /\ free' = free \cup {e}
              /\ numFree' = numFree + 1
              /\ numAlloc' = numAlloc - 1
         ELSE /\ ent' = [ent EXCEPT ![e].state = "releasing"]
              /\ UNCHANGED <<free, numFree, numAlloc>>
    /\ rcv' = [rcv EXCEPT !.pc = "callback", !.self = e, !.back = back]

\* Mutant: the entry stays on its chain.
ReleaseHashed(e, o, back) ==
    /\ done' = Reported(ent[e].req, o)
    /\ IF cntx.user = "PM"
         THEN /\ ent' = [ent EXCEPT ![e] = Cleared]
              /\ free' = free \cup {e}
              /\ numFree' = numFree + 1
              /\ numAlloc' = numAlloc - 1
         ELSE /\ ent' = [ent EXCEPT ![e].state = "releasing"]
              /\ UNCHANGED <<free, numFree, numAlloc>>
    /\ rcv' = [rcv EXCEPT !.pc = "callback", !.self = e, !.back = back,
                          !.rest = @ \ {e}]
    /\ UNCHANGED hash

\* The entry leaves its chain and the callback runs; a "PM" callback starts
\* with cs_cntxt_retire_nolock.
Release(e, o, back) ==
    /\ hash' = [hash EXCEPT ![BucketOf(ent[e].req)] = @ \ {e}]
    /\ done' = Reported(ent[e].req, o)
    /\ IF cntx.user = "PM"
         THEN /\ ent' = [ent EXCEPT ![e] = Cleared]
              /\ free' = free \cup {e}
              /\ numFree' = numFree + 1
              /\ numAlloc' = numAlloc - 1
         ELSE /\ ent' = [ent EXCEPT ![e].state = "releasing"]
              /\ UNCHANGED <<free, numFree, numAlloc>>
    /\ rcv' = [rcv EXCEPT !.pc = "callback", !.self = e, !.back = back,
                          !.rest = @ \ {e}]

\* Mutant: the entry is retired whatever the callback did with it.
CallbackReturnRetires ==
    /\ rcv.pc = "callback"
    /\ ent' = [ent EXCEPT ![rcv.self] = Cleared]
    /\ free' = free \cup {rcv.self}
    /\ numFree' = numFree + 1
    /\ numAlloc' = numAlloc - 1
    /\ rcv' = [rcv EXCEPT !.pc = rcv.back, !.self = None]
    /\ UNCHANGED <<cntx, hash, wire, done>>

\* The callback returned: the entry is retired unless the callback already did.
CallbackReturn ==
    /\ rcv.pc = "callback"
    /\ IF ent[rcv.self].state = "releasing"
         THEN /\ ent' = [ent EXCEPT ![rcv.self] = Cleared]
              /\ free' = free \cup {rcv.self}
              /\ numFree' = numFree + 1
              /\ numAlloc' = numAlloc - 1
         ELSE UNCHANGED <<ent, free, numFree, numAlloc>>
    /\ rcv' = [rcv EXCEPT !.pc = rcv.back, !.self = None]
    /\ UNCHANGED <<cntx, hash, wire, done>>

-----------------------------------------------------------------------------
(* cs_cntxt_timeout_entry, and what its two callers do with its status.    *)

Stepped == cntx.MinRespTimeout # 0

Spent(e) == ent[e].cumulative_timeout + ent[e].RespTimeout

Retries(e) == IF Stepped THEN Spent(e) < cntx.totalTimeout
                         ELSE ent[e].retries < cntx.maxRetries

\* GET_RANDOM((timeout + timeout/5), (timeout - timeout/5))
Random(timeout) == timeout - (timeout \div 5) .. timeout + (timeout \div 5) - 1

\* Mutant: the timeout is not cut to what is left.
CappedNever(spent, timeout) == timeout

\* The next response timeout, kept within what is left of totalTimeout but
\* never below MinRespTimeout.
Capped(spent, timeout) ==
    IF spent < cntx.totalTimeout /\ spent + timeout > cntx.totalTimeout
      THEN IF cntx.totalTimeout - spent < cntx.MinRespTimeout
             THEN cntx.MinRespTimeout
             ELSE cntx.totalTimeout - spent
      ELSE timeout

NextTimeouts(e) ==
    IF Stepped
      THEN {Capped(Spent(e), t) : t \in Random((ent[e].retries + 1) * cntx.MinRespTimeout)}
      ELSE {ent[e].RespTimeout}

\* The entry is sent again; if that fails too, it waits for the next timeout.
\* w is what the network still holds when the entry is sent.
Resend(e, ok, w) ==
    /\ Retries(e)
    /\ ~ok => ~cntx.errorOnSendFail
    /\ \E t \in NextTimeouts(e) :
         ent' = [ent EXCEPT ![e] = OnChain(ent[e].req, ent[e].retries + 1, t,
                   IF Stepped THEN Spent(e) ELSE ent[e].cumulative_timeout, "fresh")]
    /\ wire' = IF ok THEN [w EXCEPT ![ent[e].req] = @ + 1] ELSE w
    /\ UNCHANGED <<free, numFree, numAlloc, hash, done>>

\* VSTATUS_TIMEOUT, or a resend that failed and errorOnSendFail.
GiveUp(e, back, w) ==
    /\ ~Retries(e) \/ cntx.errorOnSendFail
    /\ Release(e, "failed", back)
    /\ wire' = w

-----------------------------------------------------------------------------
(* The receive thread.                                                     *)

\* Mutant: the transaction id is not compared.
MatchesLid(m) == {e \in hash[BucketOf(m)] : lidOf[ent[e].req] = lidOf[m]}

\* cntxt_find: the entry on the chain of the lid with this lid and tid.
Matches(m) == {e \in hash[BucketOf(m)] : lidOf[ent[e].req] = lidOf[m] /\ ent[e].req = m}

Arrives(m) ==
    /\ rcv.pc = "recv"
    /\ wire[m] > 0

Consumed(m) == [wire EXCEPT ![m] = @ - 1]

\* An answer to m: cs_cntxt_find_release.
FindRelease(m) ==
    /\ Arrives(m)
    /\ wire' = Consumed(m)
    /\ \/ /\ Matches(m) = {}
          /\ UNCHANGED <<free, numFree, numAlloc, hash, ent, done, rcv>>
       \/ \E e \in Matches(m) :
            Release(e, IF ent[e].req = m THEN "answered" ELSE "wrong", "recv")
    /\ UNCHANGED cntx

\* The stack returns the request m unsent or unanswered (MAI_TYPE_ERROR):
\* cs_cntxt_find_release_error.
FindReleaseError(m) ==
    /\ Arrives(m)
    /\ \/ /\ Matches(m) = {}
          /\ wire' = Consumed(m)
          /\ UNCHANGED <<free, numFree, numAlloc, hash, ent, done, rcv>>
       \/ \E e \in Matches(m), ok \in BOOLEAN :
            /\ Resend(e, ok, Consumed(m))
            /\ UNCHANGED rcv
       \/ \E e \in Matches(m) : GiveUp(e, "recv", Consumed(m))
    /\ UNCHANGED cntx

\* Mutant: the first chain is not walked.
AgeBeginAtOne ==
    /\ rcv.pc = "recv"
    /\ rcv' = [rcv EXCEPT !.pc = "age", !.back = "age", !.bucket = 1, !.rest = hash[1]]
    /\ UNCHANGED <<cntx, free, numFree, numAlloc, hash, ent, wire, done>>

\* cs_cntxt_age takes the lock and reads the clock.
AgeBegin ==
    /\ rcv.pc = "recv"
    /\ rcv' = [rcv EXCEPT !.pc = "age", !.back = "age", !.bucket = 0, !.rest = hash[0]]
    /\ UNCHANGED <<cntx, free, numFree, numAlloc, hash, ent, wire, done>>

\* timenow - tstamp >= RespTimeout + timeoutAdder, in unsigned arithmetic: a
\* stamp after timenow wraps around to a very long time.
Expired(e) == ent[e].clock \in {"due", "ahead"}

AgeEntry(e) ==
    /\ rcv.pc = "age"
    /\ e \in rcv.rest
    /\ \/ /\ ~Expired(e)
          /\ rcv' = [rcv EXCEPT !.rest = @ \ {e}]
          /\ UNCHANGED <<free, numFree, numAlloc, hash, ent, wire, done>>
       \/ /\ Expired(e)
          /\ \E ok \in BOOLEAN : Resend(e, ok, wire)
          /\ rcv' = [rcv EXCEPT !.rest = @ \ {e}]
       \/ /\ Expired(e)
          /\ GiveUp(e, "age", wire)
    /\ UNCHANGED cntx

\* The next chain.
AgeBucket ==
    /\ rcv.pc = "age"
    /\ rcv.rest = {}
    /\ rcv.bucket < hashTableDepth - 1
    /\ rcv' = [rcv EXCEPT !.bucket = @ + 1, !.rest = hash[rcv.bucket + 1]]
    /\ UNCHANGED <<cntx, free, numFree, numAlloc, hash, ent, wire, done>>

\* The walk is over and the lock released; stamps taken during it are past now.
AgeEnd ==
    /\ rcv.pc = "age"
    /\ rcv.rest = {}
    /\ rcv.bucket = hashTableDepth - 1
    /\ rcv' = Receiving
    /\ ent' = [e \in Entry |-> IF ent[e].clock = "ahead"
                                 THEN [ent[e] EXCEPT !.clock = "fresh"]
                                 ELSE ent[e]]
    /\ UNCHANGED <<cntx, free, numFree, numAlloc, hash, wire, done>>

\* Time passes: the response timeout of an entry elapses.  A walk works with
\* the time of its beginning.
TimePasses(e) ==
    /\ rcv.pc = "recv"
    /\ ent[e].state = "hashed"
    /\ ent[e].clock = "fresh"
    /\ ent' = [ent EXCEPT ![e].clock = "due"]
    /\ UNCHANGED <<cntx, free, numFree, numAlloc, hash, wire, done, rcv>>

Age == AgeBegin \/ AgeBucket \/ AgeEnd \/ \E e \in Entry : AgeEntry(e)

Next ==
    \/ \E r \in Req : \/ UserIssue(r) \/ CallbackIssue(r)
                      \/ FindRelease(r) \/ FindReleaseError(r)
    \/ CallbackReturn
    \/ Age
    \/ \E e \in Entry : TimePasses(e)

Spec == Init /\ [][Next]_vars

\* The receive loop polls and ages for ever.  Time passes whoever holds the
\* lock; it is only noted between walks, hence the strong fairness.  Nothing is
\* assumed about answers, or about who issues requests.
Fairness ==
    /\ WF_vars(Age)
    /\ WF_vars(CallbackReturn)
    /\ \A e \in Entry : SF_vars(TimePasses(e))

LiveSpec == Spec /\ Fairness

-----------------------------------------------------------------------------
TypeOK ==
    /\ cntx \in Configs
    /\ free \subseteq Entry
    /\ numFree \in Nat /\ numAlloc \in Nat
    /\ hash \in [Bucket -> SUBSET Entry]
    /\ ent \in [Entry -> EntryType]
    /\ wire \in [Req -> Nat]
    /\ done \in [Req -> Outcome]
    /\ rcv \in [pc : {"recv", "age", "callback"}, self : Entry \cup {None},
                back : {"recv", "age"}, bucket : Bucket, rest : SUBSET Entry]

(* Every entry is in one place: on the free list, on the chain of its      *)
(* destination, or held by the one callback that runs; the counters agree, *)
(* and no two entries carry the same request (cntxt_reserve,               *)
(* cs_cntxt_retire_nolock, cs_cntxt_get_nolock).                           *)
PoolSound ==
    /\ numFree = Cardinality(free)
    /\ numAlloc = Cardinality(Entry \ free)
    /\ \A e \in Entry :
         /\ e \in free <=> ent[e].state = "free"
         /\ \A b \in Bucket : e \in hash[b] <=>
              ent[e].state = "hashed" /\ b = BucketOf(ent[e].req)
         /\ ent[e].state = "releasing" => rcv.pc = "callback" /\ rcv.self = e
    /\ \A e1, e2 \in Entry :
         ent[e1].req = ent[e2].req /\ ent[e1].req # None => e1 = e2

(* The ageing never follows a pointer off its chain: what it has still to  *)
(* visit ("Iterate before the pointers are destroyed", cs_context.c:568)   *)
(* is hashed in the bucket it walks, whatever the callbacks it ran did.    *)
AgeWalk == rcv.back = "age" => rcv.rest \subseteq hash[rcv.bucket]

(* With stepped retries the time spent on a request exceeds totalTimeout   *)
(* by less than MinRespTimeout; with plain retries a request is sent at    *)
(* most maxRetries times (cs_cntxt_timeout_entry).                         *)
RetryBudget ==
    \A e \in Entry : ent[e].state = "hashed" =>
        IF Stepped THEN Spent(e) < cntx.totalTimeout + cntx.MinRespTimeout
                   ELSE ent[e].retries =< cntx.maxRetries \/ ent[e].retries = 1

-----------------------------------------------------------------------------
\* What a caller sees of each request.
Seen == [r \in Req |->
           IF done[r] # "none" THEN done[r]
           ELSE IF \E e \in Entry : ent[e].req = r THEN "pending"
           ELSE "idle"]

Requests == INSTANCE CsRequest WITH st <- Seen, PoolSize <- Cardinality(Entry)

(* The context implements its interface: a request that was accepted gets  *)
(* one callback, with its own answer or a failure, never two and never     *)
(* none, and no more than poolSize are outstanding (cs_context.h:61-67).   *)
ImplementsRequests == Requests!Spec

(* Every accepted request is called back in the end, whatever the network  *)
(* and the sends do (cs_context.h:62).                                     *)
CalledBack == Requests!CalledBack
=============================================================================
