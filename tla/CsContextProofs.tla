--------------------------- MODULE CsContextProofs ---------------------------
(***************************************************************************)
(* Proofs, for any pool, any requests, any hash table and any users of the *)
(* context, that the pool is kept sound, that the ageing stays on its      *)
(* chain, that the retries stay within their budget, and that the context  *)
(* implements the interface CsRequest.                                     *)
(***************************************************************************)
EXTENDS CsContext, FiniteSetTheorems, TLAPS

\* The life of an entry: free and blank, hashed for a request nobody has
\* reported yet, or held by the callback that has just reported it.
Life ==
    /\ \A e \in Entry :
         /\ ent[e].state = "free" <=> ent[e].req = None
         /\ ent[e].state = "hashed" => done[ent[e].req] = "none"
         /\ ent[e].state = "releasing" => done[ent[e].req] # "none"
    /\ \A r \in Req : done[r] \in {"none", "answered", "failed"}
    /\ rcv.pc = "callback" => rcv.self \in Entry
    /\ rcv.pc = "recv" => rcv.back = "recv"
    /\ rcv.pc = "age" => rcv.back = "age"

IInv == TypeOK /\ PoolSound /\ AgeWalk /\ RetryBudget /\ Life

-----------------------------------------------------------------------------
\* A destination belongs to one of the chains.
LEMMA BucketType == \A r \in Req : BucketOf(r) \in Bucket
<1> USE CsAssumption
<1>1. \A r \in Req : lidOf[r] \in Nat
  OBVIOUS
<1>2. \A n \in Nat : n % hashTableDepth \in 0 .. hashTableDepth - 1
  OBVIOUS
<1> QED BY <1>1, <1>2 DEF BucketOf, Bucket

\* The types of the entry records the operations write.
LEMMA ClearedType == Cleared \in EntryType
BY DEF Cleared, EntryType, Clock

\* A context that cs_cntxt_instance_init has just set up.
LEMMA InitInv == Init => IInv
<1> SUFFICES ASSUME Init PROVE IInv
  OBVIOUS
<1> USE CsAssumption DEF Init
<1>1. Cardinality(Entry) \in Nat /\ Cardinality(Entry \ Entry) = 0
  <2>1. Entry \ Entry = {}
    OBVIOUS
  <2> QED BY <2>1, FS_CardinalityType, FS_EmptySet
<1>2. TypeOK
  <2>1. 0 \in Bucket
    BY DEF Bucket
  <2> QED BY <1>1, <2>1, ClearedType DEF TypeOK, Receiving, Outcome
<1>3. PoolSound
  BY <1>1 DEF PoolSound, Cleared
<1>4. AgeWalk
  BY DEF AgeWalk, Receiving
<1>5. RetryBudget
  BY DEF RetryBudget, Cleared
<1>6. Life
  BY DEF Life, Cleared, Receiving
<1> QED BY <1>2, <1>3, <1>4, <1>5, <1>6 DEF IInv

-----------------------------------------------------------------------------
\* Moving one entry between the free list and the rest keeps the counters.
LEMMA TakeCount ==
    ASSUME NEW F \in SUBSET Entry, NEW e \in F
    PROVE  /\ Cardinality(F \ {e}) = Cardinality(F) - 1
           /\ Cardinality(Entry \ (F \ {e})) = Cardinality(Entry \ F) + 1
           /\ Cardinality(F) - 1 \in Nat
           /\ Cardinality(Entry \ F) \in Nat
<1> USE CsAssumption
<1>1. IsFiniteSet(F) /\ IsFiniteSet(Entry \ F)
  BY FS_Subset
<1>2. Entry \ (F \ {e}) = (Entry \ F) \cup {e} /\ e \notin Entry \ F
  OBVIOUS
<1>3. IsFiniteSet(F \ {e}) /\ Cardinality(F \ {e}) = Cardinality(F) - 1
  BY <1>1, FS_RemoveElement
<1>4. Cardinality((Entry \ F) \cup {e}) = Cardinality(Entry \ F) + 1
  BY <1>1, <1>2, FS_AddElement
<1>5. Cardinality(F \ {e}) \in Nat /\ Cardinality(Entry \ F) \in Nat
  BY <1>1, <1>3, FS_CardinalityType
<1> QED BY <1>2, <1>3, <1>4, <1>5

\* An entry goes back to the free list.
LEMMA ReturnCount ==
    ASSUME NEW F \in SUBSET Entry, NEW e \in Entry \ F
    PROVE  /\ Cardinality(F \cup {e}) = Cardinality(F) + 1
           /\ Cardinality(Entry \ (F \cup {e})) = Cardinality(Entry \ F) - 1
           /\ Cardinality(Entry \ F) - 1 \in Nat
           /\ Cardinality(F) \in Nat
<1> USE CsAssumption
<1>1. IsFiniteSet(F) /\ IsFiniteSet(Entry \ F)
  BY FS_Subset
<1>2. Entry \ (F \cup {e}) = (Entry \ F) \ {e}
  OBVIOUS
<1>3. /\ IsFiniteSet((Entry \ F) \ {e})
      /\ Cardinality((Entry \ F) \ {e}) = Cardinality(Entry \ F) - 1
  BY <1>1, FS_RemoveElement
<1>4. Cardinality(F \cup {e}) = Cardinality(F) + 1
  BY <1>1, FS_AddElement
<1>5. Cardinality((Entry \ F) \ {e}) \in Nat /\ Cardinality(F) \in Nat
  BY <1>1, <1>3, FS_CardinalityType
<1> QED BY <1>2, <1>3, <1>4, <1>5

\* A request accepted by the pool.
LEMMA AcceptInv ==
    ASSUME IInv, NEW r \in Req, NEW e \in Entry, NEW ok \in BOOLEAN, NEW stamp \in Clock,
           Unissued(r), Accept(r, e, ok, stamp), UNCHANGED <<cntx, rcv>>
    PROVE  IInv'
<1> USE CsAssumption, BucketType DEF IInv
<1> DEFINE x == OnChain(r, 1, cntx.defaultTimeout, 0, stamp)
<1>1. /\ x.req = r /\ x.state = "hashed" /\ x.retries = 1 /\ x.cumulative_timeout = 0
      /\ x.RespTimeout = cntx.defaultTimeout /\ x.clock = stamp /\ x \in EntryType
  BY DEF OnChain, EntryType, TypeOK
<1>2. ent' = [ent EXCEPT ![e] = x]
  BY DEF Accept
<1> HIDE DEF x
<1>3. e \in free /\ ent[e].state = "free" /\ ent[e].req = None
  BY DEF Accept, PoolSound, Life
<1>4. ent'[e] = x /\ \A f \in Entry \ {e} : ent'[f] = ent[f]
  BY <1>2 DEF TypeOK
<1>5. TypeOK'
  <2>1. numFree' \in Nat /\ numAlloc' \in Nat
    <3>1. numFree' = Cardinality(free) - 1 /\ numAlloc' = numAlloc + 1 /\ numAlloc \in Nat
      BY DEF Accept, PoolSound, TypeOK
    <3>2. Cardinality(free) - 1 \in Nat
      BY <1>3, TakeCount DEF TypeOK
    <3> QED BY <3>1, <3>2
  <2>2. ent' \in [Entry -> EntryType]
    BY <1>1, <1>2 DEF TypeOK
  <2>3. wire' \in [Req -> Nat]
    BY DEF Accept, TypeOK
  <2> QED BY <2>1, <2>2, <2>3 DEF TypeOK, Accept
<1>6. PoolSound'
  <2>1. numFree' = Cardinality(free') /\ numAlloc' = Cardinality(Entry \ free')
    BY <1>3, TakeCount DEF Accept, PoolSound, TypeOK
  <2>2. \A f \in Entry : /\ f \in free' <=> ent'[f].state = "free"
                         /\ ent'[f].state = "releasing" => rcv'.pc = "callback" /\ rcv'.self = f
    BY <1>1, <1>3, <1>4 DEF Accept, PoolSound, TypeOK
  <2>3. \A f \in Entry, b \in Bucket :
          f \in hash'[b] <=> ent'[f].state = "hashed" /\ b = BucketOf(ent'[f].req)
    BY <1>1, <1>3, <1>4 DEF Accept, PoolSound, TypeOK
  <2>4. \A e1, e2 \in Entry : ent'[e1].req = ent'[e2].req /\ ent'[e1].req # None => e1 = e2
    BY <1>1, <1>4 DEF PoolSound, Unissued
  <2> QED BY <2>1, <2>2, <2>3, <2>4 DEF PoolSound
<1>7. AgeWalk'
  BY DEF AgeWalk, Accept, TypeOK
<1>8. RetryBudget'
  BY <1>1, <1>4 DEF RetryBudget, Spent, Stepped, TypeOK
<1>9. Life'
  BY <1>1, <1>4 DEF Life, Accept, Unissued
<1> QED BY <1>5, <1>6, <1>7, <1>8, <1>9

\* A request refused.
LEMMA RefuseInv ==
    ASSUME IInv, NEW r \in Req, NEW ok \in BOOLEAN,
           Unissued(r), Refuse(r, ok), UNCHANGED <<cntx, rcv>>
    PROVE  IInv'
<1> USE CsAssumption DEF IInv
<1>1. done' = [done EXCEPT ![r] = "failed"] /\ UNCHANGED <<free, numFree, numAlloc, ent, hash, wire>>
  BY DEF Refuse, Reported, Unissued, TypeOK
<1>2. TypeOK'
  BY <1>1 DEF TypeOK, Outcome
<1>3. PoolSound' /\ AgeWalk' /\ RetryBudget'
  BY <1>1 DEF PoolSound, AgeWalk, RetryBudget, Spent, Stepped
<1>4. Life'
  BY <1>1 DEF Life, Unissued, TypeOK
<1> QED BY <1>2, <1>3, <1>4

\* cntxt_release up to the end of the first part of the callback.
LEMMA ReleaseInv ==
    ASSUME IInv, NEW e \in Entry, NEW o \in {"answered", "failed"}, NEW back \in {"recv", "age"},
           ent[e].state = "hashed", rcv.pc \in {"recv", "age"}, back = rcv.pc,
           Release(e, o, back), wire' \in [Req -> Nat], UNCHANGED cntx
    PROVE  IInv'
<1> USE CsAssumption, BucketType DEF IInv
<1> DEFINE r == ent[e].req
<1>1. r \in Req /\ done[r] = "none" /\ e \notin free /\ e \in Entry \ free
  BY DEF Life, PoolSound, TypeOK, EntryType
<1>2. done' = [done EXCEPT ![r] = o]
  BY <1>1 DEF Release, Reported, TypeOK
<1>3. /\ rcv'.pc = "callback" /\ rcv'.self = e /\ rcv'.back = back
      /\ rcv'.bucket = rcv.bucket /\ rcv'.rest = rcv.rest \ {e}
      /\ rcv' \in [pc : {"recv", "age", "callback"}, self : Entry \cup {None},
                   back : {"recv", "age"}, bucket : Bucket, rest : SUBSET Entry]
  BY DEF Release, TypeOK
<1>4. hash' = [hash EXCEPT ![BucketOf(r)] = hash[BucketOf(r)] \ {e}]
  BY DEF Release
<1>5. \A f \in Entry \ {e} : ent'[f] = ent[f]
  BY DEF Release, TypeOK
<1>6. AgeWalk'
  BY <1>1, <1>3, <1>4 DEF AgeWalk, TypeOK, Life
<1>7. \A f \in Entry \ {e}, b \in Bucket : f \in hash'[b] <=> f \in hash[b]
  BY <1>1, <1>4 DEF TypeOK
<1>8. \A b \in Bucket : e \notin hash'[b]
  BY <1>1, <1>4 DEF TypeOK, PoolSound
<1>9. hash' \in [Bucket -> SUBSET Entry] /\ done' \in [Req -> Outcome]
  BY <1>1, <1>2, <1>4 DEF TypeOK, Outcome
<1>10. \A f \in Entry : ent[f].state # "releasing"
  BY DEF PoolSound
<1>11. CASE cntx.user = "PM"
  <2>1. ent' = [ent EXCEPT ![e] = Cleared] /\ free' = free \cup {e}
        /\ numFree' = numFree + 1 /\ numAlloc' = numAlloc - 1
    BY <1>11 DEF Release
  <2>2. ent'[e].state = "free" /\ ent'[e].req = None /\ ent' \in [Entry -> EntryType]
    BY <2>1, ClearedType DEF TypeOK, Cleared
  <2>3. /\ numFree' = Cardinality(free') /\ numAlloc' = Cardinality(Entry \ free')
        /\ numFree' \in Nat /\ numAlloc' \in Nat
    <3>1. numFree = Cardinality(free) /\ numAlloc = Cardinality(Entry \ free) /\ numFree \in Nat
      BY DEF PoolSound, TypeOK
    <3>2. /\ Cardinality(free \cup {e}) = Cardinality(free) + 1
          /\ Cardinality(Entry \ (free \cup {e})) = Cardinality(Entry \ free) - 1
          /\ Cardinality(Entry \ free) - 1 \in Nat
      BY <1>1, ReturnCount DEF TypeOK
    <3> QED BY <2>1, <3>1, <3>2
  <2>4. TypeOK'
    BY <1>3, <1>9, <2>1, <2>2, <2>3 DEF TypeOK
  <2>5. PoolSound'
    BY <1>5, <1>7, <1>8, <1>10, <2>1, <2>2, <2>3 DEF PoolSound
  <2>6. RetryBudget'
    BY <1>5, <2>2 DEF RetryBudget, Spent, Stepped
  <2>7. Life'
    BY <1>1, <1>2, <1>3, <1>5, <1>10, <2>2 DEF Life, TypeOK, PoolSound
  <2> QED BY <1>6, <2>4, <2>5, <2>6, <2>7
<1>12. CASE cntx.user # "PM"
  <2>1. ent' = [ent EXCEPT ![e].state = "releasing"] /\ UNCHANGED <<free, numFree, numAlloc>>
    BY <1>12 DEF Release
  <2>2. /\ ent'[e].state = "releasing" /\ ent'[e].req = r
        /\ ent' \in [Entry -> EntryType]
    <3> DEFINE x == [ent[e] EXCEPT !.state = "releasing"]
    <3>1. ent[e] \in EntryType
      BY DEF TypeOK
    <3>2. x.state = "releasing" /\ x.req = r /\ x \in EntryType
      BY <3>1 DEF EntryType
    <3>3. ent' = [ent EXCEPT ![e] = x]
      BY <2>1
    <3> HIDE DEF x
    <3> QED BY <3>2, <3>3 DEF TypeOK
  <2>4. TypeOK'
    BY <1>3, <1>9, <2>1, <2>2 DEF TypeOK
  <2>5. PoolSound'
    BY <1>1, <1>3, <1>5, <1>7, <1>8, <1>10, <2>1, <2>2 DEF PoolSound
  <2>6. RetryBudget'
    BY <1>5, <2>2 DEF RetryBudget, Spent, Stepped
  <2>7. Life'
    BY <1>1, <1>2, <1>3, <1>5, <1>10, <2>2 DEF Life, TypeOK, PoolSound
  <2> QED BY <1>6, <2>4, <2>5, <2>6, <2>7
<1> QED BY <1>11, <1>12

\* The response timeouts cs_cntxt_timeout_entry computes are naturals, and
\* stepped ones keep the request within its budget.
LEMMA NextTimeoutsType ==
    ASSUME TypeOK, NEW e \in Entry, Retries(e), NEW t \in NextTimeouts(e)
    PROVE  /\ t \in Nat
           /\ Stepped => Spent(e) + t < cntx.totalTimeout + cntx.MinRespTimeout
<1> USE CsAssumption
<1>1. ent[e] \in EntryType /\ cntx.MinRespTimeout \in Nat /\ cntx.totalTimeout \in Nat
  BY DEF TypeOK
<1>2. ent[e].retries + 1 \in Nat /\ ent[e].RespTimeout \in Nat /\ Spent(e) \in Nat
  BY <1>1 DEF EntryType, Spent
<1>3. CASE ~Stepped
  BY <1>2, <1>3 DEF NextTimeouts
<1>4. CASE Stepped
  <2> DEFINE n == (ent[e].retries + 1) * cntx.MinRespTimeout
  <2>1. n \in Nat
    BY <1>1, <1>2
  <2>2. PICK u \in Random(n) : t = Capped(Spent(e), u)
    BY <1>4 DEF NextTimeouts
  <2> HIDE DEF n
  <2>3. u \in Nat
    BY <2>1, <2>2 DEF Random
  <2>4. Spent(e) < cntx.totalTimeout /\ cntx.MinRespTimeout # 0
    BY <1>4 DEF Retries, Stepped
  <2> QED BY <1>1, <1>2, <2>2, <2>3, <2>4 DEF Capped
<1> QED BY <1>3, <1>4

\* An entry sent again.
LEMMA ResendInv ==
    ASSUME IInv, NEW e \in Entry, NEW ok \in BOOLEAN, NEW w \in [Req -> Nat],
           ent[e].state = "hashed", Resend(e, ok, w), UNCHANGED cntx,
           \/ UNCHANGED rcv
           \/ rcv' = [rcv EXCEPT !.rest = @ \ {e}]
    PROVE  IInv'
<1> USE CsAssumption DEF IInv
<1>1. PICK t \in NextTimeouts(e) :
         ent' = [ent EXCEPT ![e] = OnChain(ent[e].req, ent[e].retries + 1, t,
                   IF Stepped THEN Spent(e) ELSE ent[e].cumulative_timeout, "fresh")]
  BY DEF Resend
<1> DEFINE spent == IF Stepped THEN Spent(e) ELSE ent[e].cumulative_timeout
           x == OnChain(ent[e].req, ent[e].retries + 1, t, spent, "fresh")
<1>2. t \in Nat /\ (Stepped => Spent(e) + t < cntx.totalTimeout + cntx.MinRespTimeout)
  BY NextTimeoutsType DEF Resend
<1>3. ent[e] \in EntryType
  BY DEF TypeOK
<1>4. spent \in Nat
  BY <1>3 DEF EntryType, Spent
<1> HIDE DEF spent
<1>5. /\ x.req = ent[e].req /\ x.state = "hashed" /\ x.retries = ent[e].retries + 1
      /\ x.RespTimeout = t /\ x.cumulative_timeout = spent
      /\ x \in EntryType
  BY <1>2, <1>3, <1>4 DEF OnChain, EntryType, Clock
<1>6. ent' = [ent EXCEPT ![e] = x]
  BY <1>1 DEF spent
<1> HIDE DEF x
<1>7. ent'[e] = x /\ \A f \in Entry \ {e} : ent'[f] = ent[f]
  BY <1>6 DEF TypeOK
<1>8. \A f \in Entry : ent'[f].req = ent[f].req /\ ent'[f].state = ent[f].state
  BY <1>5, <1>7
<1>9. UNCHANGED <<free, numFree, numAlloc, hash, done>>
  BY DEF Resend
<1>10. /\ rcv'.pc = rcv.pc /\ rcv'.self = rcv.self /\ rcv'.back = rcv.back
       /\ rcv'.bucket = rcv.bucket /\ rcv'.rest \subseteq rcv.rest
       /\ rcv' \in [pc : {"recv", "age", "callback"}, self : Entry \cup {None},
                    back : {"recv", "age"}, bucket : Bucket, rest : SUBSET Entry]
  BY DEF TypeOK
<1>11. ent' \in [Entry -> EntryType]
  BY <1>5, <1>6 DEF TypeOK
<1>12. wire' \in [Req -> Nat]
  <2>1. ent[e].req \in Req
    BY <1>3 DEF EntryType, Life
  <2>2. [w EXCEPT ![ent[e].req] = @ + 1] \in [Req -> Nat]
    BY <2>1
  <2> QED BY <2>2 DEF Resend
<1>13. TypeOK'
  BY <1>9, <1>10, <1>11, <1>12 DEF TypeOK
<1>14. PoolSound' /\ AgeWalk' /\ Life'
  BY <1>8, <1>9, <1>10 DEF PoolSound, AgeWalk, Life
<1>15. RetryBudget'
  <2>1. CASE Stepped
    <3>1. x.cumulative_timeout + x.RespTimeout < cntx.totalTimeout + cntx.MinRespTimeout
      BY <1>2, <1>5, <2>1 DEF spent
    <3> QED BY <1>7, <2>1, <3>1 DEF RetryBudget, Spent, Stepped
  <2>2. CASE ~Stepped
    <3>1. x.retries =< cntx.maxRetries
      BY <1>3, <1>5, <2>2 DEF Resend, Retries, EntryType, TypeOK
    <3> QED BY <1>7, <2>2, <3>1 DEF RetryBudget, Spent, Stepped
  <2> QED BY <2>1, <2>2
<1> QED BY <1>13, <1>14, <1>15

\* cntxt_release after the callback.
LEMMA CallbackReturnInv ==
    ASSUME IInv, CallbackReturn PROVE IInv'
<1> USE CsAssumption DEF IInv
<1> DEFINE e == rcv.self
<1>1. e \in Entry /\ UNCHANGED <<cntx, hash, wire, done>>
  BY DEF CallbackReturn, Life
<1>2. /\ rcv'.pc = rcv.back /\ rcv'.self = None /\ rcv'.back = rcv.back
      /\ rcv'.bucket = rcv.bucket /\ rcv'.rest = rcv.rest
      /\ rcv' \in [pc : {"recv", "age", "callback"}, self : Entry \cup {None},
                   back : {"recv", "age"}, bucket : Bucket, rest : SUBSET Entry]
  BY DEF CallbackReturn, TypeOK
<1>3. AgeWalk'
  BY <1>1, <1>2 DEF AgeWalk
<1>4. CASE ent[e].state = "releasing"
  <2>1. ent' = [ent EXCEPT ![e] = Cleared] /\ free' = free \cup {e}
        /\ numFree' = numFree + 1 /\ numAlloc' = numAlloc - 1
    BY <1>4 DEF CallbackReturn
  <2>2. ent'[e].state = "free" /\ ent'[e].req = None /\ ent' \in [Entry -> EntryType]
    BY <1>1, <2>1, ClearedType DEF TypeOK, Cleared
  <2>3. \A f \in Entry \ {e} : ent'[f] = ent[f] /\ ent[f].state # "releasing"
    BY <2>1 DEF TypeOK, PoolSound
  <2>4. e \in Entry \ free
    BY <1>1, <1>4 DEF PoolSound
  <2>5. /\ numFree' = Cardinality(free') /\ numAlloc' = Cardinality(Entry \ free')
        /\ numFree' \in Nat /\ numAlloc' \in Nat
    <3>1. numFree = Cardinality(free) /\ numAlloc = Cardinality(Entry \ free) /\ numFree \in Nat
      BY DEF PoolSound, TypeOK
    <3>2. /\ Cardinality(free \cup {e}) = Cardinality(free) + 1
          /\ Cardinality(Entry \ (free \cup {e})) = Cardinality(Entry \ free) - 1
          /\ Cardinality(Entry \ free) - 1 \in Nat
      BY <2>4, ReturnCount DEF TypeOK
    <3> QED BY <2>1, <3>1, <3>2
  <2>6. TypeOK'
    BY <1>1, <1>2, <2>1, <2>2, <2>5 DEF TypeOK
  <2>7. PoolSound'
    BY <1>1, <1>4, <2>1, <2>2, <2>3, <2>5 DEF PoolSound
  <2>8. RetryBudget' /\ Life'
    BY <1>1, <1>2, <2>2, <2>3 DEF RetryBudget, Spent, Stepped, Life, TypeOK
  <2> QED BY <1>3, <2>6, <2>7, <2>8
<1>5. CASE ent[e].state # "releasing"
  <2>1. UNCHANGED <<ent, free, numFree, numAlloc>>
    BY <1>5 DEF CallbackReturn
  <2>2. TypeOK'
    BY <1>1, <1>2, <2>1 DEF TypeOK
  <2>3. PoolSound'
    BY <1>1, <1>2, <1>5, <2>1 DEF PoolSound
  <2>4. RetryBudget' /\ Life'
    BY <1>1, <1>2, <2>1 DEF RetryBudget, Spent, Stepped, Life, TypeOK
  <2> QED BY <1>3, <2>2, <2>3, <2>4
<1> QED BY <1>4, <1>5

\* Answers and walks find entries that are on a chain.
LEMMA OnAChain ==
    ASSUME IInv
    PROVE  /\ \A m \in Req : \A e \in Matches(m) :
                e \in Entry /\ ent[e].state = "hashed" /\ ent[e].req = m
           /\ rcv.back = "age" =>
                \A e \in rcv.rest : e \in Entry /\ ent[e].state = "hashed"
BY BucketType DEF IInv, TypeOK, PoolSound, AgeWalk, Matches

\* Every step of every user, of the receiver and of the ageing keeps the invariant.
LEMMA NextInv == IInv /\ [Next]_vars => IInv'
<1> SUFFICES ASSUME IInv, [Next]_vars PROVE IInv'
  OBVIOUS
<1> USE CsAssumption
<1>1. ASSUME NEW r \in Req, Issue(r), UNCHANGED <<cntx, rcv>> PROVE IInv'
  <2>1. PICK ok \in BOOLEAN :
          \/ \E e \in Entry, stamp \in Stamps : Accept(r, e, ok, stamp)
          \/ Refuse(r, ok)
    BY <1>1 DEF Issue
  <2>2. Unissued(r) /\ Stamps \subseteq Clock
    BY <1>1 DEF Issue, Stamps, Clock
  <2> QED BY <1>1, <2>1, <2>2, AcceptInv, RefuseInv
<1>2. ASSUME NEW r \in Req, FindRelease(r) PROVE IInv'
  <2>1. wire' \in [Req -> Nat] /\ UNCHANGED cntx /\ rcv.pc = "recv"
    BY <1>2 DEF FindRelease, Arrives, Consumed, IInv, TypeOK
  <2>2. CASE UNCHANGED <<free, numFree, numAlloc, hash, ent, done, rcv>>
    BY <2>1, <2>2 DEF IInv, TypeOK, PoolSound, AgeWalk, RetryBudget, Spent, Stepped, Life
  <2>3. ASSUME NEW e \in Matches(r),
               Release(e, IF ent[e].req = r THEN "answered" ELSE "wrong", "recv")
        PROVE  IInv'
    <3>1. e \in Entry /\ ent[e].state = "hashed" /\ ent[e].req = r
      BY OnAChain
    <3>2. Release(e, "answered", "recv")
      BY <2>3, <3>1
    <3> QED BY <2>1, <3>1, <3>2, ReleaseInv
  <2> QED BY <1>2, <2>2, <2>3 DEF FindRelease
<1>3. ASSUME NEW r \in Req, FindReleaseError(r) PROVE IInv'
  <2>1. Consumed(r) \in [Req -> Nat] /\ UNCHANGED cntx /\ rcv.pc = "recv"
    BY <1>3 DEF FindReleaseError, Arrives, Consumed, IInv, TypeOK
  <2>2. CASE wire' = Consumed(r) /\ UNCHANGED <<free, numFree, numAlloc, hash, ent, done, rcv>>
    BY <2>1, <2>2 DEF IInv, TypeOK, PoolSound, AgeWalk, RetryBudget, Spent, Stepped, Life
  <2>3. ASSUME NEW e \in Matches(r), NEW ok \in BOOLEAN,
               Resend(e, ok, Consumed(r)), UNCHANGED rcv
        PROVE  IInv'
    BY <2>1, <2>3, OnAChain, ResendInv
  <2>4. ASSUME NEW e \in Matches(r), GiveUp(e, "recv", Consumed(r)) PROVE IInv'
    BY <2>1, <2>4, OnAChain, ReleaseInv DEF GiveUp
  <2> QED BY <1>3, <2>2, <2>3, <2>4 DEF FindReleaseError
<1>4. CASE CallbackReturn
  BY <1>4, CallbackReturnInv
<1>5. CASE AgeBegin
  <2>1. /\ rcv'.pc = "age" /\ rcv'.back = "age" /\ rcv'.bucket = 0 /\ rcv'.rest = hash[0]
        /\ rcv'.self = rcv.self
    BY <1>5 DEF AgeBegin, IInv, TypeOK
  <2>2. 0 \in Bucket /\ hash[0] \in SUBSET Entry
    BY DEF Bucket, IInv, TypeOK
  <2>3. rcv' \in [pc : {"recv", "age", "callback"}, self : Entry \cup {None},
                  back : {"recv", "age"}, bucket : Bucket, rest : SUBSET Entry]
    BY <1>5, <2>2 DEF AgeBegin, IInv, TypeOK
  <2>4. UNCHANGED <<cntx, free, numFree, numAlloc, hash, ent, wire, done>> /\ rcv.pc = "recv"
    BY <1>5 DEF AgeBegin
  <2> QED BY <2>1, <2>3, <2>4 DEF IInv, TypeOK, PoolSound, AgeWalk, RetryBudget, Spent, Stepped, Life
<1>6. CASE AgeBucket
  <2>1. /\ rcv'.pc = rcv.pc /\ rcv'.back = rcv.back /\ rcv'.bucket = rcv.bucket + 1
        /\ rcv'.rest = hash[rcv.bucket + 1] /\ rcv'.self = rcv.self
    BY <1>6 DEF AgeBucket, IInv, TypeOK
  <2>2. rcv.bucket + 1 \in Bucket /\ hash[rcv.bucket + 1] \in SUBSET Entry
    BY <1>6 DEF Bucket, IInv, TypeOK, AgeBucket
  <2>3. rcv' \in [pc : {"recv", "age", "callback"}, self : Entry \cup {None},
                  back : {"recv", "age"}, bucket : Bucket, rest : SUBSET Entry]
    BY <1>6, <2>2 DEF AgeBucket, IInv, TypeOK
  <2>4. UNCHANGED <<cntx, free, numFree, numAlloc, hash, ent, wire, done>> /\ rcv.pc = "age"
    BY <1>6 DEF AgeBucket
  <2> QED BY <2>1, <2>3, <2>4 DEF IInv, TypeOK, PoolSound, AgeWalk, RetryBudget, Spent, Stepped, Life
<1>7. CASE AgeEnd
  <2>1. \A e \in Entry : /\ ent'[e].req = ent[e].req /\ ent'[e].state = ent[e].state
                         /\ ent'[e].retries = ent[e].retries
                         /\ ent'[e].RespTimeout = ent[e].RespTimeout
                         /\ ent'[e].cumulative_timeout = ent[e].cumulative_timeout
                         /\ ent'[e] \in EntryType
    BY <1>7 DEF AgeEnd, IInv, TypeOK, EntryType, Clock
  <2>2. ent' \in [Entry -> EntryType]
    BY <1>7, <2>1 DEF AgeEnd
  <2>3. UNCHANGED <<cntx, free, numFree, numAlloc, hash, wire, done>> /\ rcv.pc = "age" /\ rcv' = Receiving
    BY <1>7 DEF AgeEnd
  <2>4. 0 \in Bucket
    BY DEF Bucket
  <2>5. TypeOK'
    BY <2>2, <2>3, <2>4 DEF IInv, TypeOK, Receiving
  <2>6. PoolSound'
    BY <2>1, <2>3 DEF IInv, PoolSound
  <2>7. AgeWalk'
    BY <2>3 DEF AgeWalk, Receiving
  <2>8. RetryBudget'
    BY <2>1, <2>3 DEF IInv, RetryBudget, Spent, Stepped
  <2>9. Life'
    BY <2>1, <2>3 DEF IInv, Life, Receiving
  <2> QED BY <2>5, <2>6, <2>7, <2>8, <2>9 DEF IInv
<1>8. ASSUME NEW e \in Entry, AgeEntry(e) PROVE IInv'
  <2>1. rcv.pc = "age" /\ UNCHANGED cntx /\ e \in rcv.rest /\ wire \in [Req -> Nat]
    BY <1>8 DEF AgeEntry, IInv, TypeOK
  <2>2. ent[e].state = "hashed"
    BY <2>1, OnAChain DEF IInv, Life
  <2>3. CASE /\ rcv' = [rcv EXCEPT !.rest = @ \ {e}]
             /\ UNCHANGED <<free, numFree, numAlloc, hash, ent, wire, done>>
    <3>1. /\ rcv'.pc = rcv.pc /\ rcv'.back = rcv.back /\ rcv'.bucket = rcv.bucket
          /\ rcv'.rest \subseteq rcv.rest /\ rcv'.self = rcv.self
          /\ rcv' \in [pc : {"recv", "age", "callback"}, self : Entry \cup {None},
                       back : {"recv", "age"}, bucket : Bucket, rest : SUBSET Entry]
      BY <2>3 DEF IInv, TypeOK
    <3> QED BY <2>1, <2>3, <3>1
            DEF IInv, TypeOK, PoolSound, AgeWalk, RetryBudget, Spent, Stepped, Life
  <2>4. ASSUME NEW ok \in BOOLEAN, Resend(e, ok, wire), rcv' = [rcv EXCEPT !.rest = @ \ {e}]
        PROVE  IInv'
    BY <2>1, <2>2, <2>4, ResendInv
  <2>5. CASE GiveUp(e, "age", wire)
    BY <2>1, <2>2, <2>5, ReleaseInv DEF GiveUp
  <2> QED BY <1>8, <2>3, <2>4, <2>5 DEF AgeEntry
<1>9. ASSUME NEW e \in Entry, TimePasses(e) PROVE IInv'
  <2>1. ent[e] \in EntryType
    BY DEF IInv, TypeOK
  <2> DEFINE x == [ent[e] EXCEPT !.clock = "due"]
  <2>2. /\ x.req = ent[e].req /\ x.state = ent[e].state /\ x.retries = ent[e].retries
        /\ x.RespTimeout = ent[e].RespTimeout /\ x.cumulative_timeout = ent[e].cumulative_timeout
        /\ x \in EntryType
    BY <2>1 DEF EntryType, Clock
  <2>3. ent' = [ent EXCEPT ![e] = x] /\ UNCHANGED <<cntx, free, numFree, numAlloc, hash, wire, done, rcv>>
    BY <1>9 DEF TimePasses
  <2> HIDE DEF x
  <2>4. \A f \in Entry : /\ ent'[f].req = ent[f].req /\ ent'[f].state = ent[f].state
                         /\ ent'[f].retries = ent[f].retries
                         /\ ent'[f].RespTimeout = ent[f].RespTimeout
                         /\ ent'[f].cumulative_timeout = ent[f].cumulative_timeout
    BY <2>2, <2>3 DEF IInv, TypeOK
  <2>5. ent' \in [Entry -> EntryType]
    BY <2>2, <2>3 DEF IInv, TypeOK
  <2> QED BY <2>3, <2>4, <2>5 DEF IInv, TypeOK, PoolSound, AgeWalk, RetryBudget, Spent, Stepped, Life
<1>10. CASE UNCHANGED vars
  BY <1>10 DEF vars, IInv, TypeOK, PoolSound, AgeWalk, RetryBudget, Spent, Stepped, Life
<1> QED BY <1>1, <1>2, <1>3, <1>4, <1>5, <1>6, <1>7, <1>8, <1>9, <1>10
        DEF Next, Age, UserIssue, CallbackIssue

(* Type correctness, for every pool, every number of chains and every      *)
(* retry budget.                                                           *)
THEOREM TypeCorrect == Spec => []TypeOK
<1>1. IInv => TypeOK
  BY DEF IInv
<1> QED BY <1>1, InitInv, NextInv, PTL DEF Spec

(* The pool is sound in every reachable state: each entry is in one place, *)
(* the counters agree and no request occupies two entries, whatever the    *)
(* callbacks retire and issue and however answers, errors and timeouts     *)
(* interleave (cs_context.c).                                              *)
THEOREM PoolIsSound == Spec => []PoolSound
<1>1. IInv => PoolSound
  BY DEF IInv
<1> QED BY <1>1, InitInv, NextInv, PTL DEF Spec

(* cs_cntxt_age never leaves the chain it walks.                           *)
THEOREM AgeStaysOnChain == Spec => []AgeWalk
<1>1. IInv => AgeWalk
  BY DEF IInv
<1> QED BY <1>1, InitInv, NextInv, PTL DEF Spec

(* Every request stays within its retry budget (cs_cntxt_timeout_entry).   *)
THEOREM RetriesAreBounded == Spec => []RetryBudget
<1>1. IInv => RetryBudget
  BY DEF IInv
<1> QED BY <1>1, InitInv, NextInv, PTL DEF Spec

-----------------------------------------------------------------------------
(* The refinement.                                                         *)

\* As long as an entry is free, fewer than poolSize requests are pending.
LEMMA PendingBound ==
    ASSUME IInv, NEW e \in free
    PROVE  Cardinality(Requests!Pending) < Cardinality(Entry)
<1> USE CsAssumption
<1> DEFINE P == Requests!Pending
           F == Entry \ {e}
           g == [r \in P |-> CHOOSE x \in Entry : ent[x].req = r]
<1>1. e \in Entry /\ ent[e].req = None
  BY DEF IInv, TypeOK, PoolSound, Life
<1>2. \A r \in P : r \in Req /\ \E x \in Entry : ent[x].req = r
  BY DEF Requests!Pending, Seen, IInv, Life
<1>3. \A r \in P : g[r] \in Entry /\ ent[g[r]].req = r
  BY <1>2
<1>4. g \in [P -> F]
  BY <1>1, <1>2, <1>3
<1>5. g \in Injection(P, F)
  BY <1>3, <1>4 DEF Injection, IsInjective
<1> HIDE DEF P, F, g
<1>6. IsFiniteSet(F) /\ Cardinality(F) = Cardinality(Entry) - 1 /\ Cardinality(Entry) \in Nat
  BY <1>1, FS_RemoveElement, FS_CardinalityType DEF F
<1>7. IsFiniteSet(P) /\ Cardinality(P) =< Cardinality(F)
  BY <1>5, <1>6, FS_Injection
<1>8. Cardinality(P) \in Nat
  BY <1>7, FS_CardinalityType
<1> QED BY <1>6, <1>7, <1>8 DEF P

\* Seen changes for one request only.
LEMMA SeenExcept ==
    ASSUME NEW r \in Req, NEW s, Seen'[r] = s, \A q \in Req : q # r => Seen'[q] = Seen[q]
    PROVE  Seen' = [Seen EXCEPT ![r] = s]
<1>1. Seen = [q \in Req |-> Seen[q]]
  BY DEF Seen
<1>2. Seen' = [q \in Req |-> Seen'[q]]
  BY DEF Seen
<1>3. [Seen EXCEPT ![r] = s] = [q \in Req |-> IF q = r THEN s ELSE Seen[q]]
  BY <1>1
<1> QED BY <1>2, <1>3

\* The caller's view of a release.
LEMMA ReleaseSeen ==
    ASSUME IInv, NEW e \in Entry, NEW o \in {"answered", "failed"}, NEW back,
           ent[e].state = "hashed", Release(e, o, back)
    PROVE  Requests!Next
<1> USE CsAssumption
<1> DEFINE r == ent[e].req
<1>1. r \in Req /\ done[r] = "none"
  BY DEF IInv, Life, TypeOK, EntryType
<1>2. done' = [done EXCEPT ![r] = o]
  BY <1>1 DEF Release, Reported, IInv, TypeOK
<1>3. \A f \in Entry \ {e} : ent'[f] = ent[f] /\ ent[f].req # r
  BY <1>1 DEF Release, IInv, TypeOK, PoolSound
<1>4. ent'[e].req \in {r, None}
  <2>1. CASE cntx.user = "PM"
    BY <2>1 DEF Release, IInv, TypeOK, Cleared
  <2>2. CASE cntx.user # "PM"
    <3>1. ent' = [ent EXCEPT ![e] = [ent[e] EXCEPT !.state = "releasing"]]
      BY <2>2 DEF Release
    <3>2. ent[e] \in EntryType
      BY DEF IInv, TypeOK
    <3>3. [ent[e] EXCEPT !.state = "releasing"].req = r
      BY <3>2 DEF EntryType
    <3> QED BY <3>1, <3>3 DEF IInv, TypeOK
  <2> QED BY <2>1, <2>2
<1>5. Seen[r] = "pending"
  BY <1>1 DEF Seen
<1>6. Seen' = [Seen EXCEPT ![r] = o]
  <2>1. Seen'[r] = o
    BY <1>1, <1>2 DEF Seen, IInv, TypeOK
  <2>2. ASSUME NEW q \in Req, q # r PROVE Seen'[q] = Seen[q]
    <3>1. done'[q] = done[q]
      BY <1>2, <2>2 DEF IInv, TypeOK
    <3>2. (\E x \in Entry : ent'[x].req = q) <=> (\E x \in Entry : ent[x].req = q)
      BY <1>3, <1>4, <2>2
    <3> QED BY <3>1, <3>2 DEF Seen
  <2> QED BY <1>1, <2>1, <2>2, SeenExcept
<1>7. Requests!Answer(r) \/ Requests!Fail(r)
  BY <1>5, <1>6 DEF Requests!Answer, Requests!Fail, Requests!Become
<1> QED BY <1>1, <1>7 DEF Requests!Next

\* The caller's view of a request being issued.
LEMMA IssueSeen ==
    ASSUME IInv, NEW r \in Req, Issue(r)
    PROVE  Requests!Next
<1> USE CsAssumption
<1>1. Seen[r] = "idle" /\ Unissued(r)
  BY DEF Issue, Unissued, Seen
<1>2. ASSUME NEW e \in Entry, NEW ok \in BOOLEAN, NEW stamp \in Stamps, Accept(r, e, ok, stamp)
      PROVE  Requests!Issue(r)
  <2>1. ent'[e].req = r /\ \A f \in Entry \ {e} : ent'[f] = ent[f]
    BY <1>2 DEF Accept, OnChain, IInv, TypeOK
  <2>2. ent[e].req = None /\ done' = done /\ e \in free
    BY <1>2 DEF Accept, IInv, PoolSound, Life
  <2>3. Seen'[r] = "pending"
    BY <1>1, <2>1, <2>2 DEF Seen, Unissued
  <2>4. ASSUME NEW q \in Req, q # r PROVE Seen'[q] = Seen[q]
    <3>1. (\E x \in Entry : ent'[x].req = q) <=> (\E x \in Entry : ent[x].req = q)
      BY <2>1, <2>2, <2>4
    <3> QED BY <2>2, <3>1 DEF Seen
  <2>5. Seen' = [Seen EXCEPT ![r] = "pending"]
    BY <2>3, <2>4, SeenExcept
  <2>6. Cardinality(Requests!Pending) < Cardinality(Entry)
    BY <2>2, PendingBound
  <2>7. Requests!Become(r, "pending")
    BY <2>5 DEF Requests!Become
  <2>8. Requests!Cardinality(Requests!Pending) = Cardinality(Requests!Pending)
    BY DEF Requests!Cardinality, Cardinality
  <2> QED BY <1>1, <2>6, <2>7, <2>8 DEF Requests!Issue
<1>3. ASSUME NEW ok \in BOOLEAN, Refuse(r, ok) PROVE Requests!Refuse(r)
  <2>1. done' = [done EXCEPT ![r] = "failed"] /\ ent' = ent
    BY <1>1, <1>3 DEF Refuse, Reported, Unissued, IInv, TypeOK
  <2>2. Seen' = [Seen EXCEPT ![r] = "failed"]
    <3>1. \A q \in Req : done'[q] = IF q = r THEN "failed" ELSE done[q]
      BY <2>1 DEF IInv, TypeOK
    <3>2. Seen'[r] = "failed" /\ \A q \in Req : q # r => Seen'[q] = Seen[q]
      BY <2>1, <3>1 DEF Seen
    <3> QED BY <3>2, SeenExcept
  <2> QED BY <1>1, <2>2 DEF Requests!Refuse, Requests!Become
<1> QED BY <1>2, <1>3 DEF Issue, Requests!Next

\* Steps that leave the requests of all entries alone are invisible.
LEMMA SeenUnchanged ==
    ASSUME done' = done, \A e \in Entry : ent'[e].req = ent[e].req
    PROVE  Seen' = Seen
BY DEF Seen

\* Every step is a step of the interface, or invisible there.
LEMMA NextSeen == IInv /\ [Next]_vars => [Requests!Next]_Seen
<1> SUFFICES ASSUME IInv, [Next]_vars PROVE Requests!Next \/ Seen' = Seen
  OBVIOUS
<1> USE CsAssumption
<1>1. ASSUME NEW r \in Req, Issue(r) PROVE Requests!Next
  BY <1>1, IssueSeen
<1>2. ASSUME NEW e \in Entry, NEW ok \in BOOLEAN, NEW w, Resend(e, ok, w) PROVE Seen' = Seen
  <2>1. \A f \in Entry : ent'[f].req = ent[f].req
    BY <1>2 DEF Resend, OnChain, IInv, TypeOK
  <2> QED BY <1>2, <2>1, SeenUnchanged DEF Resend
<1>3. ASSUME NEW r \in Req, FindRelease(r) PROVE Requests!Next \/ Seen' = Seen
  <2>1. CASE UNCHANGED <<free, numFree, numAlloc, hash, ent, done, rcv>>
    BY <2>1, SeenUnchanged
  <2>2. ASSUME NEW e \in Matches(r),
               Release(e, IF ent[e].req = r THEN "answered" ELSE "wrong", "recv")
        PROVE  Requests!Next
    <3>1. e \in Entry /\ ent[e].state = "hashed" /\ ent[e].req = r
      BY OnAChain
    <3>2. Release(e, "answered", "recv")
      BY <2>2, <3>1
    <3> QED BY <3>1, <3>2, ReleaseSeen
  <2> QED BY <1>3, <2>1, <2>2 DEF FindRelease
<1>4. ASSUME NEW r \in Req, FindReleaseError(r) PROVE Requests!Next \/ Seen' = Seen
  <2>1. CASE UNCHANGED <<free, numFree, numAlloc, hash, ent, done, rcv>>
    BY <2>1, SeenUnchanged
  <2>2. ASSUME NEW e \in Matches(r), NEW ok \in BOOLEAN, Resend(e, ok, Consumed(r))
        PROVE  Seen' = Seen
    BY <1>2, <2>2, OnAChain
  <2>3. ASSUME NEW e \in Matches(r), GiveUp(e, "recv", Consumed(r)) PROVE Requests!Next
    BY <2>3, OnAChain, ReleaseSeen DEF GiveUp
  <2> QED BY <1>4, <2>1, <2>2, <2>3 DEF FindReleaseError
<1>5. ASSUME NEW e \in Entry, AgeEntry(e) PROVE Requests!Next \/ Seen' = Seen
  <2>1. ent[e].state = "hashed"
    BY <1>5, OnAChain DEF AgeEntry, IInv, Life
  <2>2. CASE UNCHANGED <<free, numFree, numAlloc, hash, ent, wire, done>>
    BY <2>2, SeenUnchanged
  <2>3. CASE \E ok \in BOOLEAN : Resend(e, ok, wire)
    BY <1>2, <2>3
  <2>4. CASE GiveUp(e, "age", wire)
    BY <2>1, <2>4, ReleaseSeen DEF GiveUp
  <2> QED BY <1>5, <2>2, <2>3, <2>4 DEF AgeEntry
<1>6. CASE CallbackReturn
  <2>1. done' = done /\ rcv.self \in Entry
    BY <1>6 DEF CallbackReturn, IInv, Life
  <2>2. CASE ent[rcv.self].state # "releasing"
    BY <1>6, <2>2 DEF CallbackReturn, Seen
  <2>3. CASE ent[rcv.self].state = "releasing"
    <3>1. ent' = [ent EXCEPT ![rcv.self] = Cleared]
      BY <1>6, <2>3 DEF CallbackReturn
    <3>2. ent[rcv.self].req \in Req /\ done[ent[rcv.self].req] # "none"
      BY <2>1, <2>3 DEF IInv, Life, TypeOK, EntryType
    <3>3. ASSUME NEW q \in Req, done[q] = "none"
          PROVE  (\E x \in Entry : ent'[x].req = q) <=> (\E x \in Entry : ent[x].req = q)
      BY <2>1, <3>1, <3>2, <3>3 DEF IInv, TypeOK, Cleared
    <3> QED BY <2>1, <3>3 DEF Seen
  <2> QED BY <2>2, <2>3
<1>7. CASE AgeBegin \/ AgeBucket
  BY <1>7 DEF AgeBegin, AgeBucket, Seen
<1>8. CASE AgeEnd
  <2>1. \A e \in Entry : ent'[e].req = ent[e].req
    BY <1>8 DEF AgeEnd, IInv, TypeOK, EntryType
  <2> QED BY <1>8, <2>1, SeenUnchanged DEF AgeEnd
<1>9. ASSUME NEW e \in Entry, TimePasses(e) PROVE Seen' = Seen
  <2>1. ent[e] \in EntryType
    BY DEF IInv, TypeOK
  <2>2. [ent[e] EXCEPT !.clock = "due"].req = ent[e].req
    BY <2>1 DEF EntryType
  <2>3. ent' = [ent EXCEPT ![e] = [ent[e] EXCEPT !.clock = "due"]] /\ done' = done
    BY <1>9 DEF TimePasses
  <2>4. \A f \in Entry : ent'[f].req = ent[f].req
    BY <2>2, <2>3 DEF IInv, TypeOK
  <2> QED BY <2>3, <2>4, SeenUnchanged
<1>10. CASE UNCHANGED vars
  BY <1>10 DEF vars, Seen
<1> QED BY <1>1, <1>3, <1>4, <1>5, <1>6, <1>7, <1>8, <1>9, <1>10
        DEF Next, Age, UserIssue, CallbackIssue

(* The context implements its interface for any pool and any users: every  *)
(* accepted request is reported at most once, with its own answer or with  *)
(* a failure, none is dropped silently, and no more than poolSize are      *)
(* outstanding (cs_context.h:61-67).                                       *)
THEOREM ContextImplementsRequests == Spec => ImplementsRequests
<1>1. Init => Requests!Init
  BY CsAssumption DEF Init, Requests!Init, Seen, Cleared
<1> QED BY <1>1, InitInv, NextInv, NextSeen, PTL DEF Spec, ImplementsRequests, Requests!Spec
=============================================================================
