----------------------- MODULE ClauseRingBuffer_proofs -----------------------
(***************************************************************************)
(* For every number of threads and every size of the pool: the lock makes  *)
(* every thread see whole elements, and the indices alone (no counter is   *)
(* kept in the program) make a reader take each element at most once and   *)
(* in order.                                                               *)
(*                                                                         *)
(* The argument: let Dist(i) be how many steps slot i is behind the slot   *)
(* written last.  Slot i then holds element number added - Dist(i), if     *)
(* that is positive.  A reader that saw element number seen last is at     *)
(* most added - seen slots behind (fewer, if it has been lapped), so all   *)
(* slots it walks over hold later elements than any it has taken.          *)
(***************************************************************************)
EXTENDS ClauseRingBuffer, SequenceTheorems, FiniteSetTheorems, TLAPS

Dist(i) == IF i < addHereNext THEN addHereNext - 1 - i
                              ELSE addHereNext - 1 - i + PoolSize

\* Rounds of its loop that a reader with loop index i still has ahead.
Ahead(i) == IF i <= addHereNext THEN addHereNext - i
                                ELSE addHereNext - i + PoolSize

Writing(t) == pc[t] \in {"fill", "advance"}

Mutex == \A t \in Thread : pc[t] # "idle" <=> dataLock = t

\* Slots and stamps: the numbers descend from the slot written last.
SlotOrder ==
    /\ Len(sent) = added
    /\ \A i \in Index : stamp[i] = IF Dist(i) < added THEN added - Dist(i) ELSE 0

\* A slot that no thread is writing holds the element with its number.
SlotContent ==
    /\ \A i \in Index :
          stamp[i] # 0 /\ ~(i = addHereNext /\ \E t \in Thread : Writing(t))
            => pool[i] = sent[stamp[i]]
    /\ \A t \in Thread :
          /\ Writing(t) => /\ pool[addHereNext].author = adding[t].author
                           /\ pool[addHereNext].kind   = adding[t].kind
          /\ pc[t] = "advance" => pool[addHereNext].data = adding[t].data

\* Number of the last element a thread can have taken.
Bound(t) == IF pc[t] = "receive" THEN added - Ahead(cursor[t]) ELSE seen[t]

Readers ==
    \A t \in Thread :
        /\ Dist(lastSeen[t]) <= added - seen[t]
        /\ pc[t] = "receive" => Ahead(cursor[t]) <= Dist(lastSeen[t])
        /\ \A k \in DOMAIN got[t] : got[t][k].nr <= Bound(t)

IndInv ==
    /\ TypeOK
    /\ Mutex
    /\ SlotOrder
    /\ SlotContent
    /\ Readers
    /\ DeliversWhatWasSent
    /\ OnceInOrderFromOthers

-----------------------------------------------------------------------------
\* Stepping an index by one keeps it in the pool.
LEMMA StepsStayInPool ==
    ASSUME NEW i \in Index
    PROVE  Succ(i) \in Index /\ Pred(i) \in Index
BY PoolSizeAssumption DEF Index, Succ, Pred

\* What is taken of an element is a set of sets of literals.
LEMMA TakenType ==
    ASSUME NEW slot \in Slot, NEW ok \in SUBSET Lit
    PROVE  Taken(slot, ok) \in SUBSET SUBSET Lit
BY DEF Slot, Kind, Taken

\* Counting clauses in the proof keeps it a map from clauses to integers.
LEMMA InProofType ==
    ASSUME NEW p \in [SUBSET Lit -> Int], NEW cs, NEW n \in Int
    PROVE  InProof(p, cs, n) \in [SUBSET Lit -> Int]
BY DEF InProof

LEMMA TypeInit == Init => TypeOK
BY PoolSizeAssumption
   DEF Init, TypeOK, Slot, Kind, EmptySlot, Index

LEMMA TypeStep == TypeOK /\ [Next]_vars => TypeOK'
<1> SUFFICES ASSUME TypeOK, [Next]_vars PROVE TypeOK'
    OBVIOUS
<1> USE DEF TypeOK, Index
<1>1. ASSUME NEW t \in Thread, NEW it \in Item, AddLock(t, it)
      PROVE  TypeOK'
  <2>1. it.kind \in Kind /\ it.lits \in SUBSET Lit
        BY ItemAssumption
  <2>2. proof' \in [SUBSET Lit -> Int]
    <3>1. InProof(proof, {pool[addHereNext].data}, -1) \in [SUBSET Lit -> Int]
          BY InProofType, -1 \in Int
    <3> QED BY <1>1, <3>1 DEF AddLock
  <2>3. [author |-> t, kind |-> it.kind, data |-> it.lits] \in Slot
        BY <2>1 DEF Slot
  <2>4. adding' \in [Thread -> Slot]
        BY <1>1, <2>3 DEF AddLock
  <2>5. pool' \in [Index -> Slot]
    <3>1. pool[addHereNext] \in Slot
          OBVIOUS
    <3>2. [pool[addHereNext] EXCEPT !.author = t, !.kind = it.kind] \in Slot
          BY <2>1, <3>1 DEF Slot
    <3> QED BY <1>1, <3>2 DEF AddLock
  <2> QED BY <1>1, <2>2, <2>4, <2>5 DEF AddLock, history, readVars
<1>2. ASSUME NEW t \in Thread, AddFill(t)
      PROVE  TypeOK'
  <2>1. proof' \in [SUBSET Lit -> Int]
    <3>1. InProof(proof, ProofClauses(adding[t]), 1) \in [SUBSET Lit -> Int]
          BY InProofType, 1 \in Int
    <3> QED BY <1>2, <3>1 DEF AddFill
  <2>2. pool' \in [Index -> Slot]
    <3>1. pool[addHereNext] \in Slot /\ adding[t] \in Slot
          OBVIOUS
    <3>2. [pool[addHereNext] EXCEPT !.data = adding[t].data] \in Slot
          BY <3>1 DEF Slot
    <3> QED BY <1>2, <3>2 DEF AddFill
  <2> QED BY <1>2, <2>1, <2>2 DEF AddFill, history, readVars
<1>3. ASSUME NEW t \in Thread, AddUnlock(t)
      PROVE  TypeOK'
  <2>1. addHereNext' \in Index
        BY <1>3, StepsStayInPool DEF AddUnlock
  <2>2. sent' \in Seq(Slot)
    <3>1. adding[t] \in Slot
          OBVIOUS
    <3> QED BY <1>3, <3>1, AppendProperties DEF AddUnlock
  <2>3. stamp' \in [Index -> Nat] /\ added' \in Nat
        BY <1>3 DEF AddUnlock
  <2> QED BY <1>3, <2>1, <2>2, <2>3 DEF AddUnlock, readVars
<1>4. ASSUME NEW t \in Thread, ReceiveLock(t)
      PROVE  TypeOK'
  <2>1. cursor' \in [Thread -> Index]
        BY <1>4, StepsStayInPool DEF ReceiveLock
  <2> QED BY <1>4, <2>1 DEF ReceiveLock, history, poolVars
<1>5. ASSUME NEW t \in Thread, ReceiveItem(t)
      PROVE  TypeOK'
  <2>1. cursor' \in [Thread -> Index]
        BY <1>5, StepsStayInPool DEF ReceiveItem, StepCursor
  <2>2. Taken(pool[cursor[t]], Receivable[t]) \in SUBSET SUBSET Lit
    <3>1. pool[cursor[t]] \in Slot /\ Receivable[t] \in SUBSET Lit
          BY ReceivableAssumption
    <3> QED BY <3>1, TakenType
  <2>3. got' \in [Thread -> Seq([nr : Nat, slot : Slot, taken : SUBSET SUBSET Lit])]
    <3> DEFINE R == [nr : Nat, slot : Slot, taken : SUBSET SUBSET Lit]
               r == [nr |-> stamp[cursor[t]], slot |-> pool[cursor[t]],
                     taken |-> Taken(pool[cursor[t]], Receivable[t])]
    <3>1. r \in R
          BY <2>2
    <3>2. got' = got \/ got' = [got EXCEPT ![t] = Append(got[t], r)]
          BY <1>5 DEF ReceiveItem
    <3> HIDE DEF R, r
    <3>3. got \in [Thread -> Seq(R)] => got' \in [Thread -> Seq(R)]
      <4> SUFFICES ASSUME got \in [Thread -> Seq(R)] PROVE got' \in [Thread -> Seq(R)]
          OBVIOUS
      <4>1. Append(got[t], r) \in Seq(R)
            BY <3>1, AppendProperties
      <4> QED BY <3>2, <4>1
    <3> QED BY <3>3 DEF R
  <2> QED BY <1>5, <2>1, <2>3 DEF ReceiveItem, history, poolVars
<1>6. ASSUME NEW t \in Thread, ReceiveUnlock(t)
      PROVE  TypeOK'
  <2>1. lastSeen' \in [Thread -> Index]
        BY <1>6, StepsStayInPool DEF ReceiveUnlock
  <2> QED BY <1>6, <2>1 DEF ReceiveUnlock, history, poolVars
<1>7. CASE UNCHANGED vars
      BY <1>7 DEF vars, poolVars, history, readVars
<1> QED BY <1>1, <1>2, <1>3, <1>4, <1>5, <1>6, <1>7 DEF Next

\* Every behaviour of the buffer keeps its indices inside the pool and its
\* state well formed.
THEOREM TypeCorrect == Spec => []TypeOK
<1>1. Init => TypeOK
      BY TypeInit
<1>2. TypeOK /\ [Next]_vars => TypeOK'
      BY TypeStep
<1> QED BY <1>1, <1>2, PTL DEF Spec

-----------------------------------------------------------------------------
(* Arithmetic of the pool. *)

\* Distances are counted within one lap; the slot to be written next is a whole
\* lap behind, the slot before it was written last.
LEMMA DistFacts ==
    ASSUME addHereNext \in Index
    PROVE  /\ \A i \in Index : Dist(i) \in 0 .. PoolSize - 1
           /\ Dist(Pred(addHereNext)) = 0
           /\ \A i \in Index : Ahead(i) \in 0 .. PoolSize - 1
           /\ \A i \in Index : Ahead(Succ(i)) = Dist(i)
           /\ \A i \in Index : i # addHereNext => Ahead(i) = Dist(i) + 1
           /\ Ahead(addHereNext) = 0
BY PoolSizeAssumption DEF Index, Dist, Ahead, Succ, Pred

\* Adding an element pushes every other slot one step back.
LEMMA DistAdvance ==
    ASSUME addHereNext \in Index, addHereNext' = Succ(addHereNext)
    PROVE  \A i \in Index : Dist(i)' = IF i = addHereNext THEN 0 ELSE Dist(i) + 1
BY PoolSizeAssumption DEF Index, Dist, Succ

\* Nothing moves while addHereNext does not.
LEMMA DistSame ==
    ASSUME addHereNext' = addHereNext
    PROVE  \A i : Dist(i)' = Dist(i) /\ Ahead(i)' = Ahead(i)
BY DEF Dist, Ahead

\* The numbers in what a thread has received.
LEMMA GotNumbers ==
    ASSUME TypeOK, NEW t \in Thread, NEW k \in DOMAIN got[t]
    PROVE  got[t][k].nr \in Nat
<1> DEFINE R == [nr : Nat, slot : Slot, taken : SUBSET SUBSET Lit]
<1>1. got[t] \in Seq(R)
      BY DEF TypeOK
<1> HIDE DEF R
<1>2. got[t][k] \in R
      BY <1>1, ElementOfSeq
<1> QED BY <1>2 DEF R

-----------------------------------------------------------------------------
(* The inductive invariant, one lemma per action. *)

LEMMA IndInit == Init => IndInv
<1> SUFFICES ASSUME Init PROVE IndInv
    OBVIOUS
<1>1. TypeOK
      BY TypeInit
<1>2. Mutex
      BY ThreadAssumption DEF Init, Mutex
<1>3. SlotOrder
  <2>1. \A i \in Index : Dist(i) \in Nat
        BY <1>1, DistFacts, PoolSizeAssumption DEF TypeOK
  <2> QED BY <2>1 DEF Init, SlotOrder
<1>4. SlotContent
      BY DEF Init, SlotContent, Writing
<1>5. Readers
  <2>1. Dist(0) = 0
        BY PoolSizeAssumption DEF Init, Dist
  <2> QED BY <2>1 DEF Init, Readers
<1>6. DeliversWhatWasSent /\ OnceInOrderFromOthers
      BY DEF Init, DeliversWhatWasSent, OnceInOrderFromOthers
<1> QED BY <1>1, <1>2, <1>3, <1>4, <1>5, <1>6 DEF IndInv

LEMMA AddLockStep ==
    ASSUME IndInv, TypeOK', NEW t \in Thread, NEW it \in Item, AddLock(t, it)
    PROVE  IndInv'
<1> USE DEF IndInv
<1>1. Mutex'
      BY ThreadAssumption DEF AddLock, LockFree, Mutex, TypeOK
<1>2. \A u \in Thread : pc[u] = "idle"
      BY ThreadAssumption DEF AddLock, LockFree, Mutex
<1>3. \A i : Dist(i)' = Dist(i) /\ Ahead(i)' = Ahead(i)
      BY DistSame DEF AddLock
<1>4. SlotOrder'
      BY <1>3 DEF SlotOrder, AddLock, history
<1>5. SlotContent'
  <2>1. pool'[addHereNext].author = t /\ pool'[addHereNext].kind = it.kind
    <3>1. pool[addHereNext] \in Slot
          BY DEF TypeOK
    <3> QED BY <3>1 DEF AddLock, TypeOK, Slot
  <2>2. adding'[t].author = t /\ adding'[t].kind = it.kind
        BY DEF AddLock, TypeOK
  <2>3. \A u \in Thread : Writing(u)' <=> u = t
        BY <1>2 DEF Writing, AddLock, TypeOK
  <2>4. \A i \in Index : i # addHereNext => pool'[i] = pool[i]
        BY DEF AddLock, TypeOK
  <2>5. \A u \in Thread : pc'[u] # "advance"
        BY <1>2 DEF AddLock, TypeOK
  <2> QED BY <1>2, <2>1, <2>2, <2>3, <2>4, <2>5 DEF SlotContent, AddLock, history, Writing
<1>6. Readers'
  <2>1. \A u \in Thread : pc'[u] # "receive" /\ pc[u] # "receive"
        BY <1>2 DEF AddLock, TypeOK
  <2> QED BY <1>3, <2>1 DEF Readers, Bound, AddLock, history, readVars
<1>7. DeliversWhatWasSent' /\ OnceInOrderFromOthers'
      BY DEF DeliversWhatWasSent, OnceInOrderFromOthers, AddLock, history, readVars
<1> QED BY <1>1, <1>4, <1>5, <1>6, <1>7

LEMMA AddFillStep ==
    ASSUME IndInv, TypeOK', NEW t \in Thread, AddFill(t)
    PROVE  IndInv'
<1> USE DEF IndInv
<1>1. Mutex'
      BY DEF AddFill, Mutex, TypeOK
<1>2. \A u \in Thread : u # t => pc[u] = "idle"
      BY DEF AddFill, Mutex
<1>3. \A i : Dist(i)' = Dist(i) /\ Ahead(i)' = Ahead(i)
      BY DistSame DEF AddFill
<1>4. SlotOrder'
      BY <1>3 DEF SlotOrder, AddFill, history
<1>5. SlotContent'
  <2>1. pool[addHereNext] \in Slot
        BY DEF TypeOK
  <2>2. /\ pool'[addHereNext].author = pool[addHereNext].author
        /\ pool'[addHereNext].kind = pool[addHereNext].kind
        /\ pool'[addHereNext].data = adding[t].data
        BY <2>1 DEF AddFill, TypeOK, Slot
  <2>3. \A u \in Thread : (Writing(u)' <=> u = t) /\ (Writing(u) <=> u = t)
        BY <1>2 DEF Writing, AddFill, TypeOK
  <2>4. \A i \in Index : i # addHereNext => pool'[i] = pool[i]
        BY DEF AddFill, TypeOK
  <2>5. \A u \in Thread : pc'[u] = "advance" => u = t
        BY <1>2 DEF AddFill, TypeOK
  <2> QED BY <2>2, <2>3, <2>4, <2>5 DEF SlotContent, AddFill, history
<1>6. Readers'
  <2>1. \A u \in Thread : pc'[u] # "receive" /\ pc[u] # "receive"
        BY <1>2 DEF AddFill, TypeOK
  <2> QED BY <1>3, <2>1 DEF Readers, Bound, AddFill, history, readVars
<1>7. DeliversWhatWasSent' /\ OnceInOrderFromOthers'
      BY DEF DeliversWhatWasSent, OnceInOrderFromOthers, AddFill, history, readVars
<1> QED BY <1>1, <1>4, <1>5, <1>6, <1>7

LEMMA AddUnlockStep ==
    ASSUME IndInv, TypeOK', NEW t \in Thread, AddUnlock(t)
    PROVE  IndInv'
<1> USE DEF IndInv
<1>1. Mutex'
      BY ThreadAssumption DEF AddUnlock, Mutex, TypeOK
<1>2. \A u \in Thread : u # t => pc[u] = "idle"
      BY DEF AddUnlock, Mutex
<1>3. \A i \in Index : Dist(i)' = IF i = addHereNext THEN 0 ELSE Dist(i) + 1
      BY DistAdvance DEF AddUnlock, TypeOK
<1>4. \A i \in Index : Dist(i) \in Nat
      BY DistFacts, PoolSizeAssumption DEF TypeOK
<1>5. /\ Len(sent') = added + 1
      /\ sent'[added + 1] = adding[t]
      /\ \A n \in 1 .. added : sent'[n] = sent[n]
      /\ DOMAIN sent = 1 .. added /\ DOMAIN sent' = 1 .. added + 1
      BY AppendProperties DEF AddUnlock, TypeOK, SlotOrder
<1>6. /\ added' = added + 1
      /\ stamp'[addHereNext] = added + 1
      /\ \A i \in Index : i # addHereNext => stamp'[i] = stamp[i]
      BY DEF AddUnlock, TypeOK
<1>7. SlotOrder'
  <2> SUFFICES ASSUME NEW i \in Index
               PROVE  stamp'[i] = IF Dist(i)' < added' THEN added' - Dist(i)' ELSE 0
      BY <1>5, <1>6 DEF SlotOrder
  <2>1. Dist(i)' = IF i = addHereNext THEN 0 ELSE Dist(i) + 1
        BY <1>3
  <2>2. Dist(i) \in Nat /\ added \in Nat
        BY <1>4 DEF TypeOK
  <2>3. stamp[i] = IF Dist(i) < added THEN added - Dist(i) ELSE 0
        BY DEF SlotOrder
  <2> QED BY <1>6, <2>1, <2>2, <2>3
<1>8. SlotContent'
  <2>1. \A u \in Thread : pc'[u] = "idle"
        BY <1>2 DEF AddUnlock, TypeOK
  <2> SUFFICES ASSUME NEW i \in Index, stamp'[i] # 0
               PROVE  pool'[i] = sent'[stamp'[i]]
      BY <2>1 DEF SlotContent, Writing
  <2>2. CASE i = addHereNext
    <3>1. pool[addHereNext] \in Slot /\ adding[t] \in Slot
          BY DEF TypeOK
    <3>2. /\ pool[addHereNext].author = adding[t].author
          /\ pool[addHereNext].kind = adding[t].kind
          /\ pool[addHereNext].data = adding[t].data
          BY DEF SlotContent, Writing, AddUnlock
    <3>3. pool[addHereNext] = adding[t]
          BY <3>1, <3>2 DEF Slot
    <3> QED BY <1>5, <1>6, <2>2, <3>3 DEF AddUnlock
  <2>3. CASE i # addHereNext
    <3>1. stamp[i] \in 1 .. added
      <4>1. Dist(i) \in Nat /\ added \in Nat
            BY <1>4 DEF TypeOK
      <4>2. stamp[i] = IF Dist(i) < added THEN added - Dist(i) ELSE 0
            BY DEF SlotOrder
      <4>3. stamp[i] # 0
            BY <1>6, <2>3
      <4> QED BY <4>1, <4>2, <4>3
    <3> QED BY <1>5, <1>6, <2>3, <3>1 DEF SlotContent, AddUnlock
  <2> QED BY <2>2, <2>3
<1>9. Readers'
  <2>1. \A u \in Thread : pc'[u] # "receive" /\ pc[u] # "receive"
        BY <1>2 DEF AddUnlock, TypeOK
  <2>2. lastSeen' = lastSeen /\ got' = got /\ seen' = seen
        BY DEF AddUnlock, readVars
  <2>3. \A u \in Thread : Dist(lastSeen[u])' <= added' - seen[u]
    <3> SUFFICES ASSUME NEW u \in Thread PROVE Dist(lastSeen[u])' <= added' - seen[u]
        OBVIOUS
    <3>1. lastSeen[u] \in Index /\ lastSeen'[u] = lastSeen[u]
          BY <2>2 DEF TypeOK
    <3>2. Dist(lastSeen[u]) <= added - seen[u]
          BY DEF Readers
    <3>3. Dist(lastSeen[u])' = IF lastSeen[u] = addHereNext THEN 0 ELSE Dist(lastSeen[u]) + 1
      <4>1. PICK i \in Index : i = lastSeen[u]
            BY <3>1
      <4>2. Dist(i)' = IF i = addHereNext THEN 0 ELSE Dist(i) + 1
            BY <1>3
      <4>3. Dist(lastSeen[u])' = Dist(i)' /\ Dist(lastSeen[u]) = Dist(i)
            BY <3>1, <4>1 DEF Dist
      <4> QED BY <4>1, <4>2, <4>3
    <3>4. Dist(lastSeen[u]) \in Nat /\ added \in Nat /\ seen[u] \in Nat
          BY <1>4, <3>1 DEF TypeOK
    <3> QED BY <1>6, <3>2, <3>3, <3>4
  <2> QED BY <2>1, <2>2, <2>3 DEF Readers, Bound
<1>10. DeliversWhatWasSent' /\ OnceInOrderFromOthers'
  <2>1. got' = got
        BY DEF AddUnlock, readVars
  <2>2. DOMAIN sent \subseteq DOMAIN sent'
        BY <1>5 DEF TypeOK
  <2>3. \A n \in DOMAIN sent : sent'[n] = sent[n]
        BY <1>5
  <2>4. DeliversWhatWasSent'
        BY <2>1, <2>2, <2>3 DEF DeliversWhatWasSent
  <2>5. OnceInOrderFromOthers'
        BY <2>1 DEF OnceInOrderFromOthers
  <2> QED BY <2>4, <2>5
<1> QED BY <1>1, <1>7, <1>8, <1>9, <1>10

LEMMA ReceiveLockStep ==
    ASSUME IndInv, TypeOK', NEW t \in Thread, ReceiveLock(t)
    PROVE  IndInv'
<1> USE DEF IndInv
<1>1. Mutex'
      BY ThreadAssumption DEF ReceiveLock, LockFree, Mutex, TypeOK
<1>2. \A u \in Thread : pc[u] = "idle"
      BY ThreadAssumption DEF ReceiveLock, LockFree, Mutex
<1>3. \A i : Dist(i)' = Dist(i) /\ Ahead(i)' = Ahead(i)
      BY DistSame DEF ReceiveLock, poolVars
<1>4. SlotOrder'
      BY <1>3 DEF SlotOrder, ReceiveLock, history
<1>5. SlotContent'
  <2>1. \A u \in Thread : ~ Writing(u) /\ ~ Writing(u)' /\ pc'[u] # "advance"
        BY <1>2 DEF Writing, ReceiveLock, TypeOK
  <2> QED BY <2>1 DEF SlotContent, ReceiveLock, history, poolVars
<1>6. Readers'
  <2>1. \A u \in Thread : pc'[u] = "receive" <=> u = t
        BY <1>2 DEF ReceiveLock, TypeOK
  <2>2. /\ lastSeen' = lastSeen /\ got' = got /\ seen' = seen /\ added' = added
        /\ cursor'[t] = Succ(lastSeen[t])
        BY DEF ReceiveLock, history, TypeOK
  <2>3. Ahead(cursor[t])' = Dist(lastSeen[t])
    <3>1. Ahead(cursor[t])' = Ahead(Succ(lastSeen[t]))
          BY <2>2 DEF Ahead, ReceiveLock, poolVars
    <3> QED BY <3>1, DistFacts DEF TypeOK
  <2>4. \A u \in Thread : Dist(lastSeen[u])' = Dist(lastSeen[u])
        BY <2>2 DEF Dist, ReceiveLock, poolVars
  <2>5. \A u \in Thread : seen[u] <= Bound(u)'
    <3>1. Bound(t)' = added - Dist(lastSeen[t])
          BY <2>1, <2>2, <2>3 DEF Bound
    <3>2. \A u \in Thread : u # t => Bound(u)' = seen[u]
          BY <2>1, <2>2 DEF Bound
    <3>3. Dist(lastSeen[t]) \in Int
          BY DistFacts DEF TypeOK
    <3>4. Dist(lastSeen[t]) <= added - seen[t]
          BY DEF Readers
    <3>5. added \in Nat /\ \A u \in Thread : seen[u] \in Nat
          BY DEF TypeOK
    <3> QED BY <3>1, <3>2, <3>3, <3>4, <3>5
  <2>6. \A u \in Thread : \A k \in DOMAIN got[u] : got[u][k].nr <= Bound(u)'
    <3> SUFFICES ASSUME NEW u \in Thread, NEW k \in DOMAIN got[u]
                 PROVE  got[u][k].nr <= Bound(u)'
        OBVIOUS
    <3>1. got[u][k].nr <= seen[u]
          BY <1>2 DEF Readers, Bound
    <3>2. got[u][k].nr \in Nat /\ seen[u] \in Nat
          BY GotNumbers DEF TypeOK
    <3>3. Bound(u)' \in Int
      <4>1. Dist(lastSeen[t]) \in Int
            BY DistFacts DEF TypeOK
      <4> QED BY <2>1, <2>2, <2>3, <4>1 DEF Bound, TypeOK
    <3> QED BY <2>5, <3>1, <3>2, <3>3
  <2>7. Dist(lastSeen[t]) \in Int
        BY DistFacts DEF TypeOK
  <2> QED BY <2>1, <2>2, <2>3, <2>4, <2>6, <2>7 DEF Readers
<1>7. DeliversWhatWasSent' /\ OnceInOrderFromOthers'
      BY DEF DeliversWhatWasSent, OnceInOrderFromOthers, ReceiveLock, history
<1> QED BY <1>1, <1>4, <1>5, <1>6, <1>7

\* What a reader finds at its loop index: an element it may take next.
SlotRead(t) ==
    LET at == cursor[t] IN
    /\ at \in Index /\ at # addHereNext
    /\ Dist(at) \in Nat /\ Ahead(at) = Dist(at) + 1 /\ Ahead(Succ(at)) = Dist(at)
    /\ Dist(lastSeen[t]) \in Nat /\ Ahead(at) <= Dist(lastSeen[t])
    /\ Dist(lastSeen[t]) <= added - seen[t]
    /\ stamp[at] = added - Dist(at) /\ stamp[at] \in 1 .. added
    /\ stamp[at] \in DOMAIN sent /\ pool[at] = sent[stamp[at]]

LEMMA ReaderFacts ==
    ASSUME IndInv, NEW t \in Thread, pc[t] = "receive", cursor[t] # addHereNext
    PROVE  SlotRead(t)
<1> USE DEF IndInv
<1> DEFINE at == cursor[t]
<1>1. at \in Index /\ at # addHereNext /\ lastSeen[t] \in Index
      BY DEF TypeOK
<1>2. /\ Ahead(at) = Dist(at) + 1
      /\ Dist(at) \in Nat
      /\ Dist(lastSeen[t]) \in Nat
      /\ Ahead(Succ(at)) = Dist(at)
      BY <1>1, DistFacts, PoolSizeAssumption DEF TypeOK
<1>3. added \in Nat /\ seen[t] \in Nat
      BY DEF TypeOK
<1>4. Ahead(at) <= Dist(lastSeen[t]) /\ Dist(lastSeen[t]) <= added - seen[t]
      BY DEF Readers
<1>5. stamp[at] = added - Dist(at) /\ stamp[at] \in 1 .. added
  <2>1. stamp[at] = IF Dist(at) < added THEN added - Dist(at) ELSE 0
        BY <1>1 DEF SlotOrder
  <2> QED BY <1>2, <1>3, <1>4, <2>1
<1>6. pool[at] = sent[stamp[at]] /\ stamp[at] \in DOMAIN sent
  <2>1. DOMAIN sent = 1 .. added
        BY DEF SlotOrder, TypeOK
  <2>2. \A u \in Thread : ~ Writing(u)
        BY DEF Mutex, Writing
  <2>3. stamp[at] # 0
        BY <1>5
  <2> QED BY <1>1, <1>5, <2>1, <2>2, <2>3 DEF SlotContent
<1> QED BY <1>1, <1>2, <1>4, <1>5, <1>6 DEF SlotRead

LEMMA ReceiveItemStep ==
    ASSUME IndInv, TypeOK', NEW t \in Thread, ReceiveItem(t)
    PROVE  IndInv'
<1> USE DEF IndInv
<1> DEFINE at == cursor[t]
           r  == [nr |-> stamp[at], slot |-> pool[at],
                  taken |-> Taken(pool[at], Receivable[t])]
<1>1. Mutex'
      BY DEF ReceiveItem, Mutex
<1>2. \A u \in Thread : u # t => pc[u] = "idle"
      BY DEF ReceiveItem, Mutex
<1>3. \A i : Dist(i)' = Dist(i) /\ Ahead(i)' = Ahead(i)
      BY DistSame DEF ReceiveItem, poolVars
<1>4. SlotOrder'
      BY <1>3 DEF SlotOrder, ReceiveItem, history
<1>5. SlotContent'
  <2>1. pc' = pc /\ pool' = pool /\ adding' = adding /\ stamp' = stamp
        /\ sent' = sent /\ addHereNext' = addHereNext
        BY DEF ReceiveItem, poolVars, history
  <2> QED BY <2>1 DEF SlotContent, Writing
<1>6. SlotRead(t)
      BY ReaderFacts DEF ReceiveItem
<1>7. /\ Ahead(at) = Dist(at) + 1
      /\ Dist(at) \in Nat
      /\ Dist(lastSeen[t]) \in Nat
      /\ Ahead(Succ(at)) = Dist(at)
      BY <1>6 DEF SlotRead
<1>8. added \in Nat /\ seen[t] \in Nat
      BY DEF TypeOK
<1>9. Ahead(at) <= Dist(lastSeen[t]) /\ Dist(lastSeen[t]) <= added - seen[t]
      BY <1>6 DEF SlotRead
<1>10. stamp[at] = added - Dist(at) /\ stamp[at] \in 1 .. added
       BY <1>6 DEF SlotRead
<1>11. pool[at] = sent[stamp[at]] /\ stamp[at] \in DOMAIN sent
       BY <1>6 DEF SlotRead
<1>12. Bound(t) = added - Ahead(at) /\ Bound(t)' = added - Dist(at)
  <2>1. cursor'[t] = Succ(at) /\ pc'[t] = "receive" /\ added' = added
        BY DEF ReceiveItem, StepCursor, history, TypeOK
  <2>2. Ahead(cursor[t])' = Ahead(Succ(at))
        BY <2>1 DEF Ahead, ReceiveItem, poolVars
  <2> QED BY <1>7, <2>1, <2>2 DEF Bound, ReceiveItem
<1>13. \A k \in DOMAIN got[t] : got[t][k].nr \in Nat /\ got[t][k].nr < stamp[at]
  <2> SUFFICES ASSUME NEW k \in DOMAIN got[t]
               PROVE  got[t][k].nr \in Nat /\ got[t][k].nr < stamp[at]
      OBVIOUS
  <2>1. got[t][k].nr \in Nat
        BY GotNumbers
  <2>2. got[t][k].nr <= Bound(t)
        BY DEF Readers
  <2> QED BY <1>7, <1>8, <1>10, <1>12, <2>1, <2>2
<1>14. \A u \in Thread : u # t => got'[u] = got[u] /\ Bound(u)' = Bound(u)
  <2>1. \A u \in Thread : u # t => got'[u] = got[u]
        BY DEF ReceiveItem, TypeOK
  <2>2. \A u \in Thread : u # t => pc'[u] # "receive" /\ pc[u] # "receive" /\ seen'[u] = seen[u]
        BY <1>2 DEF ReceiveItem
  <2> QED BY <2>1, <2>2 DEF Bound
<1>15. CASE got' = got
  <2>1. Readers'
    <3>1. /\ lastSeen' = lastSeen /\ seen' = seen /\ added' = added /\ pc' = pc
          /\ addHereNext' = addHereNext /\ cursor'[t] = Succ(at)
          BY DEF ReceiveItem, history, poolVars, StepCursor, TypeOK
    <3>2. \A u \in Thread : Dist(lastSeen[u])' = Dist(lastSeen[u])
          BY <3>1 DEF Dist
    <3>3. Ahead(cursor[t])' = Dist(at)
          BY <1>7, <3>1 DEF Ahead
    <3>4. \A u \in Thread : pc[u] = "receive" => u = t
          BY <1>2
    <3>5. \A k \in DOMAIN got[t] : got[t][k].nr <= Bound(t)'
          BY <1>7, <1>8, <1>10, <1>12, <1>13
    <3>6. Dist(at) <= Dist(lastSeen[t])
          BY <1>7, <1>9
    <3> QED BY <1>14, <1>15, <3>1, <3>2, <3>3, <3>4, <3>5, <3>6 DEF Readers
  <2>2. DeliversWhatWasSent' /\ OnceInOrderFromOthers'
        BY <1>15 DEF DeliversWhatWasSent, OnceInOrderFromOthers, ReceiveItem, history
  <2> QED BY <1>1, <1>4, <1>5, <2>1, <2>2
<1>16. CASE got' # got
  <2>1. got'[t] = Append(got[t], r) /\ pool[at].author # t
        BY <1>16 DEF ReceiveItem, Own, TypeOK
  <2> DEFINE n == Len(got[t])
  <2>2. /\ n \in Nat
        /\ DOMAIN got[t] = 1 .. n
        /\ DOMAIN got'[t] = 1 .. n + 1
        /\ got'[t][n + 1] = r
        /\ \A k \in 1 .. n : got'[t][k] = got[t][k]
    <3> HIDE DEF r
    <3>1. \E S : got[t] \in Seq(S)
          BY DEF TypeOK
    <3> QED BY <2>1, <3>1, AppendProperties
  <2> HIDE DEF n
  <2>3. got'[t][n + 1].nr = stamp[at] /\ got'[t][n + 1].slot = pool[at]
        BY <2>2
  <2>4. Readers'
    <3>1. /\ lastSeen' = lastSeen /\ seen' = seen /\ added' = added /\ pc' = pc
          /\ addHereNext' = addHereNext /\ cursor'[t] = Succ(at)
          BY DEF ReceiveItem, history, poolVars, StepCursor, TypeOK
    <3>2. \A u \in Thread : Dist(lastSeen[u])' = Dist(lastSeen[u])
          BY <3>1 DEF Dist
    <3>3. Ahead(cursor[t])' = Dist(at)
          BY <1>7, <3>1 DEF Ahead
    <3>4. \A u \in Thread : pc[u] = "receive" => u = t
          BY <1>2
    <3>5. \A k \in DOMAIN got'[t] : got'[t][k].nr <= Bound(t)'
      <4> SUFFICES ASSUME NEW k \in DOMAIN got'[t] PROVE got'[t][k].nr <= Bound(t)'
          OBVIOUS
      <4> HIDE DEF at, r
      <4>1. CASE k = n + 1
        <5>1. got'[t][k].nr = stamp[at]
              BY <2>3, <4>1
        <5>2. stamp[at] = Bound(t)' /\ stamp[at] \in Int
              BY <1>10, <1>12
        <5> QED BY <5>1, <5>2
      <4>2. CASE k \in 1 .. n
        <5>1. got'[t][k] = got[t][k] /\ k \in DOMAIN got[t]
              BY <2>2, <4>2
        <5>2. got[t][k].nr \in Nat /\ got[t][k].nr < stamp[at]
              BY <1>13, <5>1
        <5>3. stamp[at] = Bound(t)' /\ stamp[at] \in Int
              BY <1>8, <1>10, <1>12
        <5> QED BY <5>1, <5>2, <5>3
      <4> QED BY <2>2, <4>1, <4>2
    <3>6. Dist(at) <= Dist(lastSeen[t])
          BY <1>7, <1>9
    <3> QED BY <1>14, <3>1, <3>2, <3>3, <3>4, <3>5, <3>6 DEF Readers
  <2>5. sent' = sent
        BY DEF ReceiveItem, history
  <2>6. DeliversWhatWasSent'
    <3> SUFFICES ASSUME NEW u \in Thread, NEW k \in DOMAIN got'[u]
                 PROVE  /\ got'[u][k].nr \in DOMAIN sent
                        /\ got'[u][k].slot = sent[got'[u][k].nr]
        BY <2>5 DEF DeliversWhatWasSent
    <3>1. CASE u # t
          BY <1>14, <3>1 DEF DeliversWhatWasSent
    <3>2. CASE u = t /\ k = n + 1
          BY <1>11, <2>3, <3>2
    <3>3. CASE u = t /\ k \in 1 .. n
          BY <2>2, <3>3 DEF DeliversWhatWasSent
    <3> QED BY <2>2, <3>1, <3>2, <3>3
  <2>7. OnceInOrderFromOthers'
    <3> SUFFICES ASSUME NEW u \in Thread, NEW k \in DOMAIN got'[u]
                 PROVE  /\ got'[u][k].slot.author # u
                        /\ \A j \in 1 .. k - 1 : got'[u][j].nr < got'[u][k].nr
        BY DEF OnceInOrderFromOthers
    <3>1. CASE u # t
          BY <1>14, <3>1 DEF OnceInOrderFromOthers
    <3>2. CASE u = t /\ k = n + 1
      <4> HIDE DEF at, r
      <4>1. got'[u][k].slot.author # u
            BY <2>1, <2>3, <3>2
      <4>2. ASSUME NEW j \in 1 .. k - 1 PROVE got'[u][j].nr < got'[u][k].nr
        <5>1. j \in 1 .. n
              BY <2>2, <3>2
        <5> QED BY <1>13, <2>2, <2>3, <3>2, <5>1
      <4> QED BY <4>1, <4>2
    <3>3. CASE u = t /\ k \in 1 .. n
      <4> HIDE DEF at, r
      <4>1. got'[t][k] = got[t][k] /\ \A j \in 1 .. k - 1 : got'[t][j] = got[t][j]
            BY <2>2, <3>3
      <4> QED BY <2>2, <3>3, <4>1 DEF OnceInOrderFromOthers
    <3> QED BY <2>2, <3>1, <3>2, <3>3
  <2> QED BY <1>1, <1>4, <1>5, <2>4, <2>6, <2>7
<1> QED BY <1>15, <1>16

LEMMA ReceiveUnlockStep ==
    ASSUME IndInv, TypeOK', NEW t \in Thread, ReceiveUnlock(t)
    PROVE  IndInv'
<1> USE DEF IndInv
<1>1. Mutex'
      BY ThreadAssumption DEF ReceiveUnlock, Mutex, TypeOK
<1>2. \A u \in Thread : u # t => pc[u] = "idle"
      BY DEF ReceiveUnlock, Mutex
<1>3. \A i : Dist(i)' = Dist(i) /\ Ahead(i)' = Ahead(i)
      BY DistSame DEF ReceiveUnlock, poolVars
<1>4. SlotOrder'
      BY <1>3 DEF SlotOrder, ReceiveUnlock, history
<1>5. SlotContent'
  <2>1. \A u \in Thread : ~ Writing(u) /\ ~ Writing(u)' /\ pc'[u] # "advance"
        BY <1>2 DEF Writing, ReceiveUnlock, TypeOK
  <2> QED BY <2>1 DEF SlotContent, ReceiveUnlock, history, poolVars
<1>6. Readers'
  <2>1. \A u \in Thread : pc'[u] # "receive" /\ (pc[u] = "receive" <=> u = t)
        BY <1>2 DEF ReceiveUnlock, TypeOK
  <2>2. /\ got' = got /\ added' = added /\ addHereNext' = addHereNext
        /\ lastSeen'[t] = Pred(addHereNext) /\ seen'[t] = added
        /\ \A u \in Thread : u # t => lastSeen'[u] = lastSeen[u] /\ seen'[u] = seen[u]
        BY DEF ReceiveUnlock, history, poolVars, TypeOK
  <2>3. Dist(lastSeen[t])' = 0
    <3>1. Dist(lastSeen[t])' = Dist(Pred(addHereNext))
          BY <2>2 DEF Dist
    <3> QED BY <3>1, DistFacts DEF TypeOK
  <2>4. \A u \in Thread : u # t => Dist(lastSeen[u])' = Dist(lastSeen[u])
        BY <2>2 DEF Dist
  <2>5. Bound(t) = added /\ added \in Nat
    <3>1. Ahead(cursor[t]) = 0
          BY DistFacts DEF ReceiveUnlock, TypeOK
    <3> QED BY <3>1, <2>1 DEF Bound, TypeOK
  <2>6. \A u \in Thread : Bound(u)' = Bound(u)
        BY <2>1, <2>2, <2>5 DEF Bound
  <2> QED BY <2>1, <2>2, <2>3, <2>4, <2>5, <2>6 DEF Readers
<1>7. DeliversWhatWasSent' /\ OnceInOrderFromOthers'
      BY DEF DeliversWhatWasSent, OnceInOrderFromOthers, ReceiveUnlock, history
<1> QED BY <1>1, <1>4, <1>5, <1>6, <1>7

LEMMA IndStep == IndInv /\ [Next]_vars => IndInv'
<1> SUFFICES ASSUME IndInv, [Next]_vars PROVE IndInv'
    OBVIOUS
<1>1. TypeOK'
      BY TypeStep DEF IndInv
<1>2. ASSUME NEW t \in Thread, NEW it \in Item, AddLock(t, it) PROVE IndInv'
      BY <1>1, <1>2, AddLockStep
<1>3. ASSUME NEW t \in Thread, AddFill(t) PROVE IndInv'
      BY <1>1, <1>3, AddFillStep
<1>4. ASSUME NEW t \in Thread, AddUnlock(t) PROVE IndInv'
      BY <1>1, <1>4, AddUnlockStep
<1>5. ASSUME NEW t \in Thread, ReceiveLock(t) PROVE IndInv'
      BY <1>1, <1>5, ReceiveLockStep
<1>6. ASSUME NEW t \in Thread, ReceiveItem(t) PROVE IndInv'
      BY <1>1, <1>6, ReceiveItemStep
<1>7. ASSUME NEW t \in Thread, ReceiveUnlock(t) PROVE IndInv'
      BY <1>1, <1>7, ReceiveUnlockStep
<1>8. ASSUME UNCHANGED vars PROVE IndInv'
  <2> USE <1>8 DEF vars, poolVars, history, readVars
  <2>1. Mutex' /\ SlotOrder'
        BY DEF IndInv, Mutex, SlotOrder, Dist
  <2>2. SlotContent'
        BY DEF IndInv, SlotContent, Writing
  <2>3. Readers'
        BY DEF IndInv, Readers, Bound, Dist, Ahead
  <2>4. DeliversWhatWasSent' /\ OnceInOrderFromOthers'
        BY DEF IndInv, DeliversWhatWasSent, OnceInOrderFromOthers
  <2> QED BY <1>1, <2>1, <2>2, <2>3, <2>4 DEF IndInv
<1> QED BY <1>2, <1>3, <1>4, <1>5, <1>6, <1>7, <1>8 DEF Next

\* For every pool of at least two slots and any set of threads, receiveClauses
\* delivers only elements that were added, each with the author, the flags and
\* the literals of one addClause call.
THEOREM Delivery == Spec => []DeliversWhatWasSent
<1>1. IndInv => DeliversWhatWasSent
      BY DEF IndInv
<1> QED BY IndInit, IndStep, <1>1, PTL DEF Spec

\* A thread never receives an element twice, out of order or from itself, no
\* matter how often the writers lap it.
THEOREM OnceInOrder == Spec => []OnceInOrderFromOthers
<1>1. IndInv => OnceInOrderFromOthers
      BY DEF IndInv
<1> QED BY IndInit, IndStep, <1>1, PTL DEF Spec

-----------------------------------------------------------------------------
(* Nothing is taken that is stronger than what was sent. *)

\* What a thread keeps of a slot is what its filter leaves of it.
TakenAsFiltered ==
    \A t \in Thread : \A k \in DOMAIN got[t] :
        /\ got[t][k].slot \in Slot
        /\ got[t][k].taken = Taken(got[t][k].slot, Receivable[t])

LEMMA FilteredStep == TypeOK /\ TakenAsFiltered /\ [Next]_vars => TakenAsFiltered'
<1> SUFFICES ASSUME TypeOK, TakenAsFiltered, [Next]_vars PROVE TakenAsFiltered'
    OBVIOUS
<1>1. ASSUME got' = got PROVE TakenAsFiltered'
      BY <1>1 DEF TakenAsFiltered
<1>2. ASSUME NEW t \in Thread, ReceiveItem(t) PROVE TakenAsFiltered'
  <2> DEFINE r == [nr    |-> stamp[cursor[t]],
                   slot  |-> pool[cursor[t]],
                   taken |-> Taken(pool[cursor[t]], Receivable[t])]
  <2>1. got' = got \/ got' = [got EXCEPT ![t] = Append(got[t], r)]
        BY <1>2 DEF ReceiveItem
  <2>2. r.slot \in Slot /\ r.taken = Taken(r.slot, Receivable[t])
        BY DEF TypeOK
  <2> HIDE DEF r
  <2>3. CASE got' # got
    <3>1. got'[t] = Append(got[t], r) /\ \A u \in Thread : u # t => got'[u] = got[u]
          BY <2>1, <2>3 DEF TypeOK
    <3>2. \E S : got[t] \in Seq(S)
          BY DEF TypeOK
    <3>3. /\ DOMAIN got'[t] = 1 .. Len(got[t]) + 1 /\ DOMAIN got[t] = 1 .. Len(got[t])
          /\ got'[t][Len(got[t]) + 1] = r
          /\ \A k \in 1 .. Len(got[t]) : got'[t][k] = got[t][k]
          /\ Len(got[t]) \in Nat
          BY <3>1, <3>2, AppendProperties
    <3> SUFFICES ASSUME NEW u \in Thread, NEW k \in DOMAIN got'[u]
                 PROVE  /\ got'[u][k].slot \in Slot
                        /\ got'[u][k].taken = Taken(got'[u][k].slot, Receivable[u])
        BY DEF TakenAsFiltered
    <3>4. CASE u # t
          BY <3>1, <3>4 DEF TakenAsFiltered
    <3>5. CASE u = t /\ k = Len(got[t]) + 1
          BY <2>2, <3>3, <3>5
    <3>6. CASE u = t /\ k \in 1 .. Len(got[t])
          BY <3>3, <3>6 DEF TakenAsFiltered
    <3> QED BY <3>3, <3>4, <3>5, <3>6
  <2> QED BY <1>1, <2>3
<1> QED BY <1>1, <1>2
       DEF Next, vars, readVars, AddLock, AddFill, AddUnlock, ReceiveLock, ReceiveUnlock

\* A receiver never gets a shared fact in a stronger form: clauses arrive whole,
\* units are units that were sent, classes lose literals only.
THEOREM NothingStronger == Spec => []TakesNothingStronger
<1>1. Init => TakenAsFiltered
      BY DEF Init, TakenAsFiltered
<1>2. IndInv => TypeOK
      BY DEF IndInv
<1>3. IndInv /\ TakenAsFiltered => TakesNothingStronger
  <2> SUFFICES ASSUME IndInv, TakenAsFiltered,
                      NEW t \in Thread, NEW k \in DOMAIN got[t], NEW g \in got[t][k].taken
               PROVE  LET orig == sent[got[t][k].nr] IN
                      /\ g \subseteq Receivable[t]
                      /\ orig.kind = "clause"      => g = orig.data
                      /\ orig.kind = "multiunits"  => \E l \in orig.data : g = {l}
                      /\ orig.kind = "equivalence" => g \subseteq orig.data /\ Cardinality(g) # 1
      BY DEF TakesNothingStronger
  <2> DEFINE orig == sent[got[t][k].nr]
  <2>1. orig \in Slot /\ g \in Taken(orig, Receivable[t])
        BY DEF IndInv, DeliversWhatWasSent, TakenAsFiltered
  <2> HIDE DEF orig
  <2>2. orig.kind \in Kind
        BY <2>1 DEF Slot
  <2>3. ASSUME orig.kind = "clause"
        PROVE  g = orig.data /\ g \subseteq Receivable[t]
        BY <2>1, <2>3 DEF Taken
  <2>4. ASSUME orig.kind = "multiunits"
        PROVE  \E l \in orig.data : g = {l} /\ g \subseteq Receivable[t]
        BY <2>1, <2>4 DEF Taken
  <2>5. ASSUME orig.kind = "equivalence"
        PROVE  g \subseteq orig.data /\ g \subseteq Receivable[t] /\ Cardinality(g) # 1
        BY <2>1, <2>5 DEF Taken
  <2> QED BY <2>2, <2>3, <2>4, <2>5 DEF Kind, orig
<1> QED BY <1>1, <1>2, <1>3, IndInit, IndStep, FilteredStep, PTL DEF Spec

-----------------------------------------------------------------------------
(* The proof counts the clauses of the pool. *)

\* The proof master is attached to the buffer of the clauses only, unit sets and
\* classes have a buffer of their own.  It is enough that no clause has the same
\* literals as one of those: addClause would delete these as if they were one.
KindsApart ==
    \A it, other \in Item :
        it.kind = "clause" /\ other.kind # "clause" => it.lits # other.lits

ClauseLits == {it.lits : it \in {it \in Item : it.kind = "clause"}}

\* Slots that hold the clause, of which the proof has one copy each.
Held(c) == {i \in Index : /\ ~ BeingWritten(i)
                          /\ pool[i].kind = "clause"
                          /\ pool[i].data = c}

\* What is in the slots was given to addClause, as what it is kept.
PoolOfItems ==
    /\ \A i \in Index : ~ BeingWritten(i) /\ pool[i].data # {} =>
          [kind |-> pool[i].kind, lits |-> pool[i].data] \in Item
    /\ \A t \in Thread : pc[t] = "fill" =>
          [kind |-> adding[t].kind, lits |-> adding[t].data] \in Item

ProofCounts == HasProof => \A c \in ClauseLits : proof[c] >= Cardinality(Held(c))

LEMMA HeldFinite ==
    ASSUME NEW c
    PROVE  IsFiniteSet(Held(c)) /\ Cardinality(Held(c)) \in Nat
<1>1. IsFiniteSet(Index)
      BY FS_Interval, PoolSizeAssumption DEF Index
<1>2. Held(c) \subseteq Index
      BY DEF Held
<1>3. IsFiniteSet(Held(c))
      BY <1>1, <1>2, FS_Subset
<1> QED BY <1>3, FS_CardinalityType

LEMMA ClauseLitsType ==
    ASSUME NEW c \in ClauseLits
    PROVE  c \in SUBSET Lit /\ c # {}
BY ItemAssumption DEF ClauseLits

\* Nobody writes: who fills holds the lock.
LEMMA NobodyFills ==
    ASSUME Mutex, \/ dataLock = NoThread
                  \/ \E t \in Thread : pc[t] \in {"advance", "receive"}
    PROVE  /\ \A t \in Thread : pc[t] # "fill"
           /\ \A i : ~ BeingWritten(i)
BY ThreadAssumption DEF Mutex, BeingWritten

LEMMA CountInit == Init => PoolOfItems /\ ProofCounts
<1> SUFFICES ASSUME Init PROVE PoolOfItems /\ ProofCounts
    OBVIOUS
<1>1. \A i \in Index : pool[i].data = {}
      BY DEF Init, EmptySlot
<1>2. PoolOfItems
      BY <1>1 DEF Init, PoolOfItems
<1>3. ASSUME NEW c \in ClauseLits PROVE proof[c] = 0 /\ Held(c) = {}
      BY <1>1, ClauseLitsType DEF Init, Held
<1>4. ProofCounts
      BY <1>3, FS_EmptySet DEF ProofCounts
<1> QED BY <1>2, <1>4

\* Before a slot is overwritten its clause leaves the proof.
LEMMA AddLockCounts ==
    ASSUME IndInv, PoolOfItems, ProofCounts, HasProof => KindsApart,
           NEW t \in Thread, NEW it \in Item, AddLock(t, it)
    PROVE  PoolOfItems' /\ ProofCounts'
<1> DEFINE h == addHereNext
<1>1. TypeOK /\ Mutex /\ h \in Index /\ pool[h] \in Slot
      BY DEF IndInv, TypeOK
<1>2. (\A u \in Thread : pc[u] # "fill") /\ \A i : ~ BeingWritten(i)
      BY <1>1, NobodyFills DEF AddLock, LockFree
<1>3. \A i \in Index : BeingWritten(i)' <=> i = h
      BY <1>1, <1>2 DEF BeingWritten, AddLock, TypeOK
<1>4. \A i \in Index : i # h => pool'[i] = pool[i]
      BY <1>1 DEF AddLock, TypeOK
<1>5. PoolOfItems'
  <2>1. adding'[t].kind = it.kind /\ adding'[t].data = it.lits
        BY <1>1 DEF AddLock, TypeOK
  <2>2. it = [kind |-> it.kind, lits |-> it.lits]
        BY ItemAssumption
  <2>3. \A u \in Thread : pc'[u] = "fill" => u = t
        BY <1>1, <1>2 DEF AddLock, TypeOK
  <2>4. \A i \in Index : ~ BeingWritten(i)' /\ pool'[i].data # {} =>
           [kind |-> pool'[i].kind, lits |-> pool'[i].data] \in Item
        BY <1>2, <1>3, <1>4 DEF PoolOfItems
  <2> QED BY <2>1, <2>2, <2>3, <2>4 DEF PoolOfItems
<1>6. ASSUME HasProof, NEW c \in ClauseLits PROVE proof'[c] >= Cardinality(Held(c)')
  <2>1. Held(c)' = Held(c) \ {h}
        BY <1>2, <1>3, <1>4 DEF Held
  <2>2. c \in SUBSET Lit /\ c # {} /\ proof[c] \in Int /\ Cardinality(Held(c)) \in Nat
        BY <1>1, ClauseLitsType, HeldFinite DEF TypeOK
  <2>3. proof[c] >= Cardinality(Held(c))
        BY <1>6 DEF ProofCounts
  <2>4. proof'[c] = IF c = pool[h].data THEN proof[c] - 1 ELSE proof[c]
        BY <1>6, <2>2 DEF AddLock, InProof
  <2>5. CASE h \in Held(c)
    <3>1. c = pool[h].data
          BY <2>5 DEF Held
    <3>2. Cardinality(Held(c)') = Cardinality(Held(c)) - 1
          BY <2>1, <2>5, HeldFinite, FS_RemoveElement
    <3> QED BY <2>2, <2>3, <2>4, <3>1, <3>2
  <2>6. CASE h \notin Held(c)
    <3>1. Held(c)' = Held(c)
          BY <2>1, <2>6
    <3>2. c # pool[h].data
      <4> SUFFICES ASSUME c = pool[h].data PROVE FALSE
          OBVIOUS
      <4>1. pool[h].kind # "clause"
            BY <1>1, <1>2, <2>6 DEF Held
      <4>2. [kind |-> pool[h].kind, lits |-> c] \in Item
            BY <1>1, <1>2, <2>2 DEF PoolOfItems
      <4>3. PICK cl \in Item : cl.kind = "clause" /\ cl.lits = c
            BY DEF ClauseLits
      <4> QED BY <1>6, <4>1, <4>2, <4>3 DEF KindsApart
    <3> QED BY <2>3, <2>4, <3>1, <3>2
  <2> QED BY <2>5, <2>6
<1>7. ProofCounts'
      BY <1>6 DEF ProofCounts
<1> QED BY <1>5, <1>7

\* The clause that is written enters the proof with its literals.
LEMMA AddFillCounts ==
    ASSUME IndInv, PoolOfItems, ProofCounts, NEW t \in Thread, AddFill(t)
    PROVE  PoolOfItems' /\ ProofCounts'
<1> DEFINE h == addHereNext
<1>1. TypeOK /\ Mutex /\ h \in Index /\ pool[h] \in Slot /\ adding[t] \in Slot
      BY DEF IndInv, TypeOK
<1>2. /\ \A u \in Thread : pc[u] = "fill" <=> u = t
      /\ \A u \in Thread : pc'[u] # "fill"
      BY <1>1 DEF AddFill, Mutex, TypeOK
<1>3. \A i \in Index : (BeingWritten(i) <=> i = h) /\ ~ BeingWritten(i)'
      BY <1>2 DEF BeingWritten
<1>4. \A i \in Index : i # h => pool'[i] = pool[i]
      BY <1>1 DEF AddFill, TypeOK
<1>5. pool'[h].kind = adding[t].kind /\ pool'[h].data = adding[t].data
  <2>1. pool[h].kind = adding[t].kind
        BY <1>2 DEF IndInv, SlotContent, Writing
  <2> QED BY <1>1, <2>1 DEF AddFill, TypeOK, Slot
<1>6. [kind |-> adding[t].kind, lits |-> adding[t].data] \in Item
      BY <1>2 DEF PoolOfItems
<1>7. PoolOfItems'
  <2>1. \A i \in Index : pool'[i].data # {} =>
           [kind |-> pool'[i].kind, lits |-> pool'[i].data] \in Item
    <3> SUFFICES ASSUME NEW i \in Index, pool'[i].data # {}
                 PROVE  [kind |-> pool'[i].kind, lits |-> pool'[i].data] \in Item
        OBVIOUS
    <3>1. CASE i = h
          BY <1>5, <1>6, <3>1
    <3>2. CASE i # h
          BY <1>3, <1>4, <3>2 DEF PoolOfItems
    <3> QED BY <3>1, <3>2
  <2> QED BY <1>2, <2>1 DEF PoolOfItems
<1>8. ASSUME HasProof, NEW c \in ClauseLits PROVE proof'[c] >= Cardinality(Held(c)')
  <2>1. c \in SUBSET Lit /\ proof[c] \in Int /\ Cardinality(Held(c)) \in Nat
        BY <1>1, ClauseLitsType, HeldFinite DEF TypeOK
  <2>2. proof[c] >= Cardinality(Held(c))
        BY <1>8 DEF ProofCounts
  <2>3. proof'[c] = IF c \in ProofClauses(adding[t]) THEN proof[c] + 1 ELSE proof[c]
        BY <1>8, <2>1 DEF AddFill, InProof
  <2>4. h \notin Held(c)
        BY <1>1, <1>3 DEF Held
  <2>5. CASE adding[t].kind = "clause" /\ adding[t].data = c
    <3>1. Held(c)' = Held(c) \cup {h}
          BY <1>1, <1>3, <1>4, <1>5, <2>5 DEF Held
    <3>2. Cardinality(Held(c)') = Cardinality(Held(c)) + 1
          BY <2>4, <3>1, HeldFinite, FS_AddElement
    <3>3. c \in ProofClauses(adding[t])
          BY <2>5 DEF ProofClauses
    <3> QED BY <2>1, <2>2, <2>3, <3>2, <3>3
  <2>6. CASE ~ (adding[t].kind = "clause" /\ adding[t].data = c)
    <3>1. Held(c)' = Held(c)
          BY <1>1, <1>3, <1>4, <1>5, <2>6 DEF Held
    <3> QED BY <2>1, <2>2, <2>3, <3>1
  <2> QED BY <2>5, <2>6
<1>9. ProofCounts'
      BY <1>8 DEF ProofCounts
<1> QED BY <1>7, <1>9

\* The other steps leave the literals in the pool and the proof alone.
LEMMA OthersCount ==
    ASSUME IndInv, PoolOfItems, ProofCounts,
           \/ UNCHANGED vars
           \/ \E t \in Thread : \/ AddUnlock(t)     \/ ReceiveLock(t)
                                \/ ReceiveItem(t)   \/ ReceiveUnlock(t)
    PROVE  PoolOfItems' /\ ProofCounts'
<1>1. TypeOK /\ Mutex
      BY DEF IndInv
<1>2. pool' = pool /\ proof' = proof /\ adding' = adding
      BY DEF AddUnlock, ReceiveLock, ReceiveItem, ReceiveUnlock, vars, poolVars
<1>3. \A u \in Thread : pc'[u] = "fill" <=> pc[u] = "fill"
      BY <1>1 DEF AddUnlock, ReceiveLock, ReceiveItem, ReceiveUnlock, vars, TypeOK
<1>4. \A i \in Index : BeingWritten(i)' <=> BeingWritten(i)
  <2>1. CASE \E t \in Thread : AddUnlock(t)
    <3>1. \A u \in Thread : pc[u] # "fill"
          BY <1>1, <2>1, NobodyFills DEF AddUnlock
    <3> QED BY <1>3, <3>1 DEF BeingWritten
  <2>2. CASE addHereNext' = addHereNext
        BY <1>3, <2>2 DEF BeingWritten
  <2> QED BY <2>1, <2>2 DEF ReceiveLock, ReceiveItem, ReceiveUnlock, vars, poolVars
<1>5. PoolOfItems'
      BY <1>2, <1>3, <1>4 DEF PoolOfItems
<1>6. \A c : Held(c)' = Held(c)
      BY <1>2, <1>4 DEF Held
<1>7. ProofCounts'
      BY <1>2, <1>6 DEF ProofCounts
<1> QED BY <1>5, <1>7

\* Of every clause the global proof has at least as many copies as the pool, so
\* that what a receiver derives from a received clause can be checked.
THEOREM ProofHasThePool ==
    ASSUME HasProof => KindsApart
    PROVE  Spec => []PooledClausesAreInProof
<1> DEFINE CInv == IndInv /\ PoolOfItems /\ ProofCounts
<1>1. Init => CInv
      BY CountInit, IndInit
<1>2. CInv /\ [Next]_vars => CInv'
  <2> SUFFICES ASSUME IndInv, PoolOfItems, ProofCounts, [Next]_vars
               PROVE  PoolOfItems' /\ ProofCounts'
      BY IndStep
  <2>1. ASSUME NEW t \in Thread, NEW it \in Item, AddLock(t, it)
        PROVE  PoolOfItems' /\ ProofCounts'
        BY <2>1, AddLockCounts
  <2>2. ASSUME NEW t \in Thread, AddFill(t) PROVE PoolOfItems' /\ ProofCounts'
        BY <2>2, AddFillCounts
  <2> QED BY <2>1, <2>2, OthersCount DEF Next
<1>3. CInv => PooledClausesAreInProof
  <2> SUFFICES ASSUME IndInv, PoolOfItems, ProofCounts, HasProof,
                      NEW c \in SUBSET Lit, c # {}, Copies(c) > 0
               PROVE  proof[c] >= Copies(c)
      BY DEF PooledClausesAreInProof
  <2> DEFINE S == {i \in Index : /\ stamp[i] # 0
                                 /\ ~ BeingWritten(i)
                                 /\ pool[i].kind = "clause"
                                 /\ pool[i].data = c}
  <2>1. S \subseteq Held(c) /\ Copies(c) = Cardinality(S)
        BY DEF Held, Copies
  <2> HIDE DEF S
  <2>2. Cardinality(S) <= Cardinality(Held(c)) /\ Cardinality(S) \in Nat
    <3>1. IsFiniteSet(S)
          BY <2>1, HeldFinite, FS_Subset
    <3> QED BY <2>1, <3>1, HeldFinite, FS_Subset, FS_CardinalityType
  <2>3. PICK i \in Held(c) : TRUE
    <3>1. S # {}
          BY <2>1, FS_EmptySet
    <3> QED BY <2>1, <3>1
  <2>4. [kind |-> "clause", lits |-> c] \in Item
        BY <2>3 DEF Held, PoolOfItems
  <2>5. c \in ClauseLits
        BY <2>4 DEF ClauseLits
  <2>6. proof[c] >= Cardinality(Held(c)) /\ proof[c] \in Int /\ Cardinality(Held(c)) \in Nat
        BY <2>5, HeldFinite DEF ProofCounts, IndInv, TypeOK
  <2> QED BY <2>1, <2>2, <2>6
<1> QED BY <1>1, <1>2, <1>3, PTL DEF Spec

-----------------------------------------------------------------------------
(* Only whole laps are lost. *)

\* A multiple of p other than 0 is at least p away from 0.
LEMMA Multiples ==
    ASSUME NEW p \in Nat, p >= 1, NEW k \in Int
    PROVE  (k >= 1 => p * k >= p) /\ (k <= -1 => p * k <= -p)
OBVIOUS

\* Quotient and remainder are determined by the sum they give.
LEMMA DivisionUnique ==
    ASSUME NEW p \in Nat, p >= 1, NEW q \in Int, NEW s \in Int,
           NEW r \in 0 .. p - 1, NEW u \in 0 .. p - 1, p * q + r = p * s + u
    PROVE  r = u
<1>1. p * (q - s) = u - r /\ q - s \in Int
      OBVIOUS
<1>2. (q - s >= 1 => p * (q - s) >= p) /\ (q - s <= -1 => p * (q - s) <= -p)
      BY <1>1, Multiples
<1>3. q = s
      BY <1>1, <1>2
<1> QED BY <1>1, <1>3

\* Counting on, a remainder goes round.
LEMMA NextRemainder ==
    ASSUME NEW n \in Nat, NEW p \in Nat, p >= 1
    PROVE  (n + 1) % p = IF n % p = p - 1 THEN 0 ELSE (n % p) + 1
<1> DEFINE q == n \div p
           r == n % p
           s == (n + 1) \div p
           u == (n + 1) % p
           v == r + 1
<1>1. n = p * q + r /\ r \in 0 .. p - 1 /\ q \in Int
      OBVIOUS
<1>2. n + 1 = p * s + u /\ u \in 0 .. p - 1 /\ s \in Int
      OBVIOUS
<1> HIDE DEF q, r, s, u
<1>3. CASE r = p - 1
  <2>1. p * (q + 1) + 0 = p * s + u /\ q + 1 \in Int /\ 0 \in 0 .. p - 1
        BY <1>1, <1>2, <1>3
  <2>2. u = 0
        BY <1>2, <2>1, DivisionUnique
  <2> QED BY <1>3, <2>2 DEF r, u
<1>4. CASE r # p - 1
  <2>1. p * q + v = p * s + u /\ v \in 0 .. p - 1
        BY <1>1, <1>2, <1>4
  <2> HIDE DEF v
  <2>2. u = v
        BY <1>1, <1>2, <2>1, DivisionUnique
  <2> QED BY <1>4, <2>2 DEF r, u, v
<1> QED BY <1>3, <1>4

\* The place a reader saw last tells how many elements came since, up to laps.
Laps == \A t \in Thread : Dist(lastSeen[t]) = (added - seen[t]) % PoolSize

\* What a reader has taken in this call: the elements of others from the slot
\* it began with to the one before its loop index.
Window ==
    \A t \in Thread : pc[t] = "receive" =>
        Received(t, got[t]) \cap (seen[t] + 1 .. added)
          = Foreign(t, added - Dist(lastSeen[t]) + 1, added - Ahead(cursor[t]))

LEMMA LapsInit == Init => Laps /\ Window
<1> SUFFICES ASSUME Init PROVE Laps /\ Window
    OBVIOUS
<1>1. Dist(0) = 0
      BY PoolSizeAssumption DEF Init, Dist
<1>2. 0 % PoolSize = 0
      BY PoolSizeAssumption
<1> QED BY <1>1, <1>2 DEF Init, Laps, Window

\* An element more is a step more or a lap.
LEMMA AddUnlockLaps ==
    ASSUME IndInv, Laps, NEW t \in Thread, AddUnlock(t)
    PROVE  Laps'
<1> SUFFICES ASSUME NEW u \in Thread
             PROVE  Dist(lastSeen[u])' = (added' - seen'[u]) % PoolSize
    BY DEF Laps
<1>1. PICK i \in Index : i = lastSeen[u]
      BY DEF IndInv, TypeOK
<1>2. /\ lastSeen'[u] = i /\ seen'[u] = seen[u] /\ added' = added + 1
      /\ addHereNext \in Index /\ addHereNext' = Succ(addHereNext)
      BY <1>1 DEF AddUnlock, readVars, IndInv, TypeOK
<1>3. Dist(i)' = IF i = addHereNext THEN 0 ELSE Dist(i) + 1
      BY <1>2, DistAdvance
<1>4. Dist(i) = PoolSize - 1 <=> i = addHereNext
      BY <1>2, PoolSizeAssumption DEF Dist, Index
<1>5. PICK n \in Nat : n = added - seen[u]
  <2>1. Dist(i) \in Nat /\ Dist(i) <= added - seen[u]
        BY <1>1, <1>2, DistFacts, PoolSizeAssumption DEF IndInv, Readers
  <2> QED BY <2>1 DEF IndInv, TypeOK
<1>6. Dist(i) = n % PoolSize
      BY <1>1, <1>5 DEF Laps
<1>7. (n + 1) % PoolSize = IF n % PoolSize = PoolSize - 1 THEN 0 ELSE (n % PoolSize) + 1
  <2>1. PoolSize \in Nat /\ PoolSize >= 1
        BY PoolSizeAssumption
  <2> QED BY <2>1, NextRemainder, Zenon
<1>8. Dist(lastSeen[u])' = Dist(i)'
      BY <1>2 DEF Dist
<1>9. added' - seen'[u] = n + 1
      BY <1>2, <1>5 DEF IndInv, TypeOK
<1> QED BY <1>3, <1>4, <1>6, <1>7, <1>8, <1>9

\* A call ends at the element that was added last.
LEMMA ReceiveUnlockLaps ==
    ASSUME IndInv, Laps, NEW t \in Thread, ReceiveUnlock(t)
    PROVE  Laps'
<1> SUFFICES ASSUME NEW u \in Thread
             PROVE  Dist(lastSeen[u])' = (added' - seen'[u]) % PoolSize
    BY DEF Laps
<1>1. TypeOK /\ added' = added /\ addHereNext' = addHereNext
      BY DEF IndInv, ReceiveUnlock, poolVars, history
<1>2. CASE u = t
  <2>1. lastSeen'[u] = Pred(addHereNext) /\ seen'[u] = added
        BY <1>1, <1>2 DEF ReceiveUnlock, TypeOK
  <2>2. Dist(lastSeen[u])' = Dist(Pred(addHereNext))
        BY <1>1, <2>1 DEF Dist
  <2>3. 0 % PoolSize = 0
        BY PoolSizeAssumption
  <2> QED BY <1>1, <2>1, <2>2, <2>3, DistFacts DEF TypeOK
<1>3. CASE u # t
  <2>1. lastSeen'[u] = lastSeen[u] /\ seen'[u] = seen[u]
        BY <1>1, <1>3 DEF ReceiveUnlock, TypeOK
  <2> QED BY <1>1, <2>1 DEF Laps, Dist
<1> QED BY <1>2, <1>3

\* A reader that takes its lock has taken nothing of the new elements yet.
LEMMA ReceiveLockWindow ==
    ASSUME IndInv, NEW t \in Thread, ReceiveLock(t)
    PROVE  Window'
<1> SUFFICES ASSUME NEW u \in Thread, pc'[u] = "receive"
             PROVE  Received(u, got'[u]) \cap (seen'[u] + 1 .. added') =
                    Foreign(u, added - Dist(lastSeen[u]) + 1, added - Ahead(cursor[u]))'
    BY DEF Window
<1>1. TypeOK /\ Mutex
      BY DEF IndInv
<1>2. u = t /\ pc[t] = "idle"
      BY <1>1, ThreadAssumption DEF ReceiveLock, LockFree, Mutex, TypeOK
<1>3. /\ got' = got /\ seen' = seen /\ added' = added /\ sent' = sent
      /\ lastSeen' = lastSeen /\ cursor'[t] = Succ(lastSeen[t])
      /\ addHereNext' = addHereNext
      BY <1>1 DEF ReceiveLock, history, poolVars, TypeOK
<1>4. Received(t, got[t]) \cap (seen[t] + 1 .. added) = {}
  <2> SUFFICES ASSUME NEW k \in DOMAIN got[t], got[t][k].nr \in seen[t] + 1 .. added
               PROVE  FALSE
      BY DEF Received
  <2>1. got[t][k].nr <= seen[t] /\ got[t][k].nr \in Nat /\ seen[t] \in Nat
        BY <1>1, <1>2, GotNumbers DEF IndInv, Readers, Bound, TypeOK
  <2> QED BY <2>1
<1>5. /\ Dist(lastSeen[t])' = Dist(lastSeen[t])
      /\ Ahead(cursor[t])' = Dist(lastSeen[t])
      /\ Dist(lastSeen[t]) \in Int /\ added \in Nat
  <2>1. lastSeen[t] \in Index /\ addHereNext \in Index
        BY <1>1 DEF TypeOK
  <2>2. Ahead(Succ(lastSeen[t])) = Dist(lastSeen[t]) /\ Dist(lastSeen[t]) \in Int
        BY <2>1, DistFacts
  <2> QED BY <1>1, <1>3, <2>2 DEF Dist, Ahead, TypeOK
<1>6. Foreign(t, added - Dist(lastSeen[t]) + 1, added - Ahead(cursor[t]))' = {}
      BY <1>3, <1>5 DEF Foreign
<1> QED BY <1>2, <1>3, <1>4, <1>6

\* A round of its loop extends the window by one element.
LEMMA ReceiveItemWindow ==
    ASSUME IndInv, Window, NEW t \in Thread, ReceiveItem(t)
    PROVE  Window'
<1> SUFFICES ASSUME NEW u \in Thread, pc'[u] = "receive"
             PROVE  Received(u, got'[u]) \cap (seen'[u] + 1 .. added') =
                    Foreign(u, added - Dist(lastSeen[u]) + 1, added - Ahead(cursor[u]))'
    BY DEF Window
<1> DEFINE at    == cursor[t]
           nr    == stamp[at]
           first == added - Dist(lastSeen[t]) + 1
<1>1. TypeOK /\ Mutex
      BY DEF IndInv
<1>2. u = t /\ pc[t] = "receive"
      BY <1>1 DEF ReceiveItem, Mutex
<1>3. /\ seen' = seen /\ added' = added /\ sent' = sent /\ lastSeen' = lastSeen
      /\ cursor'[t] = Succ(at) /\ addHereNext' = addHereNext
      BY <1>1 DEF ReceiveItem, StepCursor, history, poolVars, TypeOK
<1>4. SlotRead(t)
      BY ReaderFacts DEF ReceiveItem
<1>5. nr \in seen[t] + 1 .. added /\ first <= nr /\ nr = added - Ahead(at) + 1
      /\ seen[t] \in Nat /\ added \in Nat /\ first \in Int
  <2> DEFINE i == lastSeen[t]
             j == cursor[t]
  <2>1. seen[t] \in Nat /\ added \in Nat
        BY <1>1 DEF TypeOK
  <2>2. /\ Dist(j) \in Nat /\ Ahead(j) = Dist(j) + 1 /\ Dist(i) \in Nat
        /\ Ahead(j) <= Dist(i) /\ Dist(i) <= added - seen[t]
        /\ nr = added - Dist(j)
        BY <1>4 DEF SlotRead
  <2> HIDE DEF i, j, nr
  <2> QED BY <2>1, <2>2 DEF i, j
<1>6. /\ Dist(lastSeen[t])' = Dist(lastSeen[t])
      /\ Ahead(cursor[t])' = Dist(at)
      /\ added - Dist(at) = nr
      BY <1>3, <1>4 DEF Dist, Ahead, SlotRead
<1>7. Foreign(t, first, nr)
        = Foreign(t, first, nr - 1) \cup {n \in {nr} : sent[n].author # t}
      BY <1>5 DEF Foreign
<1>8. Foreign(u, added - Dist(lastSeen[u]) + 1, added - Ahead(cursor[u]))' = Foreign(t, first, nr)
      BY <1>2, <1>3, <1>6 DEF Foreign
<1>9. Received(t, got[t]) \cap (seen[t] + 1 .. added) = Foreign(t, first, nr - 1)
  <2>1. added - Ahead(at) = nr - 1
        BY <1>4, <1>5 DEF SlotRead
  <2> QED BY <1>2, <2>1 DEF Window
<1>10. pool[at].author = sent[nr].author
       BY <1>4 DEF SlotRead
<1>11. CASE Own(t, pool[at])
  <2>1. got' = got
        BY <1>11 DEF ReceiveItem
  <2>2. {n \in {nr} : sent[n].author # t} = {}
        BY <1>10, <1>11 DEF Own
  <2> QED BY <1>2, <1>3, <1>7, <1>8, <1>9, <2>1, <2>2
<1>12. CASE ~ Own(t, pool[at])
  <2> DEFINE r == [nr |-> nr, slot |-> pool[at], taken |-> Taken(pool[at], Receivable[t])]
  <2>1. got'[t] = Append(got[t], r)
        BY <1>1, <1>12 DEF ReceiveItem, TypeOK
  <2>2. r.nr = nr
        OBVIOUS
  <2>3. \E S : got[t] \in Seq(S)
        BY <1>1 DEF TypeOK
  <2> HIDE DEF r
  <2>4. /\ DOMAIN got'[t] = DOMAIN got[t] \cup {Len(got[t]) + 1}
        /\ Len(got[t]) + 1 \notin DOMAIN got[t]
        /\ got'[t][Len(got[t]) + 1] = r
        /\ \A k \in DOMAIN got[t] : got'[t][k] = got[t][k]
        BY <2>1, <2>3, AppendProperties
  <2>5. Received(t, got'[t]) = Received(t, got[t]) \cup {nr}
        BY <2>2, <2>4 DEF Received
  <2>6. {n \in {nr} : sent[n].author # t} = {nr}
        BY <1>10, <1>12 DEF Own
  <2> QED BY <1>2, <1>3, <1>5, <1>7, <1>8, <1>9, <2>5, <2>6
<1> QED BY <1>11, <1>12

LEMMA LapsStep == IndInv /\ Laps /\ Window /\ [Next]_vars => Laps' /\ Window'
<1> SUFFICES ASSUME IndInv, Laps, Window, [Next]_vars PROVE Laps' /\ Window'
    OBVIOUS
<1>1. TypeOK /\ Mutex
      BY DEF IndInv
<1>2. ASSUME UNCHANGED <<addHereNext, lastSeen, seen, added>> PROVE Laps'
      BY <1>2 DEF Laps, Dist
<1>3. ASSUME \A u \in Thread : pc'[u] # "receive" PROVE Window'
      BY <1>3 DEF Window
<1>4. ASSUME NEW t \in Thread, NEW it \in Item, AddLock(t, it) PROVE Laps' /\ Window'
  <2>1. \A u \in Thread : pc'[u] # "receive"
        BY <1>1, <1>4, ThreadAssumption DEF AddLock, LockFree, Mutex, TypeOK
  <2> QED BY <1>2, <1>3, <1>4, <2>1 DEF AddLock, history, readVars
<1>5. ASSUME NEW t \in Thread, AddFill(t) PROVE Laps' /\ Window'
  <2>1. \A u \in Thread : pc'[u] # "receive"
        BY <1>1, <1>5 DEF AddFill, Mutex, TypeOK
  <2> QED BY <1>2, <1>3, <1>5, <2>1 DEF AddFill, history, readVars
<1>6. ASSUME NEW t \in Thread, AddUnlock(t) PROVE Laps' /\ Window'
  <2>1. \A u \in Thread : pc'[u] # "receive"
        BY <1>1, <1>6 DEF AddUnlock, Mutex, TypeOK
  <2> QED BY <1>3, <1>6, <2>1, AddUnlockLaps
<1>7. ASSUME NEW t \in Thread, ReceiveLock(t) PROVE Laps' /\ Window'
      BY <1>2, <1>7, ReceiveLockWindow DEF ReceiveLock, history, poolVars
<1>8. ASSUME NEW t \in Thread, ReceiveItem(t) PROVE Laps' /\ Window'
      BY <1>2, <1>8, ReceiveItemWindow DEF ReceiveItem, history, poolVars
<1>9. ASSUME NEW t \in Thread, ReceiveUnlock(t) PROVE Laps' /\ Window'
  <2>1. \A u \in Thread : pc'[u] # "receive"
        BY <1>1, <1>9 DEF ReceiveUnlock, Mutex, TypeOK
  <2> QED BY <1>3, <1>9, <2>1, ReceiveUnlockLaps
<1>10. ASSUME UNCHANGED vars PROVE Laps' /\ Window'
  <2> USE <1>10 DEF vars, poolVars, history, readVars
  <2>1. Laps'
        BY <1>2
  <2>2. Window'
        BY DEF Window, Received, Foreign, Dist, Ahead
  <2> QED BY <2>1, <2>2
<1> QED BY <1>4, <1>5, <1>6, <1>7, <1>8, <1>9, <1>10 DEF Next

\* A reader misses elements of others only in whole laps of the writers, the
\* oldest ones; with fewer new elements than slots it misses none.
THEOREM WholeLapsOnly == Spec => LosesWholeLapsOnly
<1> DEFINE LInv == IndInv /\ Laps /\ Window
           Missed == \A t \in Thread :
                        seen'[t] # seen[t] =>
                           LET fresh == (added - seen[t]) % PoolSize IN
                           Received(t, got[t]) \cap (seen[t] + 1 .. added)
                             = Foreign(t, added - fresh + 1, added)
<1>1. Init => LInv
      BY IndInit, LapsInit
<1>2. LInv /\ [Next]_vars => LInv'
      BY IndStep, LapsStep
<1>3. LInv /\ [Next]_vars => [Missed]_vars
  <2> SUFFICES ASSUME IndInv, Laps, Window, Next,
                      NEW t \in Thread, seen'[t] # seen[t]
               PROVE  Received(t, got[t]) \cap (seen[t] + 1 .. added)
                        = Foreign(t, added - ((added - seen[t]) % PoolSize) + 1, added)
      OBVIOUS
  <2>1. ReceiveUnlock(t)
    <3>1. PICK u \in Thread : ReceiveUnlock(u)
          BY DEF Next, AddLock, AddFill, AddUnlock, ReceiveLock, ReceiveItem, readVars
    <3> QED BY <3>1 DEF ReceiveUnlock, IndInv, TypeOK
  <2>2. Ahead(cursor[t]) = 0 /\ added \in Nat
        BY <2>1, DistFacts DEF ReceiveUnlock, IndInv, TypeOK
  <2>3. added - Ahead(cursor[t]) = added
        BY <2>2
  <2>4. Dist(lastSeen[t]) = (added - seen[t]) % PoolSize
        BY DEF Laps
  <2> QED BY <2>1, <2>3, <2>4 DEF Window, ReceiveUnlock
<1> QED BY <1>1, <1>2, <1>3, PTL DEF Spec, LosesWholeLapsOnly

=============================================================================
