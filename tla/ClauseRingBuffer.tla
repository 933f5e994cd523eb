-------------------------- MODULE ClauseRingBuffer --------------------------
(***************************************************************************)
(* The pool through which the solvers of a portfolio share clauses, sets   *)
(* of unit clauses and classes of equivalent literals:                     *)
(* riss/core/Communication.h, class ClauseRingBuffer.                      *)
(*                                                                         *)
(* A thread that adds an element overwrites the slot addHereNext; a thread *)
(* that receives walks from the slot behind the one it saw last up to      *)
(* addHereNext and keeps what others wrote.  Both hold dataLock, but they  *)
(* touch the pool in several steps, and these steps are actions here: what *)
(* the lock is for shows only when the steps of two threads meet.          *)
(*                                                                         *)
(* Positions in the pool are reused, so the model numbers the elements in  *)
(* the order of their adding (added, stamp) and remembers what each one    *)
(* was (sent) and what every receiver took (got): these four variables are *)
(* history, the program has no counterpart of them.                        *)
(***************************************************************************)
EXTENDS Integers, Sequences, FiniteSets

CONSTANTS
    Thread,         \* the solver threads, by their communicator's id
    Lit,            \* literals
    Item,           \* what may be shared: [kind, lits] with lits # {}
    PoolSize,       \* number of slots of the pool
    Receivable,     \* receiveData.canBeReceived: thread -> set of literals
    HasProof,       \* is a ProofMaster attached to this buffer?
    SpecialAuthor,  \* the author of a slot nobody has written, 2^30 - 1
    NoThread,       \* "dataLock is free"
    MaxAdds         \* bound: elements added in a behaviour

Kind == {"clause", "multiunits", "equivalence"}

\* The constructor starts adding at slot 1 and readers at slot 0, which are
\* different slots of the pool only if there are two of them.
ASSUME PoolSizeAssumption == PoolSize \in Nat /\ PoolSize >= 2
ASSUME MaxAddsAssumption  == MaxAdds \in Nat
ASSUME ThreadAssumption   == SpecialAuthor \notin Thread /\ NoThread \notin Thread
\* addClause asserts that the clause is not empty and has at most one flag.
ASSUME ItemAssumption ==
    Item \subseteq [kind : Kind, lits : (SUBSET Lit) \ {{}}]
ASSUME ReceivableAssumption == Receivable \in [Thread -> SUBSET Lit]
ASSUME HasProofAssumption   == HasProof \in BOOLEAN

Index == 0 .. PoolSize - 1

VARIABLES
    pool,         \* the slots: [author, kind, data]
    addHereNext,  \* slot of the next element
    dataLock,     \* the thread that holds the lock, or NoThread
    pc,           \* where each thread is in addClause or receiveClauses
    adding,       \* the element a thread is about to add
    lastSeen,     \* Communicator::lastSeenIndex of each thread
    cursor,       \* loop index i of receiveClauses
    proof,        \* global proof: copies of a clause the pool added minus deleted
    added,        \* history: number of elements added so far
    stamp,        \* history: number of the element in a slot, 0 for none
    sent,         \* history: sent[n] is the n-th element, [author, item]
    got,          \* history: what each thread has received, in order
    seen          \* history: value of added at the end of the last receive

poolVars == <<pool, addHereNext, proof>>
history  == <<added, stamp, sent>>
readVars == <<lastSeen, cursor, got, seen>>
vars     == <<poolVars, dataLock, pc, adding, history, readVars>>

-----------------------------------------------------------------------------
\* poolItem(): the author is invalid, the data is empty, no flag is set.
EmptySlot == [author |-> SpecialAuthor, kind |-> "clause", data |-> {}]

Init ==
    /\ pool        = [i \in Index |-> EmptySlot]
    /\ addHereNext = 1
    /\ dataLock    = NoThread
    /\ pc          = [t \in Thread |-> "idle"]
    /\ adding      = [t \in Thread |-> EmptySlot]
    /\ lastSeen    = [t \in Thread |-> 0]
    /\ cursor      = [t \in Thread |-> 0]
    /\ proof       = [c \in SUBSET Lit |-> 0]
    /\ added       = 0
    /\ stamp       = [i \in Index |-> 0]
    /\ sent        = << >>
    /\ got         = [t \in Thread |-> << >>]
    /\ seen        = [t \in Thread |-> 0]

\* Mutants: an index that leaves the pool, a reader that skips a slot, a lock
\* that does not exclude anybody.
SuccNoWrap(i) == i + 1
PredSame(i) == i
LockAlways == TRUE

\* Stepping an index forward and backward inside the pool.
Succ(i) == IF i + 1 = PoolSize THEN 0 ELSE i + 1
Pred(i) == IF i = 0 THEN PoolSize - 1 ELSE i - 1

LockFree == dataLock = NoThread

-----------------------------------------------------------------------------
(* addClause *)

\* The proof master counts how often a clause is present.
InProof(p, cs, n) == [c \in SUBSET Lit |-> IF c \in cs THEN p[c] + n ELSE p[c]]

\* Mutant: only sets of units reach the proof.
ProofUnitsOnly(it) == IF it.kind = "multiunits" THEN {{l} : l \in it.data} ELSE {}

\* The clauses addClause writes for an element.  Equivalences are not written:
\* addEquivalenceToProof has no proof format for them.
ProofClauses(it) ==
    CASE it.kind = "clause"      -> {it.data}
      [] it.kind = "multiunits"  -> {{l} : l \in it.data}
      [] it.kind = "equivalence" -> {}

\* lock(); what the slot held is deleted from the proof: the guard compares
\* the 30 bit author with ~0U and so never skips the deletion.
\* Then the author and the flags of the slot are set.
AddLock(t, it) ==
    /\ pc[t] = "idle"
    /\ LockFree
    /\ added < MaxAdds
    /\ dataLock' = t
    /\ pc' = [pc EXCEPT ![t] = "fill"]
    /\ adding' = [adding EXCEPT
         ![t] = [author |-> t, kind |-> it.kind, data |-> it.lits]]
    /\ proof' = IF HasProof THEN InProof(proof, {pool[addHereNext].data}, -1)
                            ELSE proof
    /\ pool' = [pool EXCEPT ![addHereNext].author = t,
                            ![addHereNext].kind   = it.kind]
    /\ UNCHANGED <<addHereNext, history, readVars>>

\* The literals are copied into the slot and the element enters the proof.
AddFill(t) ==
    /\ pc[t] = "fill"
    /\ pc' = [pc EXCEPT ![t] = "advance"]
    /\ pool' = [pool EXCEPT ![addHereNext].data = adding[t].data]
    /\ proof' = IF HasProof THEN InProof(proof, ProofClauses(adding[t]), 1)
                            ELSE proof
    /\ UNCHANGED <<addHereNext, dataLock, adding, history, readVars>>

\* addHereNext moves on, staying in the pool; unlock().
AddUnlock(t) ==
    /\ pc[t] = "advance"
    /\ pc' = [pc EXCEPT ![t] = "idle"]
    /\ addHereNext' = Succ(addHereNext)
    /\ dataLock' = NoThread
    /\ added' = added + 1
    /\ stamp' = [stamp EXCEPT ![addHereNext] = added + 1]
    /\ sent'  = Append(sent, adding[t])
    /\ UNCHANGED <<pool, proof, adding, readVars>>

-----------------------------------------------------------------------------
(* receiveClauses and incorporateReceiveItem *)

\* Mutant: a clause is stripped of its unreceivable literals as a class is.
TakenStripped(slot, ok) ==
    IF slot.kind = "multiunits" THEN {{l} : l \in slot.data \cap ok}
                                ELSE {slot.data \cap ok}

\* What a receiver takes of an element, as the set of clauses, units or classes
\* it pushes: each receivable unit; the receivable part of a class, unless that
\* is a single literal (the part may be empty: then only the separator is
\* pushed); a clause as a whole or not at all.
Taken(slot, ok) ==
    CASE slot.kind = "multiunits"  -> {{l} : l \in slot.data \cap ok}
      [] slot.kind = "equivalence" -> {c \in {slot.data \cap ok} : Cardinality(c) # 1}
      [] slot.kind = "clause"      -> {c \in {slot.data} : c \subseteq ok}

\* Mutant: own elements are received too.
NeverOwn(t, slot) == FALSE

Own(t, slot) == slot.author = t
StepCursor(t) == [cursor EXCEPT ![t] = Succ(@)]

\* lock(); startIndex is the slot behind the last one seen.
ReceiveLock(t) ==
    /\ pc[t] = "idle"
    /\ LockFree
    /\ dataLock' = t
    /\ pc' = [pc EXCEPT ![t] = "receive"]
    /\ cursor' = [cursor EXCEPT ![t] = Succ(lastSeen[t])]
    /\ UNCHANGED <<poolVars, adding, history, lastSeen, got, seen>>

\* One round of the loop: the element is taken unless the caller wrote it.
\* The two loops of the code (to the end of the pool, then from its start)
\* are one walk with a wrap.
ReceiveItem(t) ==
    /\ pc[t] = "receive"
    /\ cursor[t] # addHereNext
    /\ LET slot == pool[cursor[t]] IN
         got' = IF Own(t, slot)
                THEN got
                ELSE [got EXCEPT ![t] = Append(@,
                        [nr    |-> stamp[cursor[t]],
                         slot  |-> slot,
                         taken |-> Taken(slot, Receivable[t])])]
    /\ cursor' = StepCursor(t)
    /\ UNCHANGED <<poolVars, dataLock, pc, adding, history, lastSeen, seen>>

\* unlock(); the caller stores the returned index as the last one seen.
ReceiveUnlock(t) ==
    /\ pc[t] = "receive"
    /\ cursor[t] = addHereNext
    /\ pc' = [pc EXCEPT ![t] = "idle"]
    /\ dataLock' = NoThread
    /\ lastSeen' = [lastSeen EXCEPT ![t] = Pred(addHereNext)]
    /\ seen' = [seen EXCEPT ![t] = added]
    /\ UNCHANGED <<poolVars, adding, history, cursor, got>>

-----------------------------------------------------------------------------
Next ==
    \E t \in Thread :
        \/ \E it \in Item : AddLock(t, it)
        \/ AddFill(t)
        \/ AddUnlock(t)
        \/ ReceiveLock(t)
        \/ ReceiveItem(t)
        \/ ReceiveUnlock(t)

Spec == Init /\ [][Next]_vars

-----------------------------------------------------------------------------
(* Properties *)

Slot == [author : Thread \cup {SpecialAuthor}, kind : Kind, data : SUBSET Lit]

TypeOK ==
    /\ pool \in [Index -> Slot]
    /\ addHereNext \in Index
    /\ dataLock \in Thread \cup {NoThread}
    /\ pc \in [Thread -> {"idle", "fill", "advance", "receive"}]
    /\ adding \in [Thread -> Slot]
    /\ lastSeen \in [Thread -> Index]
    /\ cursor \in [Thread -> Index]
    /\ proof \in [SUBSET Lit -> Int]
    /\ added \in Nat
    /\ stamp \in [Index -> Nat]
    /\ sent \in Seq(Slot)
    /\ got \in [Thread -> Seq([nr : Nat, slot : Slot, taken : SUBSET SUBSET Lit])]
    /\ seen \in [Thread -> Nat]

\* Whatever receiveClauses hands out is an element that some thread added, with
\* the author, the flags and the literals of one and the same addClause call:
\* no slot is read before it was written for the first time (the unwritten one
\* would become an empty clause), or while it is overwritten.
DeliversWhatWasSent ==
    \A t \in Thread : \A k \in DOMAIN got[t] :
        /\ got[t][k].nr \in DOMAIN sent
        /\ got[t][k].slot = sent[got[t][k].nr]

\* A thread receives an element at most once, in the order of the adding, and
\* never its own: lastSeenIndex stays correct over any number of laps of the
\* writers around the pool.
OnceInOrderFromOthers ==
    \A t \in Thread : \A k \in DOMAIN got[t] :
        /\ got[t][k].slot.author # t
        /\ \A j \in 1 .. k - 1 : got[t][j].nr < got[t][k].nr

\* The filter for literals that a receiver must not use never turns a shared
\* fact into a stronger one: a clause arrives whole or not at all, a unit is
\* one that was sent, a class keeps at least two of its literals or none.
TakesNothingStronger ==
    \A t \in Thread : \A k \in DOMAIN got[t] : \A g \in got[t][k].taken :
        LET orig == sent[got[t][k].nr] IN
        /\ g \subseteq Receivable[t]
        /\ orig.kind = "clause"      => g = orig.data
        /\ orig.kind = "multiunits"  => \E l \in orig.data : g = {l}
        /\ orig.kind = "equivalence" => g \subseteq orig.data /\ Cardinality(g) # 1

\* Numbers of the elements of others among first .. last that t has received.
Received(t, g) == {g[k].nr : k \in DOMAIN g}
Foreign(t, first, last) == {n \in first .. last : sent[n].author # t}

\* "only an approximation, can happen that ringbuffer overflows": a call of
\* receiveClauses misses elements only when the writers lapped the reader, and
\* then it misses whole laps, the oldest ones; in particular, with fewer than
\* PoolSize elements added since the last call nothing is missed.
LosesWholeLapsOnly ==
    [][\A t \in Thread :
         seen'[t] # seen[t] =>
            LET fresh == (added - seen[t]) % PoolSize IN
            Received(t, got[t]) \cap (seen[t] + 1 .. added)
              = Foreign(t, added - fresh + 1, added)]_vars

\* Copies of a clause that the slots hold; the slot that is being overwritten
\* (its author has set the flags, but not yet the literals) is left out.
BeingWritten(i) == i = addHereNext /\ \E t \in Thread : pc[t] = "fill"
Copies(c) == Cardinality({i \in Index : /\ stamp[i] # 0
                                        /\ ~ BeingWritten(i)
                                        /\ pool[i].kind = "clause"
                                        /\ pool[i].data = c})

\* A shared clause stays in the global proof as long as it is in the pool, so
\* that a receiver derives from clauses that the proof still has.
PooledClausesAreInProof ==
    HasProof => \A c \in SUBSET Lit : c # {} /\ Copies(c) > 0 => proof[c] >= Copies(c)

=============================================================================
