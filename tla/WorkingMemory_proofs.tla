------------------------ MODULE WorkingMemory_proofs ------------------------
(***************************************************************************)
(* Proofs about WorkingMemory: for any number of calls, managers, entries  *)
(* and faults, any window and any budget, with either strategy.  Finiteness*)
(* is not assumed of the calls: at any time finitely many entries were     *)
(* written.                                                                *)
(***************************************************************************)
EXTENDS WorkingMemory, FiniteSetTheorems, WellFoundedInduction, TLAPS

-----------------------------------------------------------------------------
(* The inductive invariant.                                                *)

Failed(c) == call[c].pc = "dead" \/ call[c].raised
FailedCalls == {c \in Calls : Failed(c)}

\* Finitely many entries were written and finitely many calls failed, however many calls there are.
Typed ==
  /\ WorkingMemoryTypeOK
  /\ \A c \in Calls : call[c].pc = "acquire" => call[c].tries <= _APPLY_STRATEGY_LOCK_RETRIES
  /\ \A c \in Calls : call[c].pc \in {"idle", "hset", "expire"} => call[c].tries = 0
  /\ IsFiniteSet(written) /\ IsFiniteSet(FailedCalls)

\* No two entries have the same timestamp.
Stamped ==
  /\ hash \subseteq written
  /\ \A e \in written : e.ts < clock
  /\ \A c \in Calls : call[c].pc = "hset" =>
       call[c].ts < clock /\ \A e \in written : e.ts # call[c].ts
  /\ \A c, d \in Calls :
       call[c].pc = "hset" /\ call[d].pc = "hset" /\ call[c].ts = call[d].ts => c = d
  /\ \A e, f \in written : e.ts = f.ts => e = f

Newer(e) == {f \in written : Older(e, f)}

\* What a pass is going to delete has been overtaken, whenever it was read.
Evicting(c) ==
  /\ call[c].evict \subseteq call[c].all /\ call[c].all \subseteq written
  /\ call[c].pc \in {"idle", "hset", "expire", "acquire", "read"} => call[c].all = {}
  /\ call[c].pc \in {"summarize", "trim"} => call[c].evict # {}
  /\ \A e \in call[c].evict : Newer(e) # {}
  /\ Sliding => \A e \in call[c].evict : Cardinality(Newer(e)) >= window_size

Evictions == \A c \in Calls : Evicting(c)

\* The newest entry is never deleted, by any strategy.
NewestThere == written # {} => \E e \in hash : \A f \in written : f.ts <= e.ts

Condensed(S) == \A e \in S : \E p \in folded : p[1] = e

\* A pass that got to its end has written its summary.
Accounted ==
  /\ EntriesAccounted
  /\ ~Sliding => \A c \in Calls :
       call[c].pc \in {"get", "delete", "done"} /\ ~call[c].raised => Condensed(call[c].all)

LockHeld == overruns = 0 => \A c \in Calls : InPass(c) => lock.by = c

\* EXPIRE is still to come, or has been sent, or never will be.
Dated ==
  /\ \A c \in Calls : call[c].pc \notin {"idle", "hset", "failed", "dead"} => written # {}
  /\ ttl \/ written = {} \/ \E c \in Calls : call[c].pc = "expire" \/ Failed(c)

IInv == Typed /\ Stamped /\ Evictions /\ NewestThere /\ NewestKept /\ Accounted /\ LockHeld /\ Dated

USE WorkingMemoryAssumption DEF _APPLY_STRATEGY_LOCK_RETRIES

-----------------------------------------------------------------------------
(* Timestamps and what is older.                                           *)

LEMMA OldestExists ==
  ASSUME NEW T, T \subseteq Entries, T # {}
  PROVE  \E x \in T : \A y \in T : ~Older(y, x)
<1> DEFINE R == OpToRel(<, Nat)
           N == {e.ts : e \in T}
<1>1. IsWellFoundedOn(R, Nat)
  BY NatLessThanWellFounded
<1>2. N \subseteq Nat /\ N # {}
  BY DEF Entries
<1> HIDE DEF R
<1>3. PICK n \in N : \A m \in N : <<m, n>> \notin R
  BY <1>1, <1>2, WFMin
<1>4. PICK x \in T : x.ts = n
  BY <1>3
<1>5. ASSUME NEW y \in T PROVE ~Older(y, x)
  <2>1. y.ts \in N /\ y.ts \in Nat /\ n \in Nat
    BY <1>2
  <2>2. <<y.ts, n>> \notin R
    BY <1>3, <2>1
  <2>3. ~(y.ts < n)
    BY <2>1, <2>2 DEF R, OpToRel
  <2> QED
    BY <1>4, <2>3 DEF Older
<1> QED
  BY <1>5

\* The n oldest of more than n entries are older than the others.
LEMMA OldestOvertaken ==
  ASSUME NEW S, IsFiniteSet(S), S \subseteq Entries, \A e, f \in S : e.ts = f.ts => e = f,
         NEW k \in Nat, k <= Cardinality(S), NEW e \in Oldest(S, Cardinality(S) - k)
  PROVE  /\ e \in S
         /\ IsFiniteSet({f \in S : Older(e, f)})
         /\ Cardinality({f \in S : Older(e, f)}) >= k
<1> DEFINE A == {f \in S : Older(f, e)}
           B == {f \in S : Older(e, f)}
<1>1. e \in S /\ Cardinality(A) < Cardinality(S) - k
  BY DEF Oldest
<1>2. IsFiniteSet(A) /\ IsFiniteSet(B) /\ Cardinality(A) \in Nat /\ Cardinality(B) \in Nat
  BY FS_Subset, FS_CardinalityType
<1>3. S = (A \cup B) \cup {e}
  <2>1. ASSUME NEW f \in S PROVE f \in A \/ f \in B \/ f = e
    <3>1. e.ts \in Nat /\ f.ts \in Nat
      BY <1>1 DEF Entries
    <3>2. e.ts < f.ts \/ f.ts < e.ts \/ e.ts = f.ts
      BY <3>1
    <3> QED
      BY <1>1, <3>2 DEF Older
  <2> QED
    BY <1>1, <2>1
<1>4. A \cap B = {}
  <2>1. ASSUME NEW f \in S PROVE ~(Older(e, f) /\ Older(f, e))
    <3>1. e.ts \in Nat /\ f.ts \in Nat
      BY <1>1 DEF Entries
    <3> QED
      BY <3>1 DEF Older
  <2> QED
    BY <2>1
<1> HIDE DEF A, B
<1>5. IsFiniteSet(A \cup B) /\ Cardinality(A \cup B) = Cardinality(A) + Cardinality(B)
  <2>1. Cardinality(A \cap B) = 0
    BY <1>4, FS_EmptySet, Zenon
  <2>2. /\ IsFiniteSet(A \cup B)
        /\ Cardinality(A \cup B) = Cardinality(A) + Cardinality(B) - Cardinality(A \cap B)
    BY <1>2, FS_Union, Zenon
  <2> QED
    BY <1>2, <2>1, <2>2
<1>6. Cardinality(S) <= Cardinality(A) + Cardinality(B) + 1
  <2> DEFINE AB == A \cup B
  <2>1. Cardinality(AB \cup {e}) = IF e \in AB THEN Cardinality(AB) ELSE Cardinality(AB) + 1
    BY <1>5, FS_AddElement, Zenon
  <2>2. Cardinality(S) = Cardinality(AB \cup {e})
    BY <1>3, Zenon
  <2> HIDE DEF AB
  <2>3. Cardinality(AB) = Cardinality(A) + Cardinality(B)
    BY <1>5 DEF AB
  <2> QED
    BY <1>2, <2>1, <2>2, <2>3
<1>7. Cardinality(S) \in Nat
  BY FS_CardinalityType
<1>8. Cardinality(B) >= k
  BY <1>1, <1>2, <1>6, <1>7
<1> QED
  BY <1>1, <1>2, <1>8 DEF B

\* What a strategy evicts has been overtaken.
LEMMA EvictOvertaken ==
  ASSUME NEW S, IsFiniteSet(S), S \subseteq Entries, \A e, f \in S : e.ts = f.ts => e = f,
         NEW e \in ToEvict(S)
  PROVE  /\ e \in S /\ {f \in S : Older(e, f)} # {}
         /\ Sliding => Cardinality({f \in S : Older(e, f)}) >= window_size
<1> DEFINE n == Cardinality(S)
           keep == IF n \div 2 > 1 THEN n \div 2 ELSE 1
           B == {f \in S : Older(e, f)}
<1>1. n \in Nat
  BY FS_CardinalityType
<1>2. PICK k \in Nat : k > 0 /\ k <= n /\ e \in Oldest(S, n - k) /\ (Sliding => k = window_size)
  <2>1. CASE Sliding
    <3>1. n > window_size /\ e \in Oldest(S, n - window_size)
      BY <2>1 DEF ToEvict
    <3> QED
      BY <1>1, <2>1, <3>1
  <2>2. CASE ~Sliding
    <3>1. n > token_budget /\ e \in Oldest(S, n - keep)
      BY <2>2 DEF ToEvict
    <3>2. keep \in Nat /\ keep > 0 /\ keep <= n
      <4> HIDE DEF n
      <4>1. n > 1 /\ n \div 2 \in Nat /\ n \div 2 <= n
        BY <1>1, <3>1
      <4>2. PICK h \in Nat : h = n \div 2 /\ h <= n
        BY <4>1
      <4>3. keep = IF h > 1 THEN h ELSE 1
        BY <4>2, Zenon
      <4> HIDE DEF keep
      <4> QED
        BY <1>1, <4>1, <4>2, <4>3
    <3> QED
      BY <2>2, <3>1, <3>2
  <2> QED
    BY <2>1, <2>2
<1>3. e \in S /\ IsFiniteSet(B) /\ Cardinality(B) >= k
  BY <1>2, OldestOvertaken
<1>4. B # {}
  <2>1. CASE B = {}
    BY <1>2, <1>3, <2>1, FS_EmptySet
  <2> QED
    BY <2>1
<1> QED
  BY <1>2, <1>3, <1>4

-----------------------------------------------------------------------------
(* What a step does to the calls.                                          *)

Pcs ==
  {"idle", "hset", "expire", "acquire", "get", "delete", "done", "skipped", "failed", "dead"}
    \cup PassPcs

CallStates ==
  [pc: Pcs, ts: Nat, tries: 0..(_APPLY_STRATEGY_LOCK_RETRIES + 1),
   evict: SUBSET Entries, all: SUBSET Entries, raised: BOOLEAN]

LEMMA PcsNamed ==
  /\ {"idle", "hset", "expire", "acquire", "get", "delete", "done", "skipped", "failed", "dead"}
        \subseteq Pcs
  /\ {"read", "trim", "summarize", "fold"} \subseteq Pcs
  BY DEF Pcs, PassPcs

LEMMA CallTyped ==
  ASSUME WorkingMemoryTypeOK
  PROVE  /\ call \in [Calls -> CallStates] /\ strategy \in Strategies
         /\ hash \subseteq Entries /\ written \subseteq Entries /\ ttl \in BOOLEAN
         /\ lock \in Locks /\ clock \in Nat /\ folded \subseteq Entries \X Entries
         /\ overruns \in 0..MaxFaults /\ overruns \in Nat
<1>1. overruns \in 0..MaxFaults /\ MaxFaults \in Nat
  BY DEF WorkingMemoryTypeOK
<1> QED
  BY <1>1 DEF WorkingMemoryTypeOK, CallStates, Pcs

LEMMA TypedAgain ==
  ASSUME /\ call' \in [Calls -> CallStates] /\ strategy' \in Strategies
         /\ hash' \subseteq Entries /\ written' \subseteq Entries /\ ttl' \in BOOLEAN
         /\ lock' \in Locks /\ clock' \in Nat /\ folded' \subseteq Entries \X Entries
         /\ overruns' \in 0..MaxFaults
  PROVE  WorkingMemoryTypeOK'
  BY DEF WorkingMemoryTypeOK, CallStates, Pcs

\* Only call c goes on.
Goes(c) ==
  /\ call' \in [Calls -> CallStates]
  /\ \A d \in Calls : d # c => call'[d] = call[d]

\* It goes on to pc, and keeps everything else.
GoesTo(c, pc) ==
  /\ Goes(c) /\ call'[c].pc = pc
  /\ call'[c].ts = call[c].ts /\ call'[c].evict = call[c].evict /\ call'[c].all = call[c].all
  /\ call'[c].raised = call[c].raised

LEMMA SimplyGoes ==
  ASSUME NEW c \in Calls, NEW pc \in Pcs, call \in [Calls -> CallStates],
         call' = [call EXCEPT ![c].pc = pc]
  PROVE  GoesTo(c, pc) /\ call'[c].tries = call[c].tries
  BY DEF GoesTo, Goes, CallStates

LEMMA MakeEntryGoes ==
  ASSUME WorkingMemoryTypeOK, NEW c \in Calls, MakeEntry(c)
  PROVE  /\ Goes(c) /\ call'[c].pc = "hset" /\ call'[c].ts = clock /\ call'[c].tries = call[c].tries
         /\ call'[c].evict = call[c].evict /\ call'[c].all = call[c].all
         /\ call'[c].raised = call[c].raised
<1>1. /\ call \in [Calls -> CallStates] /\ clock \in Nat
      /\ call' = [call EXCEPT ![c].pc = "hset", ![c].ts = clock]
  BY CallTyped DEF MakeEntry
<1>2. Goes(c)
  <2>1. call' \in [Calls -> CallStates]
    BY <1>1, PcsNamed DEF CallStates
  <2> QED
    BY <1>1, <2>1 DEF Goes
<1>3. call'[c] = [call[c] EXCEPT !.pc = "hset", !.ts = clock]
  BY <1>1 DEF CallStates
<1>4. call[c] \in CallStates
  BY <1>1
<1> QED
  BY <1>2, <1>3, <1>4 DEF CallStates

LEMMA AcquireLockGoes ==
  ASSUME Typed, NEW c \in Calls, AcquireLock(c)
  PROVE  \/ /\ lock = NoLock /\ lock' = [token |-> ManagerOf[c], by |-> c] /\ GoesTo(c, "read")
         \/ /\ lock # NoLock /\ lock' = lock
            /\ GoesTo(c, "acquire") /\ call'[c].tries <= _APPLY_STRATEGY_LOCK_RETRIES
         \/ lock # NoLock /\ lock' = lock /\ GoesTo(c, "skipped")
<1>1. call \in [Calls -> CallStates] /\ call[c].pc = "acquire" /\ call[c].tries \in 0..2
  <2>1. call \in [Calls -> CallStates] /\ call[c].pc = "acquire"
    BY CallTyped DEF Typed, AcquireLock
  <2>2. call[c].tries \in 0..3
    BY <2>1 DEF CallStates
  <2> QED
    BY <2>1, <2>2 DEF Typed
<1>2. CASE lock = NoLock /\ lock' = [token |-> ManagerOf[c], by |-> c]
           /\ call' = [call EXCEPT ![c].pc = "read"]
  BY <1>1, <1>2, SimplyGoes, PcsNamed
<1>3. ASSUME lock # NoLock, lock' = lock, 
             call' = [call EXCEPT ![c].tries = @ + 1,
                                  ![c].pc = IF call[c].tries < 2 THEN "acquire" ELSE "skipped"]
      PROVE  \/ GoesTo(c, "acquire") /\ call'[c].tries <= 2
             \/ GoesTo(c, "skipped")
  <2>1. PICK n : n = call[c].tries + 1
    OBVIOUS
  <2>2. n \in 0..3 /\ (call[c].tries < 2 => n <= 2)
    BY <1>1, <2>1
  <2>3. PICK pc : pc = IF call[c].tries < 2 THEN "acquire" ELSE "skipped"
    OBVIOUS
  <2>4. call' = [call EXCEPT ![c].tries = n, ![c].pc = pc]
    BY <1>3, <2>1, <2>3, Zenon
  <2>5. pc \in {"acquire", "skipped"} /\ (pc = "acquire" => call[c].tries < 2)
    BY <2>3
  <2>6. GoesTo(c, pc) /\ call'[c].tries = n
    <3>1. call' \in [Calls -> CallStates]
      <4>1. pc \in Pcs
        BY <2>5, PcsNamed
      <4>2. PICK r : r = [call[c] EXCEPT !.tries = n, !.pc = pc]
        OBVIOUS
      <4>3. call[c] \in CallStates /\ n \in 0..(2 + 1)
        BY <1>1, <2>2
      <4>4. r \in CallStates
        BY <4>1, <4>2, <4>3 DEF CallStates
      <4>5. call' = [call EXCEPT ![c] = [call[c] EXCEPT !.tries = n, !.pc = pc]]
        BY <1>1, <2>4 DEF CallStates
      <4>6. call' = [call EXCEPT ![c] = r]
        BY <4>2, <4>5, Zenon
      <4> QED
        BY <1>1, <4>4, <4>6
    <3>2. \A d \in Calls : d # c => call'[d] = call[d]
      BY <1>1, <2>4
    <3>3. call'[c] = [call[c] EXCEPT !.tries = n, !.pc = pc] /\ call[c] \in CallStates
      BY <1>1, <2>4 DEF CallStates
    <3>4. /\ call'[c].pc = pc /\ call'[c].tries = n
          /\ call'[c].ts = call[c].ts /\ call'[c].evict = call[c].evict
          /\ call'[c].all = call[c].all /\ call'[c].raised = call[c].raised
      BY <3>3 DEF CallStates
    <3> QED
      BY <3>1, <3>2, <3>4 DEF GoesTo, Goes
  <2> QED
    BY <2>2, <2>5, <2>6
<1> QED
  BY <1>2, <1>3 DEF AcquireLock

LEMMA ReadEntriesGoes ==
  ASSUME WorkingMemoryTypeOK, NEW c \in Calls, ReadEntries(c)
  PROVE  /\ Goes(c) /\ call'[c].ts = call[c].ts /\ call'[c].raised = call[c].raised
         /\ call'[c].evict = ToEvict(hash) /\ call'[c].all = ToEvict(hash)
         /\ \/ call'[c].pc = "get" /\ ToEvict(hash) = {}
            \/ call'[c].pc = "trim" /\ ToEvict(hash) # {}
            \/ call'[c].pc = "summarize" /\ ToEvict(hash) # {}
<1>1. call \in [Calls -> CallStates] /\ hash \subseteq Entries
  BY CallTyped
<1>2. ToEvict(hash) \subseteq Entries
  BY <1>1 DEF ToEvict, Oldest
<1>3. PICK evict : evict = ToEvict(hash)
  OBVIOUS
<1>4. PICK pc : pc = IF evict = {} THEN "get" ELSE IF Sliding THEN "trim" ELSE "summarize"
  OBVIOUS
<1>5. call' = [call EXCEPT ![c].evict = evict, ![c].all = evict, ![c].pc = pc]
  BY <1>3, <1>4, Zenon DEF ReadEntries
<1>6. \/ pc = "get" /\ evict = {}
      \/ pc = "trim" /\ evict # {}
      \/ pc = "summarize" /\ evict # {}
  BY <1>4
<1>7. pc \in {"get", "trim", "summarize"}
  BY <1>6
<1>8. /\ Goes(c) /\ call'[c].ts = call[c].ts /\ call'[c].raised = call[c].raised
      /\ call'[c].evict = evict /\ call'[c].all = evict /\ call'[c].pc = pc
  <2>1. pc \in Pcs /\ evict \in SUBSET Entries
    BY <1>2, <1>3, <1>7, PcsNamed
  <2>2. call' \in [Calls -> CallStates]
    <3>1. PICK r : r = [call[c] EXCEPT !.evict = evict, !.all = evict, !.pc = pc]
      OBVIOUS
    <3>2. call[c] \in CallStates
      BY <1>1
    <3>3. r \in CallStates
      BY <2>1, <3>1, <3>2 DEF CallStates
    <3>4. call' = [call EXCEPT ![c] = [call[c] EXCEPT !.evict = evict, !.all = evict, !.pc = pc]]
      BY <1>1, <1>5 DEF CallStates
    <3>5. call' = [call EXCEPT ![c] = r]
      BY <3>1, <3>4, Zenon
    <3> QED
      BY <1>1, <3>3, <3>5
  <2>3. \A d \in Calls : d # c => call'[d] = call[d]
    BY <1>1, <1>5
  <2>4. /\ call'[c] = [call[c] EXCEPT !.evict = evict, !.all = evict, !.pc = pc]
        /\ call[c] \in CallStates
    BY <1>1, <1>5 DEF CallStates
  <2>5. /\ call'[c].ts = call[c].ts /\ call'[c].raised = call[c].raised
        /\ call'[c].evict = evict /\ call'[c].all = evict /\ call'[c].pc = pc
    BY <2>4 DEF CallStates
  <2> QED
    BY <2>2, <2>3, <2>5 DEF Goes
<1> QED
  BY <1>3, <1>6, <1>8

LEMMA HDelGoes ==
  ASSUME WorkingMemoryTypeOK, NEW c \in Calls, HDel(c), call[c].evict # {}
  PROVE  \E e \in call[c].evict :
           /\ hash' = hash \ {e} /\ ttl' = (ttl /\ hash' # {})
           /\ Goes(c) /\ call'[c].ts = call[c].ts /\ call'[c].raised = call[c].raised
           /\ call'[c].evict = call[c].evict \ {e} /\ call'[c].all = call[c].all
           /\ \/ call'[c].pc = "trim" /\ call'[c].evict # {}
              \/ call'[c].pc = "get" /\ Sliding
              \/ call'[c].pc = "fold"
<1>1. call \in [Calls -> CallStates]
  BY CallTyped
<1>2. call[c].evict \subseteq Entries
  BY <1>1 DEF CallStates
<1>3. PICK e : e = CHOOSE x \in call[c].evict : \A y \in call[c].evict : ~Older(y, x)
  OBVIOUS
<1>4. e \in call[c].evict
  <2>1. \E x \in call[c].evict : \A y \in call[c].evict : ~Older(y, x)
    BY <1>2, OldestExists
  <2> QED
    BY <1>3, <2>1, Zenon
<1>5. PICK pc : pc = IF call[c].evict # {e} THEN "trim" ELSE IF Sliding THEN "get" ELSE "fold"
  OBVIOUS
<1>6. PICK evict : evict = call[c].evict \ {e}
  OBVIOUS
<1>7. call' = [call EXCEPT ![c].evict = evict, ![c].pc = pc] /\ Remove({e})
  BY <1>3, <1>5, <1>6, Zenon DEF HDel
<1>8. /\ pc \in {"trim", "get", "fold"}
      /\ (pc = "trim" /\ evict # {}) \/ (pc = "get" /\ Sliding) \/ pc = "fold"
  <2>1. CASE evict # {}
    BY <1>4, <1>5, <1>6, <2>1
  <2>2. CASE evict = {}
    <3>1. call[c].evict = {e}
      BY <1>4, <1>6, <2>2
    <3> QED
      BY <1>5, <3>1, Zenon
  <2> QED
    BY <2>1, <2>2
<1>9. /\ Goes(c) /\ call'[c].ts = call[c].ts /\ call'[c].raised = call[c].raised
      /\ call'[c].evict = evict /\ call'[c].all = call[c].all /\ call'[c].pc = pc
  <2>1. pc \in Pcs /\ evict \in SUBSET Entries
    BY <1>2, <1>6, <1>8, PcsNamed
  <2>2. call' \in [Calls -> CallStates]
    BY <1>1, <1>7, <2>1 DEF CallStates
  <2>3. \A d \in Calls : d # c => call'[d] = call[d]
    BY <1>1, <1>7
  <2>4. /\ call'[c] = [call[c] EXCEPT !.evict = evict, !.pc = pc]
        /\ call[c] \in CallStates
    BY <1>1, <1>7 DEF CallStates
  <2>5. /\ call'[c].ts = call[c].ts /\ call'[c].raised = call[c].raised
        /\ call'[c].evict = evict /\ call'[c].all = call[c].all /\ call'[c].pc = pc
    BY <2>4 DEF CallStates
  <2> QED
    BY <2>2, <2>3, <2>5 DEF Goes
<1> QED
  BY <1>4, <1>6, <1>7, <1>8, <1>9 DEF Remove

LEMMA ReleaseGoes ==
  ASSUME WorkingMemoryTypeOK, NEW c \in Calls, GetLock(c) \/ DeleteLock(c)
  PROVE  \/ GetLock(c) /\ GoesTo(c, "delete")
         \/ GoesTo(c, "failed") /\ call[c].raised
         \/ GoesTo(c, "done") /\ ~call[c].raised
<1>1. call \in [Calls -> CallStates]
  BY CallTyped
<1>2. PICK pc \in Pcs :
                /\ call' = [call EXCEPT ![c].pc = pc]
                /\ \/ pc = "delete" /\ GetLock(c)
                   \/ pc = "failed" /\ call[c].raised
                   \/ pc = "done" /\ ~call[c].raised
  <2>1. CASE GetLock(c)
    <3>1. PICK pc : pc = IF lock.token = ManagerOf[c] THEN "delete"
                         ELSE IF call[c].raised THEN "failed" ELSE "done"
      OBVIOUS
    <3>2. call' = [call EXCEPT ![c].pc = pc]
      BY <2>1, <3>1, Zenon DEF GetLock
    <3>3. pc = "delete" \/ (pc = "failed" /\ call[c].raised) \/ (pc = "done" /\ ~call[c].raised)
      <4>1. CASE lock.token = ManagerOf[c]
        BY <3>1, <4>1
      <4>2. CASE lock.token # ManagerOf[c] /\ call[c].raised
        BY <3>1, <4>2
      <4>3. CASE lock.token # ManagerOf[c] /\ ~call[c].raised
        BY <3>1, <4>3
      <4> QED
        BY <4>1, <4>2, <4>3
    <3> QED
      BY <2>1, <3>2, <3>3, PcsNamed
  <2>2. CASE DeleteLock(c)
    <3>1. PICK pc : pc = IF call[c].raised THEN "failed" ELSE "done"
      OBVIOUS
    <3>2. call' = [call EXCEPT ![c].pc = pc]
      BY <2>2, <3>1, Zenon DEF DeleteLock
    <3>3. (pc = "failed" /\ call[c].raised) \/ (pc = "done" /\ ~call[c].raised)
      <4>1. CASE call[c].raised
        BY <3>1, <4>1
      <4>2. CASE ~call[c].raised
        BY <3>1, <4>2
      <4> QED
        BY <4>1, <4>2
    <3> QED
      BY <3>2, <3>3, PcsNamed
  <2> QED
    BY <2>1, <2>2
<1> QED
  BY <1>1, <1>2, SimplyGoes

LEMMA ErrorGoes ==
  ASSUME WorkingMemoryTypeOK, NEW c \in Calls, Error(c)
  PROVE  /\ Goes(c) /\ call'[c].ts = call[c].ts /\ call'[c].raised
         /\ call'[c].evict = call[c].evict /\ call'[c].all = call[c].all
         /\ (call'[c].pc = "get" /\ call[c].pc \in PassPcs) \/ call'[c].pc = "failed"
<1>1. call \in [Calls -> CallStates]
  BY CallTyped
<1>2. PICK pc : pc = IF call[c].pc \in PassPcs THEN "get" ELSE "failed"
  OBVIOUS
<1>3. call' = [call EXCEPT ![c].raised = TRUE, ![c].pc = pc]
  BY <1>2, Zenon DEF Error
<1>4. (pc = "get" /\ call[c].pc \in PassPcs) \/ pc = "failed"
  BY <1>2
<1>5. /\ Goes(c) /\ call'[c].ts = call[c].ts /\ call'[c].raised
      /\ call'[c].evict = call[c].evict /\ call'[c].all = call[c].all /\ call'[c].pc = pc
  <2>1. pc \in Pcs
    BY <1>4, PcsNamed
  <2>2. call' \in [Calls -> CallStates]
    BY <1>1, <1>3, <2>1 DEF CallStates
  <2>3. \A d \in Calls : d # c => call'[d] = call[d]
    BY <1>1, <1>3
  <2>4. call'[c] = [call[c] EXCEPT !.raised = TRUE, !.pc = pc] /\ call[c] \in CallStates
    BY <1>1, <1>3 DEF CallStates
  <2>5. /\ call'[c].ts = call[c].ts /\ call'[c].raised
        /\ call'[c].evict = call[c].evict /\ call'[c].all = call[c].all /\ call'[c].pc = pc
    BY <2>4 DEF CallStates
  <2> QED
    BY <2>2, <2>3, <2>5 DEF Goes
<1> QED
  BY <1>4, <1>5

LEMMA SimpleSteps ==
  ASSUME WorkingMemoryTypeOK, NEW c \in Calls
  PROVE  /\ HSet(c) => GoesTo(c, "expire") /\ call'[c].tries = call[c].tries
         /\ SetTTL(c) => GoesTo(c, "acquire") /\ call'[c].tries = call[c].tries
         /\ Summarize(c) => GoesTo(c, "trim")
         /\ WriteSummary(c) => GoesTo(c, "get")
         /\ Die(c) => GoesTo(c, "dead")
<1>1. call \in [Calls -> CallStates]
  BY CallTyped
<1>2. HSet(c) => GoesTo(c, "expire") /\ call'[c].tries = call[c].tries
  BY <1>1, SimplyGoes, PcsNamed DEF HSet
<1>3. SetTTL(c) => GoesTo(c, "acquire") /\ call'[c].tries = call[c].tries
  BY <1>1, SimplyGoes, PcsNamed DEF SetTTL
<1>4. Summarize(c) => GoesTo(c, "trim")
  BY <1>1, SimplyGoes, PcsNamed DEF Summarize
<1>5. WriteSummary(c) => GoesTo(c, "get")
  BY <1>1, SimplyGoes, PcsNamed DEF WriteSummary
<1>6. Die(c) => GoesTo(c, "dead")
  BY <1>1, SimplyGoes, PcsNamed DEF Die
<1> QED
  BY <1>2, <1>3, <1>4, <1>5, <1>6

\* A step of a call.
Goings(c) ==
  /\ Goes(c)
  /\ call[c].raised => call'[c].raised
  /\ call'[c].pc = "acquire" => call'[c].tries <= _APPLY_STRATEGY_LOCK_RETRIES
  /\ call'[c].pc \in {"idle", "hset", "expire"} => call'[c].tries = 0

LEMMA CallGoes ==
  ASSUME Typed, Evictions, NEW c \in Calls, Step(c) \/ Error(c) \/ Die(c)
  PROVE  Goings(c)
<1>1. WorkingMemoryTypeOK /\ call \in [Calls -> CallStates]
  BY CallTyped DEF Typed
<1>2. CASE MakeEntry(c)
  <2>1. call[c].tries = 0
    BY <1>2 DEF MakeEntry, Typed
  <2> QED
    BY <1>1, <1>2, <2>1, MakeEntryGoes DEF Goings
<1>3. CASE HSet(c)
  <2>1. call[c].tries = 0
    BY <1>3 DEF HSet, Typed
  <2> QED
    BY <1>1, <1>3, <2>1, SimpleSteps DEF Goings, GoesTo
<1>4. CASE SetTTL(c)
  <2>1. call[c].tries = 0
    BY <1>4 DEF SetTTL, Typed
  <2> QED
    BY <1>1, <1>4, <2>1, SimpleSteps DEF Goings, GoesTo
<1>5. CASE AcquireLock(c)
  BY <1>5, AcquireLockGoes DEF Goings, GoesTo
<1>6. CASE ReadEntries(c)
  BY <1>1, <1>6, ReadEntriesGoes DEF Goings
<1>7. CASE HDel(c)
  <2>1. call[c].evict # {}
    BY <1>7 DEF HDel, Evictions, Evicting
  <2> QED
    BY <1>1, <1>7, <2>1, HDelGoes DEF Goings
<1>8. CASE Summarize(c) \/ WriteSummary(c) \/ Die(c)
  BY <1>1, <1>8, SimpleSteps DEF Goings, GoesTo
<1>9. CASE GetLock(c) \/ DeleteLock(c)
  BY <1>1, <1>9, ReleaseGoes DEF Goings, GoesTo
<1>10. CASE Error(c)
  BY <1>1, <1>10, ErrorGoes DEF Goings
<1> QED
  BY <1>2, <1>3, <1>4, <1>5, <1>6, <1>7, <1>8, <1>9, <1>10 DEF Step

LEMMA Summaries ==
  ASSUME WorkingMemoryTypeOK, NEW c \in Calls
  PROVE  /\ Entry(c) \in Entries /\ Entry(c).ts = call[c].ts
         /\ [by |-> c, ts |-> clock, summary |-> TRUE] \in Entries
  BY CallTyped DEF Entry, Entries, CallStates

LEMMA TypedStep == Typed /\ Evictions /\ [Next]_vars => Typed'
<1> SUFFICES ASSUME Typed, Evictions, [Next]_vars PROVE Typed'
  OBVIOUS
<1>1. /\ WorkingMemoryTypeOK /\ call \in [Calls -> CallStates] /\ strategy \in Strategies
      /\ hash \subseteq Entries /\ written \subseteq Entries /\ ttl \in BOOLEAN
      /\ lock \in Locks /\ clock \in Nat /\ folded \subseteq Entries \X Entries
      /\ overruns \in 0..MaxFaults /\ overruns \in Nat
      /\ IsFiniteSet(written) /\ IsFiniteSet(FailedCalls)
  BY CallTyped DEF Typed
<1>2. ASSUME NEW c \in Calls, Step(c) \/ Error(c) \/ Die(c) PROVE Typed'
  <2>1. Goings(c)
    BY <1>2, CallGoes
  <2>2. IsFiniteSet(FailedCalls')
    <3>1. FailedCalls' \subseteq FailedCalls \cup {c}
      BY <2>1 DEF FailedCalls, Failed, Goings, Goes
    <3>2. IsFiniteSet(FailedCalls \cup {c})
      BY <1>1, FS_AddElement
    <3> QED
      BY <3>1, <3>2, FS_Subset
  <2>3. /\ strategy' \in Strategies /\ ttl' \in BOOLEAN /\ clock' \in Nat /\ lock' \in Locks
        /\ overruns' \in 0..MaxFaults
    <3>1. strategy' = strategy /\ overruns' = overruns
      BY <1>2 DEF Step, MakeEntry, HSet, SetTTL, AcquireLock, ReadEntries, Summarize, HDel,
         WriteSummary, GetLock, DeleteLock, Error, Die
    <3>2. ttl' \in BOOLEAN
      BY <1>1, <1>2 DEF Step, MakeEntry, HSet, SetTTL, AcquireLock, ReadEntries, Summarize, HDel,
         WriteSummary, GetLock, DeleteLock, Error, Die, Write, Remove
    <3>3. clock' \in Nat
      BY <1>1, <1>2 DEF Step, MakeEntry, HSet, SetTTL, AcquireLock, ReadEntries, Summarize, HDel,
         WriteSummary, GetLock, DeleteLock, Error, Die
    <3>4. lock' \in Locks
      <4>1. lock' = lock \/ lock' = NoLock \/ lock' = [token |-> ManagerOf[c], by |-> c]
        BY <1>2 DEF Step, MakeEntry, HSet, SetTTL, AcquireLock, ReadEntries, Summarize, HDel,
           WriteSummary, GetLock, DeleteLock, Error, Die
      <4> QED
        BY <1>1, <4>1 DEF Locks
    <3> QED
      BY <1>1, <3>1, <3>2, <3>3, <3>4
  <2>4. PICK e \in Entries : hash' \subseteq hash \cup {e} /\ written' \subseteq written \cup {e}
                           /\ folded' \subseteq folded \cup (call[c].all \X {e})
    <3>1. CASE HSet(c)
      BY <1>1, <3>1, Summaries DEF HSet, Write
    <3>2. CASE WriteSummary(c)
      BY <1>1, <3>2, Summaries DEF WriteSummary, Write
    <3>3. CASE ~(HSet(c) \/ WriteSummary(c))
      <4>1. hash' \subseteq hash /\ written' = written /\ folded' = folded
        BY <1>2, <3>3 DEF Step, MakeEntry, SetTTL, AcquireLock, ReadEntries, Summarize, HDel,
           GetLock, DeleteLock, Error, Die, Remove
      <4> QED
        BY <1>1, <4>1, Summaries
    <3> QED
      BY <3>1, <3>2, <3>3
  <2>5. /\ hash' \subseteq Entries /\ written' \subseteq Entries
        /\ folded' \subseteq Entries \X Entries /\ IsFiniteSet(written')
    <3>1. call[c].all \subseteq Entries
      BY <1>1 DEF CallStates
    <3>2. IsFiniteSet(written \cup {e})
      BY <1>1, FS_AddElement
    <3>3. IsFiniteSet(written')
      BY <2>4, <3>2, FS_Subset
    <3> QED
      BY <1>1, <2>4, <3>1, <3>3
  <2>6. WorkingMemoryTypeOK'
    BY <2>1, <2>3, <2>5, TypedAgain DEF Goings, Goes
  <2> QED
    BY <2>1, <2>2, <2>5, <2>6 DEF Typed, Goings, Goes
<1>3. CASE LockExpires
  <2>1. overruns' \in 0..MaxFaults
    <3>1. Failures \in Nat
      BY <1>1, FS_CardinalityType DEF Failures, FailedCalls, Failed
    <3>2. MaxFaults \in Nat
      OBVIOUS
    <3> QED
      BY <1>1, <1>3, <3>1, <3>2 DEF LockExpires, Faults
  <2>2. lock' \in Locks /\ UNCHANGED <<strategy, hash, ttl, clock, call, written, folded>>
    BY <1>3 DEF LockExpires, Locks
  <2>3. WorkingMemoryTypeOK'
    BY <1>1, <2>1, <2>2, TypedAgain
  <2>4. FailedCalls' = FailedCalls
    BY <2>2 DEF FailedCalls, Failed
  <2> QED
    BY <1>1, <2>2, <2>3, <2>4 DEF Typed
<1>4. CASE UNCHANGED vars
  <2>1. FailedCalls' = FailedCalls
    BY <1>4 DEF FailedCalls, Failed, vars
  <2>2. WorkingMemoryTypeOK'
    BY <1>1, <1>4, TypedAgain DEF vars
  <2> QED
    BY <1>1, <1>4, <2>1, <2>2 DEF Typed, vars
<1> QED
  BY <1>2, <1>3, <1>4 DEF Next

-----------------------------------------------------------------------------
(* Timestamps, the newest entries and what is being evicted.               *)

\* The steps that make no entry.
Others(c) ==
  SetTTL(c) \/ AcquireLock(c) \/ ReadEntries(c) \/ Summarize(c) \/ HDel(c) \/ GetLock(c)
    \/ DeleteLock(c) \/ Error(c) \/ Die(c)

LEMMA OthersGo ==
  ASSUME Typed, Evictions, NEW c \in Calls, Others(c)
  PROVE  /\ Goes(c) /\ call'[c].ts = call[c].ts /\ call'[c].pc \notin {"idle", "hset"}
         /\ hash' \subseteq hash /\ UNCHANGED <<strategy, clock, written, folded>>
<1>1. WorkingMemoryTypeOK /\ call \in [Calls -> CallStates]
  BY CallTyped DEF Typed
<1>2. hash' \subseteq hash /\ UNCHANGED <<strategy, clock, written, folded>>
  BY DEF Others, SetTTL, AcquireLock, ReadEntries, Summarize, HDel, GetLock, DeleteLock, Error, Die,
     Remove
<1>3. Goes(c) /\ call'[c].ts = call[c].ts /\ call'[c].pc \notin {"idle", "hset"}
  <2>1. CASE SetTTL(c) \/ Summarize(c) \/ Die(c)
    BY <1>1, <2>1, SimpleSteps DEF GoesTo
  <2>2. CASE AcquireLock(c)
    BY <2>2, AcquireLockGoes DEF GoesTo
  <2>3. CASE ReadEntries(c)
    BY <1>1, <2>3, ReadEntriesGoes
  <2>4. CASE HDel(c)
    <3>1. call[c].evict # {}
      BY <2>4 DEF HDel, Evictions, Evicting
    <3> QED
      BY <1>1, <2>4, <3>1, HDelGoes
  <2>5. CASE GetLock(c) \/ DeleteLock(c)
    BY <1>1, <2>5, ReleaseGoes DEF GoesTo
  <2>6. CASE Error(c)
    BY <1>1, <2>6, ErrorGoes
  <2> QED
    BY <2>1, <2>2, <2>3, <2>4, <2>5, <2>6 DEF Others
<1> QED
  BY <1>2, <1>3

\* Which steps there are, for the parts of the invariant.
LEMMA StepKinds ==
  ASSUME [Next]_vars
  PROVE  \/ \E c \in Calls : MakeEntry(c) \/ HSet(c) \/ WriteSummary(c) \/ Others(c)
         \/ LockExpires \/ UNCHANGED vars
  BY DEF Next, Step, Others

LEMMA StampedStep == Typed /\ Stamped /\ Evictions /\ [Next]_vars => Stamped'
<1> SUFFICES ASSUME Typed, Stamped, Evictions, [Next]_vars PROVE Stamped'
  OBVIOUS
<1>1. /\ WorkingMemoryTypeOK /\ call \in [Calls -> CallStates] /\ clock \in Nat
      /\ \A e \in written : e.ts \in Nat
  BY CallTyped DEF Typed, Entries
<1>2. \A c \in Calls : call[c].ts \in Nat
  BY <1>1 DEF CallStates
<1>3. ASSUME NEW c \in Calls, MakeEntry(c) PROVE Stamped'
  <2>1. /\ Goes(c) /\ call'[c].pc = "hset" /\ call'[c].ts = clock /\ clock' = clock + 1
        /\ hash' = hash /\ written' = written
    BY <1>1, <1>3, MakeEntryGoes DEF MakeEntry
  <2>2. \A e \in written : e.ts < clock' /\ e.ts # clock
    BY <1>1, <2>1 DEF Stamped
  <2>3. ASSUME NEW d \in Calls, call'[d].pc = "hset", d # c
        PROVE  call'[d] = call[d] /\ call[d].pc = "hset" /\ call[d].ts < clock
    BY <2>1, <2>3 DEF Goes, Stamped
  <2>4. ASSUME NEW d \in Calls, call'[d].pc = "hset"
        PROVE  call'[d].ts < clock' /\ \A e \in written : e.ts # call'[d].ts
    <3>1. CASE d = c
      BY <1>1, <2>1, <2>2, <3>1
    <3>2. CASE d # c
      <4>1. call'[d].ts = call[d].ts /\ call[d].ts < clock /\ call[d].ts \in Nat
        BY <1>2, <2>3, <2>4, <3>2
      <4>2. \A e \in written : e.ts # call[d].ts
        BY <2>3, <2>4, <3>2 DEF Stamped
      <4> QED
        BY <1>1, <2>1, <4>1, <4>2
    <3> QED
      BY <3>1, <3>2
  <2>5. ASSUME NEW d \in Calls, NEW f \in Calls, call'[d].pc = "hset", call'[f].pc = "hset",
               call'[d].ts = call'[f].ts
        PROVE  d = f
    <3>1. CASE d # c /\ f # c
      BY <2>3, <2>5, <3>1 DEF Stamped
    <3>2. CASE d = c /\ f # c
      BY <1>1, <2>1, <2>3, <2>5, <3>2
    <3>3. CASE d # c /\ f = c
      BY <1>1, <2>1, <2>3, <2>5, <3>3
    <3> QED
      BY <3>1, <3>2, <3>3
  <2> QED
    BY <2>1, <2>2, <2>4, <2>5 DEF Stamped
<1>4. ASSUME NEW c \in Calls, HSet(c) PROVE Stamped'
  <2> DEFINE x == Entry(c)
  <2>1. /\ Goes(c) /\ call'[c].pc = "expire" /\ clock' = clock /\ call[c].pc = "hset"
        /\ hash' = hash \cup {x} /\ written' = written \cup {x} /\ x.ts = call[c].ts
    BY <1>1, <1>4, SimpleSteps, Summaries DEF HSet, Write, GoesTo
  <2> HIDE DEF x
  <2>2. x.ts < clock /\ \A e \in written : e.ts # x.ts
    BY <2>1 DEF Stamped
  <2>3. \A d \in Calls : call'[d].pc = "hset" => d # c /\ call'[d] = call[d]
    BY <2>1 DEF Goes
  <2>4. \A d \in Calls : call'[d].pc = "hset" => call[d].ts # x.ts
    BY <2>1, <2>3 DEF Stamped
  <2> QED
    BY <2>1, <2>2, <2>3, <2>4 DEF Stamped
<1>5. ASSUME NEW c \in Calls, WriteSummary(c) PROVE Stamped'
  <2> DEFINE x == [by |-> c, ts |-> clock, summary |-> TRUE]
  <2>1. /\ Goes(c) /\ call'[c].pc = "get" /\ clock' = clock + 1
        /\ hash' = hash \cup {x} /\ written' = written \cup {x} /\ x.ts = clock
    BY <1>1, <1>5, SimpleSteps DEF WriteSummary, Write, GoesTo
  <2> HIDE DEF x
  <2>2. \A e \in written' : e.ts < clock'
    BY <1>1, <2>1 DEF Stamped
  <2>3. \A e \in written : e.ts # x.ts
    BY <1>1, <2>1 DEF Stamped
  <2>4. \A d \in Calls : call'[d].pc = "hset" => call'[d] = call[d]
    BY <2>1 DEF Goes
  <2>5. \A d \in Calls : call'[d].pc = "hset" =>
          call'[d].ts < clock' /\ \A e \in written' : e.ts # call'[d].ts
    BY <1>1, <1>2, <2>1, <2>4 DEF Stamped
  <2> QED
    BY <2>1, <2>2, <2>3, <2>4, <2>5 DEF Stamped
<1>6. ASSUME NEW c \in Calls, Others(c) PROVE Stamped'
  <2>1. /\ Goes(c) /\ call'[c].pc # "hset" /\ hash' \subseteq hash
        /\ clock' = clock /\ written' = written
    BY <1>6, OthersGo
  <2>2. \A d \in Calls : call'[d].pc = "hset" => call'[d] = call[d]
    BY <2>1 DEF Goes
  <2> QED
    BY <2>1, <2>2 DEF Stamped
<1>7. CASE LockExpires \/ UNCHANGED vars
  BY <1>7 DEF LockExpires, vars, Stamped
<1> QED
  BY <1>3, <1>4, <1>5, <1>6, <1>7, StepKinds

LEMMA NewerMore ==
  ASSUME NEW e, written \subseteq written', IsFiniteSet(written')
  PROVE  /\ Newer(e) \subseteq Newer(e)' /\ Cardinality(Newer(e)) \in Nat
         /\ Cardinality(Newer(e)') \in Nat /\ Cardinality(Newer(e)) <= Cardinality(Newer(e)')
<1> DEFINE N == {f \in written' : Older(e, f)}
           M == {f \in written : Older(e, f)}
<1>1. IsFiniteSet(N) /\ N \subseteq written' /\ M \subseteq N
  BY FS_Subset
<1>2. IsFiniteSet(M) /\ Cardinality(M) <= Cardinality(N)
  BY <1>1, FS_Subset
<1>3. Newer(e) = M /\ Newer(e)' = N
  BY DEF Newer, Older
<1> HIDE DEF M, N
<1>4. Cardinality(M) \in Nat /\ Cardinality(N) \in Nat
  BY <1>1, <1>2, FS_CardinalityType
<1> QED
  BY <1>1, <1>2, <1>3, <1>4

LEMMA EvictingStill ==
  ASSUME written \subseteq written', IsFiniteSet(written'), strategy' = strategy,
         NEW d \in Calls, Evicting(d), call'[d].evict \subseteq call[d].evict,
         call'[d].all = call[d].all,
         call'[d].pc \in {"idle", "hset", "expire", "acquire", "read"} => call[d].all = {},
         call'[d].pc \in {"summarize", "trim"} => call'[d].evict # {}
  PROVE  Evicting(d)'
<1>1. \A e \in call'[d].evict : Newer(e)' # {}
  BY NewerMore DEF Evicting
<1>2. Sliding' => \A e \in call'[d].evict : Cardinality(Newer(e)') >= window_size
  <2> SUFFICES ASSUME Sliding, NEW e \in call'[d].evict
               PROVE  Cardinality(Newer(e)') >= window_size
    BY DEF Sliding
  <2>1. Cardinality(Newer(e)) >= window_size
    BY DEF Evicting
  <2> QED
    BY <2>1, NewerMore
<1>3. /\ call'[d].evict \subseteq call'[d].all /\ call'[d].all \subseteq written'
      /\ call'[d].pc \in {"idle", "hset", "expire", "acquire", "read"} => call'[d].all = {}
      /\ call'[d].pc \in {"summarize", "trim"} => call'[d].evict # {}
  BY DEF Evicting
<1> QED
  BY <1>1, <1>2, <1>3 DEF Evicting

LEMMA WrittenGrows ==
  ASSUME [Next]_vars
  PROVE  written \subseteq written' /\ strategy' = strategy
  BY DEF Next, Step, MakeEntry, HSet, SetTTL, AcquireLock, ReadEntries, Summarize, HDel,
     WriteSummary, GetLock, DeleteLock, Error, Die, LockExpires, Write, vars

LEMMA EvictionsStep == Typed /\ Stamped /\ Evictions /\ [Next]_vars => Evictions'
<1> SUFFICES ASSUME Typed, Stamped, Evictions, [Next]_vars, NEW d \in Calls PROVE Evicting(d)'
  BY DEF Evictions
<1>1. /\ WorkingMemoryTypeOK /\ Evicting(d) /\ written \subseteq written' /\ strategy' = strategy
      /\ IsFiniteSet(written')
  BY WrittenGrows, TypedStep DEF Typed, Evictions
<1>2. ASSUME call'[d] = call[d] PROVE Evicting(d)'
  <2>1. /\ call[d].pc \in {"idle", "hset", "expire", "acquire", "read"} => call[d].all = {}
        /\ call[d].pc \in {"summarize", "trim"} => call[d].evict # {}
    BY <1>1 DEF Evicting
  <2> QED
    BY <1>1, <1>2, <2>1, EvictingStill
<1>3. ASSUME NEW c \in Calls, c # d, Goes(c) PROVE Evicting(d)'
  BY <1>2, <1>3 DEF Goes
<1>4. ASSUME GoesTo(d, call'[d].pc),
             call'[d].pc \in {"idle", "hset", "expire", "acquire", "read"} => call[d].all = {},
             call'[d].pc \in {"summarize", "trim"} => call[d].evict # {}
      PROVE  Evicting(d)'
  BY <1>1, <1>4, EvictingStill DEF GoesTo
<1>5. CASE MakeEntry(d)
  <2>1. call[d].all = {} /\ call'[d].pc = "hset" /\ call'[d].all = call[d].all
        /\ call'[d].evict = call[d].evict
    BY <1>1, <1>5, MakeEntryGoes DEF MakeEntry, Evicting
  <2> QED
    BY <1>1, <2>1, EvictingStill
<1>6. CASE HSet(d) \/ SetTTL(d) \/ AcquireLock(d)
  <2>1. call[d].all = {}
    BY <1>1, <1>6 DEF HSet, SetTTL, AcquireLock, Evicting
  <2>2. GoesTo(d, call'[d].pc) /\ call'[d].pc \in {"expire", "acquire", "read", "skipped"}
    BY <1>1, <1>6, SimpleSteps, AcquireLockGoes DEF GoesTo
  <2> QED
    BY <1>4, <2>1, <2>2
<1>7. CASE Summarize(d) \/ WriteSummary(d) \/ Die(d)
  <2>1. call[d].pc = "summarize" \/ ~Summarize(d)
    BY DEF Summarize
  <2>2. GoesTo(d, call'[d].pc) /\ call'[d].pc \in {"trim", "get", "dead"}
        /\ (call'[d].pc = "trim" => Summarize(d))
    BY <1>1, <1>7, SimpleSteps DEF GoesTo
  <2>3. call[d].pc = "summarize" => call[d].evict # {}
    BY <1>1 DEF Evicting
  <2> QED
    BY <1>4, <2>1, <2>2, <2>3
<1>8. CASE GetLock(d) \/ DeleteLock(d)
  <2>1. GoesTo(d, call'[d].pc) /\ call'[d].pc \in {"delete", "failed", "done"}
    BY <1>1, <1>8, ReleaseGoes DEF GoesTo
  <2> QED
    BY <1>4, <2>1
<1>9. CASE Error(d)
  <2>1. /\ call'[d].pc \in {"get", "failed"} /\ call'[d].all = call[d].all
        /\ call'[d].evict = call[d].evict
    BY <1>1, <1>9, ErrorGoes
  <2> QED
    BY <1>1, <2>1, EvictingStill
<1>10. CASE HDel(d)
  <2>1. call[d].evict # {}
    BY <1>1, <1>10 DEF HDel, Evicting
  <2>2. /\ call'[d].evict \subseteq call[d].evict /\ call'[d].all = call[d].all
        /\ call'[d].pc \in {"trim", "get", "fold"} /\ (call'[d].pc = "trim" => call'[d].evict # {})
    BY <1>1, <1>10, <2>1, HDelGoes
  <2> QED
    BY <1>1, <2>2, EvictingStill
<1>11. CASE ReadEntries(d)
  <2>1. /\ hash \subseteq Entries /\ hash \subseteq written /\ IsFiniteSet(hash)
        /\ \A e, f \in hash : e.ts = f.ts => e = f
    BY FS_Subset, CallTyped DEF Typed, Stamped
  <2>2. /\ call'[d].evict = ToEvict(hash) /\ call'[d].all = ToEvict(hash)
        /\ call'[d].pc \in {"get", "trim", "summarize"}
        /\ (call'[d].pc # "get" => ToEvict(hash) # {}) /\ written' = written
    BY <1>1, <1>11, ReadEntriesGoes DEF ReadEntries
  <2>3. ASSUME NEW e \in ToEvict(hash)
        PROVE  /\ e \in hash /\ Newer(e)' # {}
               /\ Sliding => Cardinality(Newer(e)') >= window_size
    <3> DEFINE B == {f \in hash : Older(e, f)}
    <3>1. e \in hash /\ B # {} /\ (Sliding => Cardinality(B) >= window_size)
      BY <2>1, EvictOvertaken
    <3>2. Newer(e)' = {f \in written : Older(e, f)}
      BY <2>2 DEF Newer, Older
    <3>3. B \subseteq Newer(e)'
      BY <2>1, <3>2
    <3>4. IsFiniteSet(Newer(e)')
      BY <2>1, <3>2, FS_Subset DEF Typed
    <3> HIDE DEF B
    <3>5. Cardinality(B) <= Cardinality(Newer(e)') /\ Cardinality(Newer(e)') \in Nat
          /\ Cardinality(B) \in Nat
      BY <3>3, <3>4, FS_Subset, FS_CardinalityType
    <3>6. Sliding => Cardinality(Newer(e)') >= window_size
      BY <3>1, <3>5
    <3> QED
      BY <3>1, <3>3, <3>6
  <2>4. Sliding' <=> Sliding
    BY <1>1 DEF Sliding
  <2>5. /\ call'[d].evict \subseteq call'[d].all /\ call'[d].all \subseteq written'
        /\ call'[d].pc \in {"idle", "hset", "expire", "acquire", "read"} => call'[d].all = {}
        /\ call'[d].pc \in {"summarize", "trim"} => call'[d].evict # {}
    BY <2>1, <2>2, <2>3
  <2>6. /\ \A e \in call'[d].evict : Newer(e)' # {}
        /\ Sliding' => \A e \in call'[d].evict : Cardinality(Newer(e)') >= window_size
    BY <2>2, <2>3, <2>4
  <2> QED
    BY <2>5, <2>6 DEF Evicting
<1>12. CASE LockExpires \/ UNCHANGED vars
  BY <1>2, <1>12 DEF LockExpires, vars
<1>13. ASSUME NEW c \in Calls, c # d, Step(c) \/ Error(c) \/ Die(c) PROVE Evicting(d)'
  BY <1>3, <1>13, CallGoes DEF Goings
<1> QED
  BY <1>5, <1>6, <1>7, <1>8, <1>9, <1>10, <1>11, <1>12, <1>13 DEF Next, Step

\* What a step deletes was being evicted, and what it writes is new.
LEMMA HashChanges ==
  ASSUME Typed, Stamped, Evictions, [Next]_vars
  PROVE  \/ hash' = hash /\ written' = written
         \/ \E e \in Entries : /\ hash' = hash \cup {e} /\ written' = written \cup {e}
                               /\ \A f \in written : f.ts # e.ts
         \/ \E c \in Calls : /\ HDel(c) /\ Goes(c) /\ written' = written
                             /\ \E e \in call[c].evict : hash' = hash \ {e}
<1>1. WorkingMemoryTypeOK /\ clock \in Nat /\ \A f \in written : f.ts \in Nat
  BY CallTyped DEF Typed, Entries
<1>2. ASSUME NEW c \in Calls, HSet(c)
      PROVE  \E e \in Entries : /\ hash' = hash \cup {e} /\ written' = written \cup {e}
                                /\ \A f \in written : f.ts # e.ts
  <2> DEFINE x == Entry(c)
  <2>1. x \in Entries /\ x.ts = call[c].ts /\ hash' = hash \cup {x} /\ written' = written \cup {x}
    BY <1>1, <1>2, Summaries DEF HSet, Write
  <2>2. \A f \in written : f.ts # x.ts
    BY <1>2, <2>1 DEF HSet, Stamped
  <2> HIDE DEF x
  <2> QED
    BY <2>1, <2>2
<1>3. ASSUME NEW c \in Calls, WriteSummary(c)
      PROVE  \E e \in Entries : /\ hash' = hash \cup {e} /\ written' = written \cup {e}
                                /\ \A f \in written : f.ts # e.ts
  <2> DEFINE s == [by |-> c, ts |-> clock, summary |-> TRUE]
  <2>1. s \in Entries /\ s.ts = clock /\ hash' = hash \cup {s} /\ written' = written \cup {s}
    BY <1>1, <1>3, Summaries DEF WriteSummary, Write
  <2>2. \A f \in written : f.ts # s.ts
    BY <1>1, <2>1 DEF Stamped
  <2> QED
    BY <2>1, <2>2
<1>4. ASSUME NEW c \in Calls, HDel(c)
      PROVE  /\ Goes(c) /\ written' = written
             /\ \E e \in call[c].evict : hash' = hash \ {e}
  <2>1. call[c].evict # {}
    BY <1>4 DEF HDel, Evictions, Evicting
  <2>2. written' = written
    BY <1>4 DEF HDel
  <2> QED
    BY <1>1, <1>4, <2>1, <2>2, HDelGoes
<1>5. ASSUME NEW c \in Calls,
             \/ MakeEntry(c) \/ SetTTL(c) \/ AcquireLock(c) \/ ReadEntries(c) \/ Summarize(c)
             \/ GetLock(c) \/ DeleteLock(c) \/ Error(c) \/ Die(c)
      PROVE  hash' = hash /\ written' = written
  BY <1>5 DEF MakeEntry, SetTTL, AcquireLock, ReadEntries, Summarize, GetLock, DeleteLock, Error,
     Die
<1>6. CASE LockExpires \/ UNCHANGED vars
  BY <1>6 DEF LockExpires, vars
<1> QED
  BY <1>2, <1>3, <1>4, <1>5, <1>6 DEF Next, Step

LEMMA NewestThereStep ==
  Typed /\ Stamped /\ Evictions /\ NewestThere /\ [Next]_vars => NewestThere'
<1> SUFFICES ASSUME Typed, Stamped, Evictions, NewestThere, [Next]_vars, written' # {}
             PROVE  \E e \in hash' : \A f \in written' : f.ts <= e.ts
  BY DEF NewestThere
<1>1. hash \subseteq written /\ \A e \in written : e \in Entries /\ e.ts \in Nat
  BY CallTyped DEF Typed, Stamped, Entries
<1>2. CASE hash' = hash /\ written' = written
  BY <1>2 DEF NewestThere
<1>3. ASSUME NEW e \in Entries, hash' = hash \cup {e}, written' = written \cup {e}
      PROVE  \E m \in hash' : \A f \in written' : f.ts <= m.ts
  <2>1. e.ts \in Nat
    BY DEF Entries
  <2>2. CASE written = {}
    BY <1>3, <2>1, <2>2
  <2>3. CASE written # {}
    <3>1. PICK m \in hash : \A f \in written : f.ts <= m.ts
      BY <2>3 DEF NewestThere
    <3>2. m.ts \in Nat
      BY <1>1, <3>1
    <3>3. CASE e.ts <= m.ts
      BY <1>3, <3>1, <3>3
    <3>4. CASE m.ts < e.ts
      <4>1. \A f \in written : f.ts <= e.ts
        BY <1>1, <2>1, <3>1, <3>2, <3>4
      <4> QED
        BY <1>3, <2>1, <4>1
    <3> QED
      BY <2>1, <3>2, <3>3, <3>4
  <2> QED
    BY <2>2, <2>3
<1>4. ASSUME NEW c \in Calls, written' = written, NEW e \in call[c].evict, hash' = hash \ {e}
      PROVE  \E m \in hash' : \A f \in written' : f.ts <= m.ts
  <2>1. PICK m \in hash : \A f \in written : f.ts <= m.ts
    BY <1>4 DEF NewestThere
  <2>2. Newer(e) # {} /\ e \in written
    BY DEF Evictions, Evicting
  <2>3. PICK f \in written : e.ts < f.ts
    BY <2>2 DEF Newer, Older
  <2>4. m # e
    <3>1. f.ts <= m.ts /\ f.ts \in Nat /\ m.ts \in Nat /\ e.ts \in Nat
      BY <1>1, <2>1, <2>2, <2>3
    <3> QED
      BY <2>3, <3>1
  <2> QED
    BY <1>4, <2>1, <2>4
<1> QED
  BY <1>2, <1>3, <1>4, HashChanges

LEMMA NewestKeptStep ==
  Typed /\ Stamped /\ Evictions /\ NewestKept /\ [Next]_vars => NewestKept'
<1> SUFFICES ASSUME Typed, Stamped, Evictions, NewestKept, [Next]_vars PROVE NewestKept'
  OBVIOUS
<1> SUFFICES ASSUME Sliding, NEW e \in written' \ hash'
             PROVE  Cardinality(Newer(e)') >= window_size
  <2>1. Sliding' <=> Sliding
    BY WrittenGrows DEF Sliding
  <2>2. \A e : {f \in written' : Older(e, f)} = Newer(e)'
    BY DEF Newer, Older
  <2> QED
    BY <2>1, <2>2 DEF NewestKept, Older
<1>1. IsFiniteSet(written') /\ written \subseteq written'
  BY TypedStep, WrittenGrows DEF Typed
<1>2. ASSUME e \in written \ hash PROVE Cardinality(Newer(e)') >= window_size
  <2>1. Cardinality(Newer(e)) >= window_size
    BY <1>2 DEF NewestKept, Newer
  <2> QED
    BY <1>1, <2>1, NewerMore
<1>3. CASE hash' = hash /\ written' = written
  BY <1>2, <1>3
<1>4. ASSUME NEW x \in Entries, hash' = hash \cup {x}, written' = written \cup {x}
      PROVE  Cardinality(Newer(e)') >= window_size
  BY <1>2, <1>4
<1>5. ASSUME NEW c \in Calls, written' = written, NEW x \in call[c].evict, hash' = hash \ {x}
      PROVE  Cardinality(Newer(e)') >= window_size
  <2>1. CASE e = x
    <3>1. Cardinality(Newer(e)) >= window_size
      BY <2>1 DEF Evictions, Evicting
    <3> QED
      BY <1>1, <3>1, NewerMore
  <2>2. CASE e # x
    BY <1>2, <1>5, <2>2
  <2> QED
    BY <2>1, <2>2
<1> QED
  BY <1>3, <1>4, <1>5, HashChanges

-----------------------------------------------------------------------------
(* What was deleted, the lock and the time to live.                        *)

\* A call keeps what it took out, until it has written the summary.
LEMMA PassKept ==
  ASSUME Typed, Evictions, ~Sliding, [Next]_vars, NEW c \in Calls,
         call[c].all # {}, InPass(c) \/ call[c].raised \/ call[c].pc = "dead"
  PROVE  /\ call'[c].all = call[c].all \/ (call[c].pc = "read" /\ call[c].all = {})
         /\ \/ InPass(c)' \/ call'[c].raised \/ call'[c].pc = "dead"
            \/ (call[c].pc \in {"get", "delete"} /\ ~call[c].raised)
<1>1. WorkingMemoryTypeOK /\ call \in [Calls -> CallStates] /\ Evicting(c)
  BY CallTyped DEF Typed, Evictions
<1>2. call[c].pc \notin {"idle", "hset", "expire", "acquire", "read"}
  BY <1>1 DEF Evicting
<1> DEFINE Kept == \/ InPass(c)' \/ call'[c].raised \/ call'[c].pc = "dead"
                   \/ (call[c].pc \in {"get", "delete"} /\ ~call[c].raised)
<1> SUFFICES call'[c].all = call[c].all /\ Kept
  OBVIOUS
<1>3. ASSUME call'[c] = call[c] PROVE call'[c].all = call[c].all /\ Kept
  BY <1>3 DEF InPass
<1>4. CASE Summarize(c) \/ WriteSummary(c) \/ Die(c)
  BY <1>1, <1>4, SimpleSteps DEF GoesTo, InPass, PassPcs
<1>5. CASE HDel(c)
  <2>1. call[c].evict # {}
    BY <1>1, <1>5 DEF HDel, Evicting
  <2> QED
    BY <1>1, <1>5, <2>1, HDelGoes DEF InPass, PassPcs
<1>6. CASE GetLock(c) \/ DeleteLock(c)
  <2>1. call[c].pc \in {"get", "delete"}
    BY <1>6 DEF GetLock, DeleteLock
  <2>2. call'[c].all = call[c].all /\ call'[c].raised = call[c].raised
    BY <1>1, <1>6, ReleaseGoes DEF GoesTo
  <2> QED
    BY <2>1, <2>2
<1>7. CASE Error(c)
  BY <1>1, <1>7, ErrorGoes
<1>8. ASSUME NEW d \in Calls, d # c, Step(d) \/ Error(d) \/ Die(d)
      PROVE  call'[c].all = call[c].all /\ Kept
  <2>1. call'[c] = call[c]
    BY <1>8, CallGoes DEF Goings, Goes
  <2> QED
    BY <1>3, <2>1
<1>9. CASE LockExpires \/ UNCHANGED vars
  <2>1. call'[c] = call[c]
    BY <1>9 DEF LockExpires, vars
  <2> QED
    BY <1>3, <2>1
<1>10. ~(MakeEntry(c) \/ HSet(c) \/ SetTTL(c) \/ AcquireLock(c) \/ ReadEntries(c))
  BY <1>2 DEF MakeEntry, HSet, SetTTL, AcquireLock, ReadEntries
<1> HIDE DEF Kept
<1> QED
  BY <1>4, <1>5, <1>6, <1>7, <1>8, <1>9, <1>10 DEF Next, Step

LEMMA FoldedGrows ==
  ASSUME [Next]_vars PROVE folded \subseteq folded'
  BY DEF Next, Step, MakeEntry, HSet, SetTTL, AcquireLock, ReadEntries, Summarize, HDel,
     WriteSummary, GetLock, DeleteLock, Error, Die, LockExpires, vars

\* A pass gets to its end through its summary, or with nothing to condense.
LEMMA CondensedStep ==
  ASSUME Typed, Evictions, Accounted, ~Sliding, [Next]_vars, NEW c \in Calls,
         call'[c].pc \in {"get", "delete", "done"}, ~call'[c].raised
  PROVE  Condensed(call[c].all)'
<1>1. /\ WorkingMemoryTypeOK /\ call \in [Calls -> CallStates] /\ Evicting(c)
      /\ folded \subseteq folded'
  BY CallTyped, FoldedGrows DEF Typed, Evictions
<1>2. ASSUME call[c].pc \in {"get", "delete", "done"}, ~call[c].raised, call'[c].all = call[c].all
      PROVE  Condensed(call[c].all)'
  <2>1. Condensed(call[c].all)
    BY <1>2 DEF Accounted
  <2>2. \A e \in call[c].all : \E p \in folded' : p[1] = e
    BY <1>1, <2>1 DEF Condensed
  <2> QED
    BY <1>2, <2>2 DEF Condensed
<1>3. ASSUME call'[c] = call[c] PROVE Condensed(call[c].all)'
  BY <1>2, <1>3
<1>4. CASE WriteSummary(c)
  <2> DEFINE s == [by |-> c, ts |-> clock, summary |-> TRUE]
  <2>1. call'[c].all = call[c].all /\ folded' = folded \cup (call[c].all \X {s})
    BY <1>1, <1>4, SimpleSteps DEF WriteSummary, GoesTo
  <2> HIDE DEF s
  <2>2. ASSUME NEW e \in call[c].all PROVE \E p \in folded' : p[1] = e
    <3>1. <<e, s>> \in folded' /\ <<e, s>>[1] = e
      BY <2>1
    <3> QED
      BY <3>1
  <2> QED
    BY <2>1, <2>2 DEF Condensed
<1>5. CASE ReadEntries(c)
  <2>1. call'[c].all = {}
    BY <1>1, <1>5, ReadEntriesGoes
  <2> QED
    BY <2>1 DEF Condensed
<1>6. CASE GetLock(c) \/ DeleteLock(c)
  <2>1. /\ call[c].pc \in {"get", "delete"} /\ call'[c].all = call[c].all
        /\ call'[c].raised = call[c].raised
    BY <1>1, <1>6, ReleaseGoes DEF GoesTo, GetLock, DeleteLock
  <2> QED
    BY <1>2, <2>1
<1>7. CASE MakeEntry(c)
  BY <1>1, <1>7, MakeEntryGoes
<1>8. CASE HSet(c) \/ SetTTL(c) \/ Summarize(c) \/ Die(c)
  BY <1>1, <1>8, SimpleSteps DEF GoesTo
<1>9. CASE AcquireLock(c)
  BY <1>9, AcquireLockGoes DEF GoesTo
<1>10. CASE HDel(c)
  <2>1. call[c].evict # {}
    BY <1>1, <1>10 DEF HDel, Evicting
  <2> QED
    BY <1>1, <1>10, <2>1, HDelGoes
<1>11. CASE Error(c)
  BY <1>1, <1>11, ErrorGoes
<1>12. ASSUME NEW d \in Calls, d # c, Step(d) \/ Error(d) \/ Die(d) PROVE Condensed(call[c].all)'
  <2>1. call'[c] = call[c]
    BY <1>12, CallGoes DEF Goings, Goes
  <2> QED
    BY <1>3, <2>1
<1>13. CASE LockExpires \/ UNCHANGED vars
  <2>1. call'[c] = call[c]
    BY <1>13 DEF LockExpires, vars
  <2> QED
    BY <1>3, <2>1
<1> QED
  BY <1>4, <1>5, <1>6, <1>7, <1>8, <1>9, <1>10, <1>11, <1>12, <1>13 DEF Next, Step

LEMMA AccountedStep ==
  Typed /\ Stamped /\ Evictions /\ Accounted /\ [Next]_vars => Accounted'
<1> SUFFICES ASSUME Typed, Stamped, Evictions, Accounted, [Next]_vars PROVE Accounted'
  OBVIOUS
<1>1. /\ WorkingMemoryTypeOK /\ folded \subseteq folded' /\ (Sliding' <=> Sliding)
      /\ \A c \in Calls : Evicting(c)
  BY WrittenGrows, FoldedGrows DEF Typed, Sliding, Evictions
<1>2. ~Sliding' => \A c \in Calls :
        call'[c].pc \in {"get", "delete", "done"} /\ ~call'[c].raised => Condensed(call[c].all)'
  BY <1>1, CondensedStep
<1> DEFINE Taken(c) == InPass(c) \/ call[c].raised \/ call[c].pc = "dead"
<1>3. ASSUME ~Sliding, NEW c \in Calls, NEW e \in call[c].all, Taken(c)
      PROVE  \/ \E p \in folded' : p[1] = e
             \/ \E d \in Calls : e \in call'[d].all /\ Taken(d)'
  <2>1. call[c].all # {}
    BY <1>3
  <2>2. /\ call'[c].all = call[c].all
        /\ \/ Taken(c)' \/ (call[c].pc \in {"get", "delete"} /\ ~call[c].raised)
    BY <1>3, <2>1, PassKept
  <2>3. CASE Taken(c)'
    BY <1>3, <2>2, <2>3
  <2>4. CASE call[c].pc \in {"get", "delete"} /\ ~call[c].raised
    <3>1. Condensed(call[c].all)
      BY <1>3, <2>4 DEF Accounted
    <3> QED
      BY <1>1, <1>3, <3>1 DEF Condensed
  <2> QED
    BY <2>2, <2>3, <2>4
<1>4. ASSUME ~Sliding, NEW e \in written \ hash
      PROVE  \/ \E p \in folded' : p[1] = e
             \/ \E d \in Calls : e \in call'[d].all /\ Taken(d)'
  <2>1. \/ \E p \in folded : p[1] = e
        \/ \E c \in Calls : e \in call[c].all /\ Taken(c)
    BY <1>4 DEF Accounted, EntriesAccounted
  <2> HIDE DEF Taken
  <2> QED
    BY <1>1, <1>3, <1>4, <2>1
<1>5. ASSUME ~Sliding, NEW e \in written' \ hash'
      PROVE  \/ \E p \in folded' : p[1] = e
             \/ \E d \in Calls : e \in call'[d].all /\ Taken(d)'
  <2>1. CASE e \in written \ hash
    BY <1>4, <1>5, <2>1
  <2>2. ASSUME NEW c \in Calls, HDel(c), e \in call[c].evict
        PROVE  \/ \E p \in folded' : p[1] = e
               \/ \E d \in Calls : e \in call'[d].all /\ Taken(d)'
    <3>1. e \in call[c].all
      BY <1>1, <2>2 DEF Evicting
    <3>2. Taken(c)
      BY <2>2 DEF HDel, InPass, PassPcs
    <3> QED
      BY <1>3, <1>5, <3>1, <3>2
  <2>3. CASE hash' = hash /\ written' = written
    BY <1>5, <2>1, <2>3
  <2>4. ASSUME NEW x \in Entries, hash' = hash \cup {x}, written' = written \cup {x}
        PROVE  e \in written \ hash
    BY <1>5, <2>4
  <2>5. ASSUME NEW c \in Calls, written' = written, NEW x \in call[c].evict, hash' = hash \ {x}
        PROVE  e \in written \ hash \/ e = x
    BY <1>5, <2>5
  <2> HIDE DEF Taken
  <2> QED
    BY <2>1, <2>2, <2>3, <2>4, <2>5, HashChanges
<1>6. EntriesAccounted'
  BY <1>1, <1>5 DEF EntriesAccounted
<1> QED
  BY <1>2, <1>6 DEF Accounted

\* Without overruns a call in its pass holds the lock.
LEMMA LockHeldStep == Typed /\ Evictions /\ LockHeld /\ [Next]_vars => LockHeld'
<1> SUFFICES ASSUME Typed, Evictions, LockHeld, [Next]_vars, overruns' = 0,
                    NEW d \in Calls, InPass(d)'
             PROVE  lock'.by = d
  BY DEF LockHeld
<1>1. WorkingMemoryTypeOK /\ lock \in Locks /\ overruns \in Nat /\ d # None
  BY CallTyped DEF Typed
<1>2. ASSUME NEW c \in Calls, overruns = 0, InPass(c) PROVE lock.by = c /\ lock # NoLock
  <2>1. lock.by = c /\ c # None
    BY <1>2 DEF LockHeld
  <2> QED
    BY <2>1 DEF NoLock
<1>3. ASSUME NEW c \in Calls, Step(c) \/ Error(c) \/ Die(c) PROVE lock'.by = d
  <2>1. overruns = 0
    BY <1>3 DEF Step, MakeEntry, HSet, SetTTL, AcquireLock, ReadEntries, Summarize, HDel,
       WriteSummary, GetLock, DeleteLock, Error, Die
  <2>2. Goes(c)
    BY <1>3, CallGoes DEF Goings
  <2>3. CASE AcquireLock(c)
    <3>1. CASE lock = NoLock /\ lock' = [token |-> ManagerOf[c], by |-> c]
      <4>1. CASE d # c
        <5>1. InPass(d)
          BY <2>2, <4>1 DEF Goes, InPass
        <5> QED
          BY <1>2, <2>1, <3>1, <5>1
      <4>2. CASE d = c
        BY <3>1, <4>2
      <4> QED
        BY <4>1, <4>2
    <3>2. CASE lock' = lock /\ lock # NoLock
      <4>1. GoesTo(c, "acquire") \/ GoesTo(c, "skipped")
        BY <2>3, <3>2, AcquireLockGoes
      <4>2. d # c
        BY <4>1 DEF GoesTo, InPass, PassPcs
      <4>3. InPass(d)
        BY <2>2, <4>2 DEF Goes, InPass
      <4> QED
        BY <1>2, <2>1, <3>2, <4>3
    <3> QED
      BY <2>3, <3>1, <3>2, AcquireLockGoes
  <2>4. CASE DeleteLock(c)
    <3>1. d # c
      BY <1>1, <2>4, ReleaseGoes DEF GoesTo, InPass, PassPcs, GetLock, DeleteLock
    <3>2. InPass(d)
      BY <2>2, <3>1 DEF Goes, InPass
    <3>3. InPass(c)
      BY <2>4 DEF DeleteLock, InPass
    <3> QED
      BY <1>2, <2>1, <3>1, <3>2, <3>3
  <2>5. CASE ~(AcquireLock(c) \/ DeleteLock(c))
    <3>1. lock' = lock
      BY <1>3, <2>5 DEF Step, MakeEntry, HSet, SetTTL, ReadEntries, Summarize, HDel,
         WriteSummary, GetLock, Error, Die
    <3>2. CASE d # c
      <4>1. InPass(d)
        BY <2>2, <3>2 DEF Goes, InPass
      <4> QED
        BY <1>2, <2>1, <3>1, <4>1
    <3>3. CASE d = c
      <4>1. InPass(c)
        <5>1. CASE MakeEntry(c)
          BY <1>1, <3>3, <5>1, MakeEntryGoes DEF InPass, PassPcs
        <5>2. CASE HSet(c) \/ SetTTL(c) \/ Die(c)
          BY <1>1, <3>3, <5>2, SimpleSteps DEF GoesTo, InPass, PassPcs
        <5>3. CASE ReadEntries(c) \/ Summarize(c) \/ HDel(c) \/ WriteSummary(c) \/ GetLock(c)
          BY <5>3 DEF ReadEntries, Summarize, HDel, WriteSummary, GetLock, InPass, PassPcs
        <5>4. CASE Error(c)
          BY <1>1, <3>3, <5>4, ErrorGoes DEF InPass, PassPcs
        <5> QED
          BY <1>3, <2>5, <5>1, <5>2, <5>3, <5>4 DEF Step
      <4> QED
        BY <1>2, <2>1, <3>1, <3>3, <4>1
    <3> QED
      BY <3>2, <3>3
  <2> QED
    BY <2>3, <2>4, <2>5
<1>4. CASE LockExpires
  <2>1. InPass(d)
    BY <1>4 DEF LockExpires, InPass
  <2>2. overruns' = overruns /\ ~InPass(lock.by)
    BY <1>1, <1>4 DEF LockExpires
  <2> QED
    BY <1>2, <2>1, <2>2
<1>5. CASE UNCHANGED vars
  <2>1. InPass(d) /\ lock' = lock /\ overruns = 0
    BY <1>5 DEF vars, InPass
  <2> QED
    BY <1>2, <2>1
<1> QED
  BY <1>3, <1>4, <1>5 DEF Next

\* Once EXPIRE was sent the hash keeps its time to live, for it is never empty again.
LEMMA DatedStep ==
  Typed /\ Stamped /\ Evictions /\ NewestThere /\ Dated /\ [Next]_vars => Dated'
<1> SUFFICES ASSUME Typed, Stamped, Evictions, NewestThere, Dated, [Next]_vars PROVE Dated'
  OBVIOUS
<1>1. /\ WorkingMemoryTypeOK /\ written \subseteq written' /\ ttl \in BOOLEAN
      /\ (written' # {} => hash' # {}) /\ (written # {} => hash # {})
  BY WrittenGrows, NewestThereStep, CallTyped DEF Typed, NewestThere
<1>2. ASSUME NEW c \in Calls, call'[c].pc \notin {"idle", "hset", "failed", "dead"}
      PROVE  written' # {}
  <2>1. ASSUME call[c].pc \notin {"idle", "hset", "failed", "dead"} PROVE written' # {}
    BY <1>1, <2>1 DEF Dated
  <2>2. CASE HSet(c)
    BY <2>2 DEF HSet, Write
  <2>3. CASE MakeEntry(c)
    BY <1>1, <1>2, <2>3, MakeEntryGoes
  <2>4. CASE Error(c)
    BY <1>1, <1>2, <2>1, <2>4, ErrorGoes DEF PassPcs
  <2>5. CASE Die(c)
    BY <1>1, <1>2, <2>5, SimpleSteps DEF GoesTo
  <2>6. CASE \/ SetTTL(c) \/ AcquireLock(c) \/ ReadEntries(c) \/ Summarize(c) \/ HDel(c)
             \/ WriteSummary(c) \/ GetLock(c) \/ DeleteLock(c)
    BY <2>1, <2>6 DEF SetTTL, AcquireLock, ReadEntries, Summarize, HDel, WriteSummary, GetLock,
       DeleteLock
  <2>7. ASSUME NEW d \in Calls, d # c, Step(d) \/ Error(d) \/ Die(d) PROVE written' # {}
    <3>1. call'[c] = call[c]
      BY <2>7, CallGoes DEF Goings, Goes
    <3> QED
      BY <1>2, <2>1, <3>1
  <2>8. CASE LockExpires \/ UNCHANGED vars
    BY <1>2, <2>1, <2>8 DEF LockExpires, vars
  <2> QED
    BY <2>2, <2>3, <2>4, <2>5, <2>6, <2>7, <2>8 DEF Next, Step
<1>3. ttl' \/ written' = {} \/ \E c \in Calls : call'[c].pc = "expire" \/ Failed(c)'
  <2>1. ASSUME ttl, written' # {} PROVE ttl'
    BY <1>1, <2>1 DEF Next, Step, MakeEntry, HSet, SetTTL, AcquireLock, ReadEntries, Summarize,
       HDel,
       WriteSummary, GetLock, DeleteLock, Error, Die, LockExpires, Remove, Write, vars
  <2>2. ASSUME written = {}, written' # {} PROVE \E c \in Calls : call'[c].pc = "expire"
    <3>1. PICK c \in Calls : HSet(c) \/ WriteSummary(c)
      BY <2>2 DEF Next, Step, MakeEntry, SetTTL, AcquireLock, ReadEntries, Summarize, HDel,
         GetLock, DeleteLock, Error, Die, LockExpires, vars
    <3>2. ~WriteSummary(c)
      BY <2>2 DEF WriteSummary, Dated
    <3> QED
      BY <1>1, <3>1, <3>2, SimpleSteps DEF GoesTo
  <2>3. ASSUME NEW c \in Calls, call[c].pc = "expire" \/ Failed(c)
        PROVE  ttl' \/ call'[c].pc = "expire" \/ Failed(c)'
    <3>1. ASSUME call'[c] = call[c] PROVE call'[c].pc = "expire" \/ Failed(c)'
      BY <2>3, <3>1 DEF Failed
    <3>2. ASSUME Failed(c), Step(c) \/ Error(c) \/ Die(c) PROVE Failed(c)'
      <4>1. call[c].pc # "dead"
        BY <3>2 DEF Step, MakeEntry, HSet, SetTTL, AcquireLock, ReadEntries, Summarize, HDel,
           WriteSummary, GetLock, DeleteLock, Error, Die, PassPcs
      <4> QED
        BY <3>2, <4>1, CallGoes DEF Failed, Goings
    <3>3. ASSUME call[c].pc = "expire", Step(c) PROVE ttl'
      <4>1. SetTTL(c)
        BY <3>3 DEF Step, MakeEntry, HSet, AcquireLock, ReadEntries, Summarize, HDel,
           WriteSummary, GetLock, DeleteLock
      <4>2. hash # {}
        BY <1>1, <3>3 DEF Dated
      <4> QED
        BY <4>1, <4>2 DEF SetTTL
    <3>4. ASSUME Error(c) \/ Die(c) PROVE Failed(c)'
      BY <1>1, <3>4, ErrorGoes, SimpleSteps DEF Failed, GoesTo
    <3>5. ASSUME NEW d \in Calls, d # c, Step(d) \/ Error(d) \/ Die(d) PROVE call'[c] = call[c]
      BY <3>5, CallGoes DEF Goings, Goes
    <3>6. CASE LockExpires \/ UNCHANGED vars
      BY <3>1, <3>6 DEF LockExpires, vars
    <3> QED
      BY <2>3, <3>1, <3>2, <3>3, <3>4, <3>5, <3>6 DEF Next
  <2> QED
    BY <2>1, <2>2, <2>3 DEF Dated
<1> QED
  BY <1>2, <1>3 DEF Dated

-----------------------------------------------------------------------------
(* The invariant and the theorems.                                         *)

LEMMA IInvInit == Init => IInv
<1> SUFFICES ASSUME Init PROVE IInv
  OBVIOUS
<1>1. /\ \A c \in Calls : /\ call[c].pc = "idle" /\ call[c].tries = 0 /\ ~call[c].raised
                          /\ call[c].evict = {} /\ call[c].all = {}
      /\ written = {} /\ hash = {} /\ folded = {} /\ lock = NoLock
  BY DEF Init
<1>2. FailedCalls = {}
  BY <1>1 DEF FailedCalls, Failed
<1>3. WorkingMemoryTypeOK
  <2>1. call \in [Calls -> CallStates]
    <3>1. "idle" \in Pcs
      BY PcsNamed
    <3> QED
      BY <3>1 DEF Init, CallStates
  <2>2. /\ strategy \in Strategies /\ ttl \in BOOLEAN /\ lock \in Locks /\ clock \in Nat
        /\ overruns \in 0..MaxFaults
    <3>1. overruns = 0 /\ MaxFaults \in Nat /\ clock = 0 /\ ttl = FALSE /\ lock = NoLock
      BY DEF Init
    <3>2. strategy \in Strategies
      BY DEF Init
    <3>3. 0 \in 0..MaxFaults /\ 0 \in Nat
      BY <3>1
    <3>4. lock \in Locks
      BY <3>1 DEF Locks
    <3> QED
      BY <3>1, <3>2, <3>3, <3>4
  <2> QED
    BY <1>1, <2>1, <2>2 DEF WorkingMemoryTypeOK, CallStates, Pcs
<1>4. Typed
  BY <1>1, <1>2, <1>3, FS_EmptySet DEF Typed
<1>5. Stamped /\ Evictions /\ NewestThere
  BY <1>1 DEF Stamped, Evictions, Evicting, NewestThere
<1>6. NewestKept /\ Accounted
  BY <1>1 DEF NewestKept, Accounted, EntriesAccounted
<1>7. LockHeld /\ Dated
  BY <1>1 DEF LockHeld, InPass, PassPcs, Dated
<1> QED
  BY <1>4, <1>5, <1>6, <1>7 DEF IInv

LEMMA IInvStep == IInv /\ [Next]_vars => IInv'
  BY TypedStep, StampedStep, EvictionsStep, NewestThereStep, NewestKeptStep, AccountedStep,
     LockHeldStep, DatedStep DEF IInv

LEMMA HoldersAlone == LockHeld => OnePassAtATime
  BY DEF LockHeld, OnePassAtATime, InPass

LEMMA LeftoverDated ==
  ASSUME Typed, Stamped, Dated PROVE LeftoverExpires
<1> SUFFICES ASSUME AtRest, hash # {}, ~ttl PROVE Failures > 0
  BY DEF LeftoverExpires
<1>1. PICK c \in Calls : call[c].pc = "expire" \/ Failed(c)
  BY DEF Dated, Stamped
<1>2. Failed(c)
  BY <1>1 DEF AtRest
<1>3. FailedCalls # {} /\ IsFiniteSet(FailedCalls)
  BY <1>2 DEF FailedCalls, Typed
<1>4. Cardinality(FailedCalls) \in Nat /\ Cardinality(FailedCalls) # 0
  BY <1>3, FS_CardinalityType, FS_EmptySet
<1>5. Failures = Cardinality(FailedCalls)
  BY DEF Failures, FailedCalls, Failed
<1> QED
  BY <1>4, <1>5

(* For any number of add_entry calls, managers and faults: the calls, the  *)
(* hash and the lock keep the shape memory/working.py gives them, and a    *)
(* call tries for the lock at most _APPLY_STRATEGY_LOCK_RETRIES times more.*)
THEOREM MemoryTypeCorrect == Spec => []WorkingMemoryTypeOK
<1>1. IInv => WorkingMemoryTypeOK
  BY DEF IInv, Typed
<1> QED
  BY <1>1, IInvInit, IInvStep, PTL DEF Spec

(* For any window_size: SlidingWindowStrategy evicts an entry only when    *)
(* window_size newer ones were written, in whatever order overlapping,     *)
(* dying and outdated passes send their HDELs.                             *)
THEOREM NewestKeptCorrect == Spec => []NewestKept
<1>1. IInv => NewestKept
  BY DEF IInv
<1> QED
  BY <1>1, IInvInit, IInvStep, PTL DEF Spec

(* For any token_budget: an entry that SummarizationStrategy took out has  *)
(* its summary, or the call that took it out is in its pass or failed.     *)
THEOREM AccountsCorrect == Spec => []EntriesAccounted
<1>1. IInv => EntriesAccounted
  BY DEF IInv, Accounted
<1> QED
  BY <1>1, IInvInit, IInvStep, PTL DEF Spec

(* For any number of processes: as long as no pass outlasts the lock's     *)
(* TTL, _apply_strategy runs in one call at a time.                        *)
THEOREM PassesCorrect == Spec => []OnePassAtATime
<1>1. IInv => OnePassAtATime
  BY HoldersAlone DEF IInv
<1> QED
  BY <1>1, IInvInit, IInvStep, PTL DEF Spec

(* With either strategy: a hash that is left without a time to live is     *)
(* left by a call that broke off, although a summary is written without an *)
(* EXPIRE, because no pass deletes the newest entry.                       *)
THEOREM LeftoverCorrect == Spec => []LeftoverExpires
<1>1. IInv => LeftoverExpires
  BY LeftoverDated DEF IInv
<1> QED
  BY <1>1, IInvInit, IInvStep, PTL DEF Spec
=============================================================================
