--------------------------- MODULE WorkingMemory ---------------------------
(***************************************************************************)
(* The working memory of a run (motoro/memory/working.py): a Redis hash of *)
(* entries, shared by every add_entry call for the run, with an eviction   *)
(* strategy applied under a Redis lock that expires.  Every Redis command  *)
(* is one step; commands of different calls interleave.                    *)
(***************************************************************************)
EXTENDS Naturals, FiniteSets

CONSTANTS
  Calls,         \* the add_entry calls
  Managers,      \* the WorkingMemoryManager objects, each with one lock token
  ManagerOf,     \* the manager each call is made on
  None,
  Strategies,    \* the strategies the memory may be configured with
  window_size,
  token_budget,  \* in entries: an entry is estimated at one token
  MaxFaults      \* bound: calls that die or lose Redis in the middle, and
                 \* passes that outlast the lock's TTL

ASSUME WorkingMemoryAssumption ==
  /\ ManagerOf \in [Calls -> Managers]
  /\ None \notin Calls \cup Managers
  /\ Strategies \subseteq {"sliding_window", "summarization"}
  /\ window_size \in Nat \ {0} /\ token_budget \in Nat \ {0}
  /\ MaxFaults \in Nat

_APPLY_STRATEGY_LOCK_RETRIES == 2

VARIABLES
  strategy, \* the strategy the managers were made with
  hash,     \* the entries in the hash
  ttl,      \* the hash has a time to live
  lock,     \* the lock: the token in it, and (history) the call that set it
  clock,    \* time.time(), advanced by every entry made
  call,     \* the add_entry calls
  written,  \* history: every entry ever written
  folded,   \* history: pairs <<entry, summary>> of entries a summary stands for
  overruns  \* history: passes that outlasted the lock's TTL

vars == <<strategy, hash, ttl, lock, clock, call, written, folded, overruns>>

Sliding == strategy = "sliding_window"

(* An entry: the call that made it, its timestamp, and whether it is a     *)
(* summary.                                                                *)
Entries == [by: Calls, ts: Nat, summary: BOOLEAN]

NoLock == [token |-> None, by |-> None]
Locks == [token: Managers, by: Calls] \cup {NoLock}

Older(e, f) == e.ts < f.ts

(* get_entries sorts by timestamp: the n oldest of a set.                  *)
Oldest(S, n) == {e \in S : Cardinality({f \in S : Older(f, e)}) < n}

PassPcs == {"read", "trim", "summarize", "fold"}

WorkingMemoryTypeOK ==
  /\ strategy \in Strategies
  /\ hash \subseteq Entries /\ written \subseteq Entries
  /\ ttl \in BOOLEAN
  /\ lock \in Locks
  /\ clock \in Nat
  /\ call \in [Calls -> [pc: {"idle", "hset", "expire", "acquire", "get", "delete", "done",
                             "skipped", "failed", "dead"} \cup PassPcs,
                        ts: Nat, tries: 0..(_APPLY_STRATEGY_LOCK_RETRIES + 1),
                        evict: SUBSET Entries, all: SUBSET Entries, raised: BOOLEAN]]
  /\ folded \subseteq Entries \X Entries
  /\ overruns \in 0..MaxFaults

Init ==
  /\ strategy \in Strategies
  /\ hash = {} /\ ttl = FALSE /\ lock = NoLock /\ clock = 0
  /\ call = [c \in Calls |-> [pc |-> "idle", ts |-> 0, tries |-> 0, evict |-> {}, all |-> {},
                              raised |-> FALSE]]
  /\ written = {} /\ folded = {} /\ overruns = 0

Entry(c) == [by |-> c, ts |-> call[c].ts, summary |-> FALSE]

(* Redis drops a hash with its last field, and its time to live with it.   *)
Write(e) == hash' = hash \cup {e} /\ written' = written \cup {e}
Remove(S) == hash' = hash \ S /\ ttl' = (ttl /\ hash' # {})

-----------------------------------------------------------------------------
(* add_entry                                                               *)

(* The entry gets its timestamp before it is written.                      *)
MakeEntry(c) ==
  /\ call[c].pc = "idle"
  /\ call' = [call EXCEPT ![c].pc = "hset", ![c].ts = clock]
  /\ clock' = clock + 1
  /\ UNCHANGED <<strategy, hash, ttl, lock, written, folded, overruns>>

HSet(c) ==
  /\ call[c].pc = "hset"
  /\ Write(Entry(c))
  /\ call' = [call EXCEPT ![c].pc = "expire"]
  /\ UNCHANGED <<strategy, ttl, lock, clock, folded, overruns>>

(* Mutant of SetTTL: no EXPIRE.                                            *)
SetTTLSkipped(c) ==
  /\ call[c].pc = "expire" /\ call' = [call EXCEPT ![c].pc = "acquire"]
  /\ UNCHANGED <<strategy, hash, ttl, lock, clock, written, folded, overruns>>

(* EXPIRE does nothing to a key that is gone.                              *)
SetTTL(c) ==
  /\ call[c].pc = "expire"
  /\ ttl' = (hash # {})
  /\ call' = [call EXCEPT ![c].pc = "acquire"]
  /\ UNCHANGED <<strategy, hash, lock, clock, written, folded, overruns>>

(* Mutant of AcquireLock: a SET without NX.                                *)
AcquireLockAlways(c) ==
  /\ call[c].pc = "acquire"
  /\ lock' = [token |-> ManagerOf[c], by |-> c]
  /\ call' = [call EXCEPT ![c].pc = "read"]
  /\ UNCHANGED <<strategy, hash, ttl, clock, written, folded, overruns>>

(* Mutant of AcquireLock: retried without end.                             *)
AcquireLockRetries(c) ==
  /\ call[c].pc = "acquire"
  /\ IF lock = NoLock
     THEN /\ lock' = [token |-> ManagerOf[c], by |-> c]
          /\ call' = [call EXCEPT ![c].pc = "read"]
     ELSE call' = [call EXCEPT ![c].tries = @ + 1] /\ UNCHANGED lock
  /\ UNCHANGED <<strategy, hash, ttl, clock, written, folded, overruns>>

(* _acquire_lock: SET NX EX, retried after a short sleep; a call that      *)
(* never gets the lock skips its pass.                                     *)
AcquireLock(c) ==
  /\ call[c].pc = "acquire"
  /\ \/ /\ lock = NoLock
        /\ lock' = [token |-> ManagerOf[c], by |-> c]
        /\ call' = [call EXCEPT ![c].pc = "read"]
     \/ /\ lock # NoLock
        /\ call' = [call EXCEPT ![c].tries = @ + 1,
                                ![c].pc = IF call[c].tries < _APPLY_STRATEGY_LOCK_RETRIES
                                          THEN "acquire" ELSE "skipped"]
        /\ UNCHANGED lock
  /\ UNCHANGED <<strategy, hash, ttl, clock, written, folded, overruns>>

(* Mutant of ToEvict: off by one, one entry more than needed goes.         *)
ToEvictMore(S) ==
  LET n == Cardinality(S)
  IN IF n > window_size THEN Oldest(S, n - window_size + 1) ELSE {}

(* Mutant of ToEvict: off by one, the window is found full too late.       *)
ToEvictLate(S) ==
  LET n == Cardinality(S)
  IN IF n > window_size + 1 THEN Oldest(S, n - window_size) ELSE {}

(* get_entries, and what the strategy evicts of what it returned.          *)
ToEvict(S) ==
  LET n == Cardinality(S)
      keep == IF n \div 2 > 1 THEN n \div 2 ELSE 1
  IN IF Sliding THEN IF n > window_size THEN Oldest(S, n - window_size) ELSE {}
     ELSE IF n > token_budget THEN Oldest(S, n - keep) ELSE {}

ReadEntries(c) ==
  /\ call[c].pc = "read"
  /\ LET evict == ToEvict(hash)
     IN call' = [call EXCEPT ![c].evict = evict, ![c].all = evict,
                             ![c].pc = IF evict = {} THEN "get"
                                       ELSE IF Sliding THEN "trim" ELSE "summarize"]
  /\ UNCHANGED <<strategy, hash, ttl, lock, clock, written, folded, overruns>>

(* The model condenses the entries; it may be slow.                        *)
Summarize(c) ==
  /\ call[c].pc = "summarize"
  /\ call' = [call EXCEPT ![c].pc = "trim"]
  /\ UNCHANGED <<strategy, hash, ttl, lock, clock, written, folded, overruns>>

(* One HDEL, of the oldest entry not yet deleted.                          *)
HDel(c) ==
  /\ call[c].pc = "trim"
  /\ LET e == CHOOSE x \in call[c].evict : \A y \in call[c].evict : ~Older(y, x)
     IN /\ Remove({e})
        /\ call' = [call EXCEPT ![c].evict = @ \ {e},
                                ![c].pc = IF call[c].evict # {e} THEN "trim"
                                          ELSE IF Sliding THEN "get" ELSE "fold"]
  /\ UNCHANGED <<strategy, lock, clock, written, folded, overruns>>

(* Mutant of WriteSummary: an empty summary is not written.                *)
WriteNoSummary(c) ==
  /\ call[c].pc = "fold" /\ call' = [call EXCEPT ![c].pc = "get"]
  /\ UNCHANGED <<strategy, hash, ttl, lock, clock, written, folded, overruns>>

(* The summary is written with a new timestamp, and without an EXPIRE.     *)
WriteSummary(c) ==
  /\ call[c].pc = "fold"
  /\ LET s == [by |-> c, ts |-> clock, summary |-> TRUE]
     IN Write(s) /\ folded' = folded \cup (call[c].all \X {s})
  /\ clock' = clock + 1
  /\ call' = [call EXCEPT ![c].pc = "get"]
  /\ UNCHANGED <<strategy, ttl, lock, overruns>>

(* _release_lock: GET the lock, DELETE it when it holds our token.         *)
GetLock(c) ==
  /\ call[c].pc = "get"
  /\ call' = [call EXCEPT ![c].pc = IF lock.token = ManagerOf[c] THEN "delete"
                                    ELSE IF call[c].raised THEN "failed" ELSE "done"]
  /\ UNCHANGED <<strategy, hash, ttl, lock, clock, written, folded, overruns>>

DeleteLock(c) ==
  /\ call[c].pc = "delete"
  /\ lock' = NoLock
  /\ call' = [call EXCEPT ![c].pc = IF call[c].raised THEN "failed" ELSE "done"]
  /\ UNCHANGED <<strategy, hash, ttl, clock, written, folded, overruns>>

-----------------------------------------------------------------------------
(* Failures                                                                *)

Failures == Cardinality({c \in Calls : call[c].pc = "dead" \/ call[c].raised})

Faults == Failures + overruns

(* A Redis or model error: during a pass the lock is still released.       *)
Error(c) ==
  /\ Faults < MaxFaults
  /\ call[c].pc \in {"hset", "expire", "acquire"} \cup PassPcs
  /\ call' = [call EXCEPT ![c].raised = TRUE,
                          ![c].pc = IF call[c].pc \in PassPcs THEN "get" ELSE "failed"]
  /\ UNCHANGED <<strategy, hash, ttl, lock, clock, written, folded, overruns>>

(* The process dies; a lock it holds stays until its TTL is over.          *)
Die(c) ==
  /\ Faults < MaxFaults
  /\ call[c].pc \in {"hset", "expire", "acquire", "get", "delete"} \cup PassPcs
  /\ call' = [call EXCEPT ![c].pc = "dead"]
  /\ UNCHANGED <<strategy, hash, ttl, lock, clock, written, folded, overruns>>

InPass(c) == call[c].pc \in PassPcs \cup {"get", "delete"}

(* The lock's TTL is over, with the call that took it dead or still in its *)
(* pass.                                                                   *)
LockExpires ==
  /\ lock # NoLock
  /\ lock' = NoLock
  /\ \/ ~InPass(lock.by) /\ UNCHANGED overruns
     \/ InPass(lock.by) /\ Faults < MaxFaults /\ overruns' = overruns + 1
  /\ UNCHANGED <<strategy, hash, ttl, clock, call, written, folded>>

Step(c) == \/ MakeEntry(c) \/ HSet(c) \/ SetTTL(c) \/ AcquireLock(c) \/ ReadEntries(c)
           \/ Summarize(c) \/ HDel(c) \/ WriteSummary(c) \/ GetLock(c) \/ DeleteLock(c)

Next == \/ \E c \in Calls : Step(c) \/ Error(c) \/ Die(c)
        \/ LockExpires

Spec == Init /\ [][Next]_vars

-----------------------------------------------------------------------------
(* Properties                                                              *)

AtRest == \A c \in Calls : call[c].pc \in {"idle", "done", "skipped", "failed", "dead"}

(* The newest window_size entries written are in the hash, whatever passes *)
(* overlap, die or work from an outdated reading: an entry is evicted only *)
(* when window_size newer ones were written.                               *)
NewestKept ==
  Sliding => \A e \in written \ hash :
               Cardinality({f \in written : Older(e, f)}) >= window_size

(* An entry that is not in the hash is accounted for: a summary stands for *)
(* it, or a pass took it out and has not written its summary (yet, or      *)
(* because it failed half way).                                            *)
EntriesAccounted ==
  ~Sliding => \A e \in written \ hash :
    \/ \E p \in folded : p[1] = e
    \/ \E c \in Calls : e \in call[c].all /\ (InPass(c) \/ call[c].raised \/ call[c].pc = "dead")

(* No two passes run at once, as long as none outlasts the lock's TTL.     *)
OnePassAtATime ==
  overruns = 0 => \A c, d \in Calls : c # d => ~(call[c].pc \in PassPcs /\ call[d].pc \in PassPcs)

(* The window overflows at most by the entries whose calls skipped or      *)
(* failed their pass.  It does overflow by those: the pass a skipping call *)
(* relies on may have read the entries before that call's was written.     *)
OverflowBounded ==
  Sliding /\ AtRest =>
    Cardinality(hash) <= window_size +
      Cardinality({c \in Calls : call[c].pc \in {"skipped", "failed", "dead"}})

(* A hash that is left behind has a time to live, though a summary is      *)
(* written without one; only a call that broke off can leave it without.   *)
LeftoverExpires ==
  AtRest /\ hash # {} /\ ~ttl => Failures > 0

(* _release_lock's docstring: "we never delete a lock another process took *)
(* over (e.g. after a TTL expiry on a slow strategy run)".                 *)
ReleaseOnlyOwn ==
  [][\A c \in Calls : DeleteLock(c) /\ lock # NoLock => ManagerOf[lock.by] = ManagerOf[c]]_vars
=============================================================================
