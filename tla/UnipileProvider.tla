--------------------------- MODULE UnipileProvider ---------------------------
(***************************************************************************)
(* unipile.Provider: the campaign, jobs and feed loops call Get once per   *)
(* step or tick, concurrently, to obtain a client for the credentials in   *)
(* the environment.  Get first looks at `shared` without the lock, a data  *)
(* race with the write under the lock: such a read may return any value    *)
(* that the reading loop has not yet seen replaced.                        *)
(***************************************************************************)
EXTENDS Naturals, Sequences

CONSTANTS
  Loops,         \* the goroutines that call Get
  Credentials,   \* values of (UNIPILE_DSN, UNIPILE_API_KEY, DRY_RUN)
  Missing,       \* the value without a DSN or without a key
  MaxRotations,  \* bound: how often the operator changes the environment
  Nobody         \* the lock is free

ASSUME ProviderAssumption ==
  /\ Missing \notin Credentials /\ Nobody \notin Loops
  /\ MaxRotations \in Nat

VARIABLES
  env,        \* what p.read returns
  writes,     \* the clients ever stored in p.shared, by their p.last; the last
              \* one is what the lock's holder finds there
  seen,       \* per loop: how many of these writes it is certain to see
  lock,       \* p.mu
  pc, key,    \* per loop: position in Get, and what it read there
  rotations,  \* how often env has changed
  result,     \* per loop: the credentials of Get's client, Missing for an error
  slow,       \* history: whether Get went past the unlocked read
  during      \* history: the values env had since the loop called Get

vars == <<env, writes, seen, lock, pc, key, rotations, result, slow, during>>

Values == Credentials \cup {Missing}

Init ==
  /\ env \in Values
  /\ writes = <<>>
  /\ seen = [l \in Loops |-> 0]
  /\ lock = Nobody
  /\ pc = [l \in Loops |-> "idle"]
  /\ key = [l \in Loops |-> Missing]
  /\ rotations = 0
  /\ result = [l \in Loops |-> Missing]
  /\ slow = [l \in Loops |-> FALSE]
  /\ during = [l \in Loops |-> {}]

Goto(l, where) == pc' = [pc EXCEPT ![l] = where]

\* The indices of `writes` an unlocked read of p.shared may return; 0 is nil.
Visible(l) == seen[l]..Len(writes)

\* Get is called and reads p.shared, lines 46 to 49.
FastPath(l) ==
  /\ pc[l] = "idle"
  /\ during' = [during EXCEPT ![l] = {env}]
  /\ \E i \in Visible(l) :
       \/ /\ i = 0
          /\ Goto(l, "read")
          /\ slow' = [slow EXCEPT ![l] = TRUE]
          /\ UNCHANGED <<seen, result>>
       \/ /\ i > 0
          /\ seen' = [seen EXCEPT ![l] = i]
          /\ slow' = [slow EXCEPT ![l] = FALSE]
          /\ result' = [result EXCEPT ![l] = writes[i]]
          /\ UNCHANGED pc
  /\ UNCHANGED <<env, writes, lock, key, rotations>>

ReadEnv(l) ==
  /\ pc[l] = "read" /\ Goto(l, "lock")
  /\ key' = [key EXCEPT ![l] = env]
  /\ UNCHANGED <<env, writes, seen, lock, rotations, result, slow, during>>

Lock(l) ==
  /\ pc[l] = "lock" /\ lock = Nobody
  /\ lock' = l /\ Goto(l, "build")
  /\ seen' = [seen EXCEPT ![l] = Len(writes)]
  /\ UNCHANGED <<env, writes, key, rotations, result, slow, during>>

\* Variants: the second look at p.shared dropped, and its comparison.
CachedNever(l) == FALSE
CachedWhatever(l) == writes # <<>>
\* Line 56: a client for the same credentials is there.
Cached(l) == writes # <<>> /\ writes[Len(writes)] = key[l]

\* Variant: an early return forgets the lock.
UnlockAfterBuild(l) == lock' = IF Cached(l) THEN lock ELSE Nobody
Unlock(l) == lock' = Nobody

\* The rest of Get, under the lock.  NewClient refuses missing credentials.
Build(l) ==
  /\ pc[l] = "build" /\ Goto(l, "idle") /\ Unlock(l)
  /\ key' = [key EXCEPT ![l] = Missing]
  /\ \/ /\ Cached(l)
        /\ result' = [result EXCEPT ![l] = writes[Len(writes)]]
        /\ UNCHANGED <<writes, seen>>
     \/ /\ ~Cached(l) /\ key[l] \in Credentials
        /\ writes' = Append(writes, key[l])
        /\ seen' = [seen EXCEPT ![l] = Len(writes) + 1]
        /\ result' = [result EXCEPT ![l] = key[l]]
     \/ /\ ~Cached(l) /\ key[l] = Missing
        /\ result' = [result EXCEPT ![l] = Missing]
        /\ UNCHANGED <<writes, seen>>
  /\ UNCHANGED <<env, rotations, slow, during>>

\* The operator rotates the credentials.
Rotate ==
  /\ rotations < MaxRotations /\ rotations' = rotations + 1
  /\ env' \in Values \ {env}
  /\ during' = [l \in Loops |-> during[l] \cup {env'}]
  /\ UNCHANGED <<writes, seen, lock, pc, key, result, slow>>

Get(l) == FastPath(l) \/ ReadEnv(l) \/ Lock(l) \/ Build(l)
Next == Rotate \/ \E l \in Loops : Get(l)
Spec == Init /\ [][Next]_vars

\* A goroutine inside Get runs on; sync.Mutex starves nobody.
Fairness == \A l \in Loops : WF_vars(ReadEnv(l)) /\ SF_vars(Lock(l)) /\ WF_vars(Build(l))
FairSpec == Spec /\ Fairness

-----------------------------------------------------------------------------
(* Properties                                                              *)

TypeOK ==
  /\ env \in Values /\ writes \in Seq(Credentials)
  /\ seen \in [Loops -> Nat] /\ \A l \in Loops : seen[l] <= Len(writes)
  /\ lock \in Loops \cup {Nobody}
  /\ pc \in [Loops -> {"idle", "read", "lock", "build"}]
  /\ \A l \in Loops : pc[l] = "build" <=> lock = l
  /\ key \in [Loops -> Values] /\ result \in [Loops -> Values]
  /\ rotations \in Nat /\ slow \in [Loops -> BOOLEAN]
  /\ during \in [Loops -> SUBSET Values]

\* While the credentials stay the same all loops share one client, although they
\* look at p.shared without the lock and may all find it nil.
OneClientUntilRotation == rotations = 0 => Len(writes) <= 1

\* A Get that went past the unlocked read returns a client for credentials that
\* were in the environment during the call, also when another loop built it.
SlowPathIsCurrent ==
  \A l \in Loops :
    pc[l] = "idle" /\ slow[l] /\ result[l] # Missing => result[l] \in during[l]

\* Every Get returns: no early return keeps the lock.
GetReturns == \A l \in Loops : pc[l] # "idle" ~> pc[l] = "idle"

\* Get's comment: "if the env values haven't changed since the last call it returns
\* the same cached *Client; otherwise a fresh one is built", so the client is one
\* for credentials the environment had during the call.
ClientIsCurrent ==
  \A l \in Loops : pc[l] = "idle" /\ result[l] # Missing => result[l] \in during[l]
=============================================================================
