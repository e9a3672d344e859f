------------------------ MODULE UnipileProviderProofs ------------------------
(***************************************************************************)
(* For any number of loops, credentials and rotations: the lock of Get is  *)
(* taken and freed as it should, one client is built until the credentials *)
(* change, and a Get that takes the slow path answers with credentials of  *)
(* its own time.                                                           *)
(***************************************************************************)
EXTENDS UnipileProvider, TLAPS

-----------------------------------------------------------------------------
(* Types                                                                   *)

\* Every variable keeps its type, a loop sees no write that has not been made, and the
\* lock is held exactly by the loop that builds (Provider.Get).
THEOREM TypeCorrect == Spec => []TypeOK
<1>1. Init => TypeOK
  <2> SUFFICES ASSUME Init PROVE TypeOK
    OBVIOUS
  <2>1. writes \in Seq(Credentials) /\ Len(writes) = 0
    BY DEF Init
  <2>2. QED
    BY <2>1, ProviderAssumption DEF Init, TypeOK, Values
<1>2. TypeOK /\ [Next]_vars => TypeOK'
  <2> SUFFICES ASSUME TypeOK, [Next]_vars PROVE TypeOK'
    OBVIOUS
  <2> USE DEF TypeOK
  <2>1. CASE UNCHANGED vars
    BY <2>1 DEF vars
  <2>2. CASE Rotate
    BY <2>2 DEF Rotate, Values
  <2>3. ASSUME NEW l \in Loops, FastPath(l) PROVE TypeOK'
    <3>1. PICK i \in Visible(l) : \/ i = 0 /\ Goto(l, "read") /\ UNCHANGED <<seen, result>>
                                      /\ slow' = [slow EXCEPT ![l] = TRUE]
                                  \/ i > 0 /\ seen' = [seen EXCEPT ![l] = i] /\ UNCHANGED pc
                                      /\ slow' = [slow EXCEPT ![l] = FALSE]
                                      /\ result' = [result EXCEPT ![l] = writes[i]]
      BY <2>3 DEF FastPath
    <3>2. i \in Nat /\ i <= Len(writes) /\ (i > 0 => writes[i] \in Values)
      BY DEF Visible, Values
    <3>3. /\ env \in Values /\ pc[l] = "idle" /\ during' = [during EXCEPT ![l] = {env}]
          /\ UNCHANGED <<env, writes, lock, key, rotations>>
      BY <2>3 DEF FastPath
    <3>4. slow' \in [Loops -> BOOLEAN] /\ during' \in [Loops -> SUBSET Values]
      BY <3>1, <3>3
    <3>5. CASE i = 0
      <4>1. pc' = [pc EXCEPT ![l] = "read"] /\ UNCHANGED <<seen, result>>
        BY <3>1, <3>5 DEF Goto
      <4>2. pc' \in [Loops -> {"idle", "read", "lock", "build"}]
        BY <4>1
      <4>3. \A k \in Loops : pc'[k] = "build" <=> lock' = k
        BY <4>1, <3>3
      <4>4. QED
        BY <3>3, <3>4, <4>1, <4>2, <4>3
    <3>6. CASE i > 0
      <4>1. /\ seen' = [seen EXCEPT ![l] = i] /\ result' = [result EXCEPT ![l] = writes[i]]
            /\ UNCHANGED pc
        BY <3>1, <3>6
      <4>2. seen' \in [Loops -> Nat] /\ \A k \in Loops : seen'[k] <= Len(writes')
        BY <3>2, <3>3, <4>1
      <4>3. result' \in [Loops -> Values]
        BY <3>2, <3>6, <4>1
      <4>4. QED
        BY <3>3, <3>4, <4>1, <4>2, <4>3
    <3>7. QED
      BY <3>2, <3>5, <3>6
  <2>4. ASSUME NEW l \in Loops, ReadEnv(l) PROVE TypeOK'
    BY <2>4 DEF ReadEnv, Goto
  <2>5. ASSUME NEW l \in Loops, Lock(l) PROVE TypeOK'
    BY <2>5, ProviderAssumption DEF Lock, Goto
  <2>6. ASSUME NEW l \in Loops, Build(l) PROVE TypeOK'
    <3>1. lock = l /\ lock' = Nobody /\ pc' = [pc EXCEPT ![l] = "idle"]
      BY <2>6 DEF Build, Goto, Unlock
    <3>2. /\ key' = [key EXCEPT ![l] = Missing] /\ key' \in [Loops -> Values]
          /\ UNCHANGED <<env, rotations, slow, during>>
      BY <2>6 DEF Build, Values
    <3>3. CASE Cached(l) /\ result' = [result EXCEPT ![l] = writes[Len(writes)]]
                 /\ UNCHANGED <<writes, seen>>
      <4>1. writes[Len(writes)] \in Values
        BY <3>3 DEF Cached, Values
      <4>2. QED
        BY <3>1, <3>2, <3>3, <4>1, ProviderAssumption
    <3>4. CASE /\ key[l] \in Credentials /\ writes' = Append(writes, key[l])
               /\ seen' = [seen EXCEPT ![l] = Len(writes) + 1]
               /\ result' = [result EXCEPT ![l] = key[l]]
      <4>1. writes' \in Seq(Credentials) /\ Len(writes') = Len(writes) + 1
        BY <3>4
      <4>2. seen' \in [Loops -> Nat] /\ \A k \in Loops : seen'[k] <= Len(writes')
        BY <3>4, <4>1
      <4>3. QED
        BY <3>1, <3>2, <3>4, <4>1, <4>2, ProviderAssumption DEF Values
    <3>5. CASE result' = [result EXCEPT ![l] = Missing] /\ UNCHANGED <<writes, seen>>
      BY <3>1, <3>2, <3>5, ProviderAssumption DEF Values
    <3>6. QED
      BY <2>6, <3>3, <3>4, <3>5 DEF Build
  <2>7. QED
    BY <2>1, <2>2, <2>3, <2>4, <2>5, <2>6 DEF Next, Get
<1>3. QED
  BY <1>1, <1>2, PTL DEF Spec

-----------------------------------------------------------------------------
(* One client, of the credentials of the time                              *)

\* What the slow path knows.  While nothing is rotated, every key that was read and
\* every client are those of env; a key that was read, and the client another loop
\* built for it, are of a time after the call began.
SlowInv ==
  /\ rotations = 0 =>
       /\ \A l \in Loops : pc[l] \in {"lock", "build"} => key[l] = env
       /\ \A i \in 1..Len(writes) : writes[i] = env
       /\ Len(writes) <= 1
  /\ \A l \in Loops :
       /\ pc[l] = "read" => env \in during[l]
       /\ pc[l] \in {"lock", "build"} => key[l] \in during[l]
       /\ pc[l] = "idle" /\ slow[l] /\ result[l] # Missing => result[l] \in during[l]

\* Every step keeps what holds between the read of the environment and the answer.
LEMMA SlowStep == TypeOK /\ SlowInv /\ [Next]_vars => SlowInv'
<1> SUFFICES ASSUME TypeOK, SlowInv, [Next]_vars PROVE SlowInv'
  OBVIOUS
<1>1. CASE UNCHANGED vars
  BY <1>1 DEF vars, SlowInv
<1>2. CASE Rotate
  <2>1. rotations' # 0 /\ during' = [l \in Loops |-> during[l] \cup {env'}]
    BY <1>2 DEF Rotate, TypeOK
  <2>2. UNCHANGED <<writes, seen, lock, pc, key, result, slow>>
    BY <1>2 DEF Rotate
  <2>3. QED
    BY <2>1, <2>2 DEF SlowInv
<1>3. ASSUME NEW l \in Loops, FastPath(l) PROVE SlowInv'
  <2>1. /\ pc[l] = "idle" /\ during' = [during EXCEPT ![l] = {env}]
        /\ UNCHANGED <<env, writes, key, rotations>>
    BY <1>3 DEF FastPath
  <2>2. \/ pc' = [pc EXCEPT ![l] = "read"] /\ UNCHANGED result /\ slow' = [slow EXCEPT ![l] = TRUE]
        \/ UNCHANGED pc /\ slow' = [slow EXCEPT ![l] = FALSE]
             /\ \A k \in Loops \ {l} : result'[k] = result[k]
    BY <1>3 DEF FastPath, Goto, TypeOK
  <2>3. during'[l] = {env} /\ \A k \in Loops \ {l} : during'[k] = during[k]
    BY <2>1 DEF TypeOK
  <2>4. CASE pc' = [pc EXCEPT ![l] = "read"] /\ UNCHANGED result /\ slow' = [slow EXCEPT ![l] = TRUE]
    <3>1. pc'[l] = "read" /\ \A k \in Loops \ {l} : pc'[k] = pc[k] /\ slow'[k] = slow[k]
      BY <2>4 DEF TypeOK
    <3>2. QED
      BY <2>1, <2>3, <2>4, <3>1 DEF SlowInv
  <2>5. CASE UNCHANGED pc /\ slow' = [slow EXCEPT ![l] = FALSE]
             /\ \A k \in Loops \ {l} : result'[k] = result[k]
    <3>1. ~slow'[l] /\ \A k \in Loops \ {l} : slow'[k] = slow[k]
      BY <2>5 DEF TypeOK
    <3>2. QED
      BY <2>1, <2>3, <2>5, <3>1 DEF SlowInv
  <2>6. QED
    BY <2>2, <2>4, <2>5
<1>4. ASSUME NEW l \in Loops, ReadEnv(l) PROVE SlowInv'
  <2>1. /\ pc[l] = "read" /\ pc'[l] = "lock" /\ key'[l] = env
        /\ \A k \in Loops \ {l} : pc'[k] = pc[k] /\ key'[k] = key[k]
    BY <1>4 DEF ReadEnv, Goto, TypeOK
  <2>2. UNCHANGED <<env, writes, rotations, result, slow, during>>
    BY <1>4 DEF ReadEnv
  <2>3. QED
    BY <2>1, <2>2 DEF SlowInv
<1>5. ASSUME NEW l \in Loops, Lock(l) PROVE SlowInv'
  <2>1. /\ pc[l] = "lock" /\ pc'[l] = "build" /\ \A k \in Loops \ {l} : pc'[k] = pc[k]
    BY <1>5 DEF Lock, Goto, TypeOK
  <2>2. UNCHANGED <<env, writes, key, rotations, result, slow, during>>
    BY <1>5 DEF Lock
  <2>3. QED
    BY <2>1, <2>2 DEF SlowInv
<1>6. ASSUME NEW l \in Loops, Build(l) PROVE SlowInv'
  <2>1. /\ pc[l] = "build" /\ pc'[l] = "idle"
        /\ \A k \in Loops \ {l} : pc'[k] = pc[k] /\ key'[k] = key[k] /\ result'[k] = result[k]
        /\ UNCHANGED <<env, rotations, slow, during>>
    BY <1>6 DEF Build, Goto, TypeOK
  <2>2. result'[l] # Missing => result'[l] = key[l]
    BY <1>6 DEF Build, Cached, TypeOK
  <2>3. \/ UNCHANGED writes
        \/ ~Cached(l) /\ writes' = Append(writes, key[l])
    BY <1>6 DEF Build
  <2>4. rotations = 0 => (\A i \in 1..Len(writes') : writes'[i] = env) /\ Len(writes') <= 1
    <3>1. CASE UNCHANGED writes
      BY <3>1 DEF SlowInv
    <3>2. CASE ~Cached(l) /\ writes' = Append(writes, key[l])
      <4> SUFFICES ASSUME rotations = 0
                   PROVE  (\A i \in 1..Len(writes') : writes'[i] = env) /\ Len(writes') <= 1
        OBVIOUS
      <4>1. key[l] = env /\ Len(writes) <= 1 /\ \A i \in 1..Len(writes) : writes[i] = env
        BY <2>1 DEF SlowInv
      <4>2. writes = <<>>
        BY <3>2, <4>1 DEF Cached, TypeOK
      <4>3. QED
        BY <3>2, <4>1, <4>2
    <3>3. QED
      BY <2>3, <3>1, <3>2
  <2>5. QED
    BY <2>1, <2>2, <2>4 DEF SlowInv
<1>7. QED
  BY <1>1, <1>2, <1>3, <1>4, <1>5, <1>6 DEF Next, Get

\* It holds in every reachable state.
LEMMA SlowCorrect == Spec => []SlowInv
<1>1. Init => SlowInv
  BY DEF Init, SlowInv
<1>2. QED
  BY <1>1, SlowStep, TypeCorrect, PTL DEF Spec

\* While the credentials stay the same no second client is built, however stale the
\* unlocked reads of p.shared are (Provider.Get).
THEOREM OneClient == Spec => []OneClientUntilRotation
<1>1. SlowInv => OneClientUntilRotation
  BY DEF SlowInv, OneClientUntilRotation
<1>2. QED
  BY <1>1, SlowCorrect, PTL

\* A Get that took the lock answers with credentials the environment had during the
\* call, though another loop may have built the client (Provider.Get).
THEOREM SlowPathCurrent == Spec => []SlowPathIsCurrent
<1>1. SlowInv => SlowPathIsCurrent
  BY DEF SlowInv, SlowPathIsCurrent
<1>2. QED
  BY <1>1, SlowCorrect, PTL

=============================================================================
