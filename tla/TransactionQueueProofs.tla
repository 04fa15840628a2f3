----------------------- MODULE TransactionQueueProofs ------------------------
(***************************************************************************)
(* When calls of the transaction queue do not overlap, the nullifier map   *)
(* stays right, for every set of transactions, pool size and chain.  The   *)
(* inductive invariant follows one import through its steps: what is not   *)
(* yet recorded is the imported transaction alone, and once the replaced   *)
(* transactions are gone nothing pooled claims its nullifiers.             *)
(***************************************************************************)
EXTENDS TransactionQueue, TLAPS

Sequential == \A i, j \in Threads : i = j

Recorded(txs) == \A t \in txs : \A n \in NullifierSet[t] : nullifierPending[n] = t

Importing == {"imported", "clearing", "recording"}

ImportInv(i) ==
    /\ job[i].at \in {"idle", "collecting"} => job[i].tx = NoTransaction
    /\ job[i].at \in {"checked", "imported", "recording", "finishing"} => job[i].tx \in Transactions
    /\ job[i].at \in {"checked", "imported"} => job[i].replaced = ConflictTransactionHashes(job[i].tx)
    /\ job[i].at \in Importing => Recorded(pool \ {job[i].tx})
    /\ job[i].at \in {"clearing", "recording"} /\ job[i].tx \in Transactions =>
          \A n \in NullifierSet[job[i].tx] : nullifierPending[n] \notin pool \ {job[i].tx}

QueueInv ==
    /\ TypeOK
    /\ \A i \in Threads : ImportInv(i)
    /\ (\A i \in Threads : job[i].at \notin Importing) => Recorded(pool)

(***************************************************************************)
(* Every variable keeps its type through every step of the queue: import   *)
(* only puts transactions into the pool.                                   *)
(***************************************************************************)
LEMMA QueueTypes == QueueInv /\ [Next]_vars => TypeOK'
<1> SUFFICES ASSUME QueueInv, [Next]_vars PROVE TypeOK'
  OBVIOUS
<1> TypeOK
  BY DEF QueueInv
<1> USE QueueAssumption DEF TypeOK, Job, Stages, Idle, chain, locks, history
<1>1. ASSUME NEW i \in Threads, NEW t \in Transactions, Check(i, t) PROVE TypeOK'
  <2>1. ConflictTransactionHashes(t) \in SUBSET Transactions
    BY DEF ConflictTransactionHashes
  <2>2. [Idle EXCEPT !.at = "checked", !.tx = t, !.replaced = ConflictTransactionHashes(t)] \in Job
    BY <2>1
  <2> DEFINE new == [Idle EXCEPT !.at = "checked", !.tx = t, !.replaced = ConflictTransactionHashes(t)]
  <2>3. job' = job \/ job' = [job EXCEPT ![i] = new]
    BY <1>1 DEF Check
  <2>4. job' \in [Threads -> Job]
    <3> new \in Job
      BY <2>2
    <3> HIDE DEF new, Job, Idle
    <3> QED BY <2>3
  <2>5. rejected' \in SUBSET Transactions
    BY <1>1 DEF Check
  <2> HIDE DEF new, Job, Idle
  <2> QED BY <1>1, <2>4, <2>5 DEF Check
<1>2. ASSUME NEW i \in Threads, NEW t \in Transactions, RemoveCall(i, t) PROVE TypeOK'
  BY <1>2 DEF RemoveCall, Remove, Forget, At
<1>3. ASSUME NEW i \in Threads, PendingCached(i) PROVE TypeOK'
  <2>1. cached.txs \in SUBSET Transactions
    BY <1>3 DEF PendingCached, Valid
  <2>2. servedStale' \in SUBSET Transactions
    BY <1>3, <2>1 DEF PendingCached
  <2> HIDE DEF Job
  <2> QED BY <1>3, <2>2 DEF PendingCached
<1>4. ASSUME NEW i \in Threads, PendingLock(i) PROVE TypeOK'
  <2> DEFINE new == [job[i] EXCEPT !.at = "collecting", !.asked = number]
  <2>1. job' = [job EXCEPT ![i] = new]
    BY <1>4 DEF PendingLock
  <2>2. new \in Job
    <3> job[i] \in Job
      OBVIOUS
    <3> QED OBVIOUS
  <2> HIDE DEF Job, new
  <2>3. job' \in [Threads -> Job]
    BY <2>1, <2>2
  <2> QED BY <1>4, <2>3 DEF PendingLock
<1>5. ASSUME NEW i \in Threads, PoolImport(i) PROVE TypeOK'
  <2>1. job[i].tx \in Transactions
    BY <1>5 DEF PoolImport, QueueInv, ImportInv
  <2>2. pool' \in SUBSET Transactions /\ rejected' \in SUBSET Transactions
    BY <1>5, <2>1 DEF PoolImport
  <2>3. job' = [job EXCEPT ![i].at = "imported"] \/ job' = [job EXCEPT ![i] = Idle]
    BY <1>5 DEF PoolImport, At
  <2> DEFINE moved == [job[i] EXCEPT !.at = "imported"]
  <2>4. moved \in Job /\ Idle \in Job
    <3> job[i] \in Job
      OBVIOUS
    <3>1. moved \in Job
      OBVIOUS
    <3>2. Idle \in Job
      OBVIOUS
    <3> QED BY <3>1, <3>2
  <2>5. job' = [job EXCEPT ![i] = moved] \/ job' = [job EXCEPT ![i] = Idle]
    BY <2>3
  <2> HIDE DEF Job, Idle, moved
  <2>6. job' \in [Threads -> Job]
    BY <2>4, <2>5
  <2> QED BY <1>5, <2>2, <2>6 DEF PoolImport
<1>6. ASSUME NEW i \in Threads, RemoveReplaced(i) PROVE TypeOK'
  BY <1>6 DEF RemoveReplaced, Remove, Forget, At
<1>7. ASSUME NEW i \in Threads, ClearCached(i) PROVE TypeOK'
  BY <1>7 DEF ClearCached, At
<1>8. ASSUME NEW i \in Threads, RecordNullifiers(i) PROVE TypeOK'
  BY <1>8 DEF RecordNullifiers, At
<1>9. ASSUME NEW i \in Threads, FinishImport(i) PROVE TypeOK'
  BY <1>9 DEF FinishImport
<1>10. ASSUME NEW i \in Threads, PendingCollect(i) PROVE TypeOK'
  <2>1. Ready \in SUBSET Transactions
    BY DEF Ready
  <2>2. CASE UNCHANGED <<cached, unmoved>>
    BY <1>10, <2>2 DEF PendingCollect
  <2>3. CASE cached' = [number |-> job[i].asked, txs |-> Ready] /\ unmoved' = TRUE
    <3>1. cached' \in [number : Numbers \cup {0}, txs : SUBSET Transactions]
      BY <2>1, <2>3
    <3>2. job' \in [Threads -> Job]
      BY <1>10 DEF PendingCollect
    <3> HIDE DEF Job
    <3> QED BY <1>10, <2>3, <3>1, <3>2 DEF PendingCollect
  <2> QED BY <1>10, <2>2, <2>3 DEF PendingCollect
<1>11. CASE ChainMoves
  BY <1>11 DEF ChainMoves
<1>12. CASE Cull
  BY <1>12 DEF Cull, Ready
<1>13. CASE UNCHANGED vars
  BY <1>13 DEF vars
<1> QED
  BY <1>1, <1>2, <1>3, <1>4, <1>5, <1>6, <1>7, <1>8, <1>9, <1>10, <1>11, <1>12, <1>13
     DEF Next, Continue

(***************************************************************************)
(* With one call at a time, every step of the queue and of the chain keeps *)
(* the nullifier map in step with the pool.                                *)
(***************************************************************************)
LEMMA QueueStep == Sequential /\ QueueInv /\ [Next]_vars => QueueInv'
<1> SUFFICES ASSUME Sequential, QueueInv, [Next]_vars PROVE QueueInv'
  OBVIOUS
<1> TypeOK /\ TypeOK'
  BY QueueTypes DEF QueueInv
<1> USE QueueAssumption
<1>0. ASSUME NEW i \in Threads, ImportInv(i)', (job[i].at \notin Importing)' => Recorded(pool)'
      PROVE  QueueInv'
  BY <1>0 DEF QueueInv, Sequential
<1>s. ASSUME NEW i \in Threads
      PROVE  ImportInv(i) /\ (job[i].at \notin Importing => Recorded(pool))
  BY DEF QueueInv, Sequential
<1>1. ASSUME NEW i \in Threads, NEW t \in Transactions, Check(i, t) PROVE QueueInv'
  <2>1. UNCHANGED <<pool, nullifierPending>> /\ Recorded(pool)
    BY <1>1, <1>s DEF Check, Importing
  <2>2. CASE UNCHANGED job
    BY <1>1, <1>s, <1>0, <2>1, <2>2 DEF ImportInv, Recorded, ConflictTransactionHashes, Check, Importing
  <2>3. CASE job' = [job EXCEPT ![i] = [Idle EXCEPT !.at = "checked", !.tx = t,
                                                 !.replaced = ConflictTransactionHashes(t)]]
    <3>1. job'[i].at = "checked" /\ job'[i].tx = t /\ job'[i].replaced = ConflictTransactionHashes(t)
      BY <2>3 DEF TypeOK, Idle
    <3>2. ConflictTransactionHashes(t)' = ConflictTransactionHashes(t)
      BY <2>1 DEF ConflictTransactionHashes
    <3> QED BY <1>0, <2>1, <3>1, <3>2 DEF ImportInv, Recorded, Importing
  <2> QED BY <1>1, <2>2, <2>3 DEF Check
<1>2. ASSUME NEW i \in Threads, NEW t \in Transactions, RemoveCall(i, t) PROVE QueueInv'
  <2>1. Recorded(pool) /\ pool' = pool \ {t} /\ Forget({t} \cap pool)
    BY <1>2, <1>s DEF RemoveCall, Remove, Importing
  <2>2. Recorded(pool)'
    BY <2>1 DEF Recorded, Forget, TypeOK
  <2>3. job'[i].at \in {"idle", "clearing"} /\ job'[i].tx = job[i].tx
    BY <1>2 DEF RemoveCall, Remove, At, TypeOK, Job
  <2>4. job'[i].tx = NoTransaction
    BY <1>2, <1>s, <2>3 DEF RemoveCall, ImportInv
  <2> QED BY <1>0, <2>2, <2>3, <2>4 DEF ImportInv, Recorded, Importing
<1>3. ASSUME NEW i \in Threads, PendingCached(i) PROVE QueueInv'
  BY <1>3, <1>s, <1>0 DEF PendingCached, ImportInv, Recorded, ConflictTransactionHashes, Importing, chain, locks
<1>4. ASSUME NEW i \in Threads, PendingLock(i) PROVE QueueInv'
  <2>1. Recorded(pool)'
    BY <1>4, <1>s DEF PendingLock, Recorded, Importing
  <2>2. job'[i].at = "collecting" /\ job'[i].tx = NoTransaction
    <3> DEFINE new == [job[i] EXCEPT !.at = "collecting", !.asked = number]
    <3>1. job'[i] = new
      BY <1>4 DEF PendingLock, TypeOK
    <3>2. job[i] \in Job /\ job[i].tx = NoTransaction
      BY <1>4, <1>s DEF PendingLock, TypeOK, ImportInv
    <3>3. new.at = "collecting" /\ new.tx = job[i].tx
      BY <3>2 DEF Job
    <3> QED BY <3>1, <3>2, <3>3
  <2> QED BY <1>0, <2>1, <2>2 DEF ImportInv, Recorded, Importing
<1>5. ASSUME NEW i \in Threads, PoolImport(i) PROVE QueueInv'
  <2>1. Recorded(pool) /\ nullifierPending' = nullifierPending /\ job[i].tx \in Transactions
        /\ job[i].replaced = ConflictTransactionHashes(job[i].tx)
    BY <1>5, <1>s DEF PoolImport, ImportInv, Importing
  <2>2. \/ pool' = pool /\ job' = [job EXCEPT ![i] = Idle]
        \/ pool' \ {job[i].tx} \subseteq pool /\ job' = [job EXCEPT ![i].at = "imported"]
    BY <1>5 DEF PoolImport, At
  <2>3. CASE pool' = pool /\ job' = [job EXCEPT ![i] = Idle]
    <3>1. job'[i].at = "idle" /\ job'[i].tx = NoTransaction
      BY <2>3 DEF TypeOK, Idle
    <3> QED BY <1>0, <2>1, <2>3, <3>1 DEF ImportInv, Recorded, Importing
  <2>4. CASE pool' \ {job[i].tx} \subseteq pool /\ job' = [job EXCEPT ![i].at = "imported"]
    <3>1. job'[i].at = "imported" /\ job'[i].tx = job[i].tx /\ job'[i].replaced = job[i].replaced
      BY <2>4 DEF TypeOK, Job
    <3>2. Recorded(pool \ {job[i].tx})'
      BY <2>1, <2>4, <3>1 DEF Recorded
    <3>3. ConflictTransactionHashes(job[i].tx)' = ConflictTransactionHashes(job[i].tx)
      BY <2>1, <3>1 DEF ConflictTransactionHashes
    <3> QED BY <1>0, <2>1, <3>1, <3>2, <3>3 DEF ImportInv, Importing
  <2> QED BY <2>2, <2>3, <2>4
<1>6. ASSUME NEW i \in Threads, RemoveReplaced(i) PROVE QueueInv'
  <2> DEFINE t == job[i].tx
             gone == job[i].replaced \cap pool
  <2>1. t \in Transactions /\ job[i].replaced = ConflictTransactionHashes(t) /\ Recorded(pool \ {t})
    BY <1>6, <1>s DEF RemoveReplaced, ImportInv, Importing
  <2>2. pool' = pool \ job[i].replaced /\ Forget(gone)
    BY <1>6 DEF RemoveReplaced, Remove
  <2>3. job'[i].at \in {"clearing", "recording"} /\ job'[i].tx = t
    BY <1>6 DEF RemoveReplaced, Remove, At, TypeOK, Job
  <2>4. ASSUME NEW u \in pool' \ {t}, NEW n \in NullifierSet[u] PROVE nullifierPending'[n] = u
    <3>1. u \in pool \ {t} /\ u \in Transactions /\ n \in Nullifiers /\ nullifierPending[n] = u
      BY <2>1, <2>2, <2>4 DEF Recorded, TypeOK
    <3>2. ASSUME NEW g \in gone, n \in NullifierSet[g] PROVE FALSE
      <4>1. CASE g = t
        BY <2>1, <2>2, <3>1, <3>2, <4>1 DEF ConflictTransactionHashes
      <4>2. CASE g # t
        BY <2>1, <2>2, <3>1, <3>2, <4>2 DEF Recorded
      <4> QED BY <4>1, <4>2
    <3> QED BY <2>2, <3>1, <3>2 DEF Forget
  <2>5. ASSUME NEW n \in NullifierSet[t] PROVE nullifierPending'[n] \notin pool' \ {t}
    <3>1. n \in Nullifiers /\ NoTransaction \notin pool
      BY <2>1 DEF TypeOK
    <3>2. nullifierPending'[n] = NoTransaction \/ nullifierPending'[n] = nullifierPending[n]
      BY <2>2, <3>1 DEF Forget
    <3>3. nullifierPending[n] \in job[i].replaced \cup {NoTransaction}
      BY <2>1 DEF ConflictTransactionHashes
    <3> QED BY <2>2, <3>1, <3>2, <3>3
  <2> QED BY <1>0, <2>1, <2>3, <2>4, <2>5 DEF ImportInv, Recorded, Importing
<1>7. ASSUME NEW i \in Threads, ClearCached(i) PROVE QueueInv'
  <2>1. UNCHANGED <<pool, nullifierPending>> /\ Recorded(pool \ {job[i].tx})
    BY <1>7, <1>s DEF ClearCached, ImportInv, Importing
  <2>2. job'[i].tx = job[i].tx
        /\ job'[i].at = IF job[i].tx = NoTransaction THEN "idle" ELSE "recording"
    BY <1>7 DEF ClearCached, At, TypeOK, Job
  <2>3. job[i].tx \in Transactions \cup {NoTransaction} /\ NoTransaction \notin pool
    BY DEF TypeOK, Job
  <2> QED BY <1>7, <1>s, <1>0, <2>1, <2>2, <2>3 DEF ClearCached, ImportInv, Recorded, Importing
<1>8. ASSUME NEW i \in Threads, RecordNullifiers(i) PROVE QueueInv'
  <2>1. pool' = pool /\ job'[i].at = "finishing" /\ job'[i].tx = job[i].tx
    BY <1>8 DEF RecordNullifiers, At, TypeOK, Job
  <2>2. job[i].tx \in Transactions /\ Recorded(pool \ {job[i].tx})
        /\ \A n \in NullifierSet[job[i].tx] : nullifierPending[n] \notin pool \ {job[i].tx}
    BY <1>8, <1>s DEF RecordNullifiers, ImportInv, Importing
  <2>3. Recorded(pool)'
    BY <1>8, <2>1, <2>2 DEF RecordNullifiers, Recorded, TypeOK
  <2> QED BY <1>0, <2>1, <2>2, <2>3 DEF ImportInv, Importing
<1>9. ASSUME NEW i \in Threads, FinishImport(i) PROVE QueueInv'
  <2>1. Recorded(pool)'
    BY <1>9, <1>s DEF FinishImport, Recorded, Importing
  <2>2. job'[i].at = "idle" /\ job'[i].tx = NoTransaction
    BY <1>9 DEF FinishImport, TypeOK, Idle
  <2> QED BY <1>0, <2>1, <2>2 DEF ImportInv, Importing
<1>10. ASSUME NEW i \in Threads, PendingCollect(i) PROVE QueueInv'
  <2>1. Recorded(pool)'
    BY <1>10, <1>s DEF PendingCollect, Recorded, Importing
  <2>2. job'[i].at = "idle" /\ job'[i].tx = NoTransaction
    BY <1>10 DEF PendingCollect, TypeOK, Idle
  <2> QED BY <1>0, <2>1, <2>2 DEF ImportInv, Importing
<1>11. ASSUME pool' \subseteq pool, UNCHANGED <<nullifierPending, job>> PROVE QueueInv'
  <2>1. ASSUME NEW i \in Threads PROVE ImportInv(i)'
    BY <1>11, <1>s DEF ImportInv, Recorded, ConflictTransactionHashes, Importing
  <2>2. (\A i \in Threads : job[i].at \notin Importing)' => Recorded(pool)'
    BY <1>11 DEF QueueInv, Recorded
  <2> QED BY <2>1, <2>2 DEF QueueInv
<1>12. CASE ChainMoves
  BY <1>11, <1>12 DEF ChainMoves
<1>13. CASE Cull
  BY <1>11, <1>13 DEF Cull, Ready
<1>14. CASE UNCHANGED vars
  BY <1>11, <1>14 DEF vars
<1> QED
  BY <1>1, <1>2, <1>3, <1>4, <1>5, <1>6, <1>7, <1>8, <1>9, <1>10, <1>12, <1>13, <1>14
     DEF Next, Continue

(***************************************************************************)
(* Between calls that do not overlap, nullifier_pending names every pooled *)
(* transaction for each of its nullifiers, so that the conflict check of   *)
(* import sees every conflict in the pool.                                 *)
(***************************************************************************)
THEOREM SequentialCallsRecordNullifiers ==
    ASSUME Sequential PROVE Spec => []NullifiersRecorded
<1>1. Init => QueueInv
  <2> SUFFICES ASSUME Init PROVE QueueInv
    OBVIOUS
  <2>1. Idle \in Job /\ Idle.at = "idle" /\ Idle.tx = NoTransaction
    BY DEF Idle, Job, Stages
  <2>2. \A i \in Threads : job[i] = Idle
    BY DEF Init
  <2>3. TypeOK
    <3> HIDE DEF Idle, Job
    <3> QED BY <2>1 DEF Init, TypeOK
  <2>4. Recorded(pool)
    BY DEF Init, Recorded
  <2>5. \A i \in Threads : ImportInv(i)
    BY <2>1, <2>2 DEF ImportInv, Importing
  <2> QED BY <2>3, <2>4, <2>5 DEF QueueInv
<1>2. QueueInv /\ [Next]_vars => QueueInv'
  BY QueueStep
<1>3. QueueInv => NullifiersRecorded
  BY DEF QueueInv, NullifiersRecorded, InFlight, Importing, Recorded
<1> QED BY <1>1, <1>2, <1>3, PTL DEF Spec
=============================================================================
