-------------------------- MODULE ExtrasCacheProofs --------------------------
(***************************************************************************)
(* Proofs about ExtrasCache, for any keys, values and readers.             *)
(***************************************************************************)
EXTENDS ExtrasCache, TLAPS

(***************************************************************************)
(* Type correctness of the column, its cache and its readers.              *)
(***************************************************************************)
THEOREM CacheTypeCorrect == Spec => []TypeOK
<1>1. Init => TypeOK
  BY CacheAssumption DEF Init, TypeOK, Reader
<1>2. TypeOK /\ [Next]_vars => TypeOK'
  <2> SUFFICES ASSUME TypeOK, [Next]_vars PROVE TypeOK'
    OBVIOUS
  <2>1. CASE PrepareUpdate
    BY <2>1 DEF PrepareUpdate, TypeOK
  <2>2. CASE WriteBuffered
    BY <2>2 DEF WriteBuffered, TypeOK
  <2>3. CASE Commit
    BY <2>3 DEF Commit, TypeOK
  <2>4. ASSUME NEW k \in Keys, CollectGarbage(k) PROVE TypeOK'
    BY <2>4 DEF CollectGarbage, TypeOK
  <2>5. ASSUME NEW r \in Readers, NEW k \in Keys, LookUp(r, k) PROVE TypeOK'
    BY <2>5 DEF LookUp, TypeOK, Reader
  <2>6. ASSUME NEW r \in Readers, ReadStore(r) PROVE TypeOK'
    <3>1. reader[r] \in Reader /\ stored[reader[r].key] \in Values \cup {None}
      BY DEF TypeOK, Reader
    <3>2. [reader[r] EXCEPT !.at = "idle"] \in Reader
      BY <3>1 DEF Reader
    <3>3. [reader[r] EXCEPT !.at = "read", !.got = stored[reader[r].key]] \in Reader
      BY <3>1 DEF Reader
    <3>4. reader' \in [Readers -> Reader]
      BY <2>6, <3>2, <3>3 DEF ReadStore, TypeOK
    <3> QED BY <2>6, <3>4 DEF ReadStore, TypeOK
  <2>7. ASSUME NEW r \in Readers, FillCache(r) PROVE TypeOK'
    BY <2>7 DEF FillCache, TypeOK, Reader
  <2>8. CASE UNCHANGED vars
    BY <2>8 DEF vars, TypeOK
  <2> QED BY <2>1, <2>2, <2>3, <2>4, <2>5, <2>6, <2>7, <2>8 DEF Next
<1> QED BY <1>1, <1>2, PTL DEF Spec

(***************************************************************************)
(* Between write_buffered and commit the store holds what is pending: the  *)
(* strengthening that makes OnlyStragglersDecohere inductive.              *)
(***************************************************************************)
PendingWritten ==
    phase = "written" => \A k \in Keys : pending[k] # Keep => stored[k] = pending[k]

(***************************************************************************)
(* The only wrong cache entries outside of the window between              *)
(* write_buffered and commit are those of late readers.                    *)
(***************************************************************************)
THEOREM StragglersOnly == Spec => []OnlyStragglersDecohere
<1>1. Init => OnlyStragglersDecohere /\ PendingWritten
  BY DEF Init, OnlyStragglersDecohere, PendingWritten
<1>2. TypeOK /\ OnlyStragglersDecohere /\ PendingWritten /\ [Next]_vars
         => OnlyStragglersDecohere' /\ PendingWritten'
  <2> SUFFICES ASSUME TypeOK, OnlyStragglersDecohere, PendingWritten, [Next]_vars
               PROVE  OnlyStragglersDecohere' /\ PendingWritten'
    OBVIOUS
  <2> USE DEF OnlyStragglersDecohere, PendingWritten
  <2>1. CASE PrepareUpdate
    BY <2>1 DEF PrepareUpdate
  <2>2. CASE WriteBuffered
    BY <2>2 DEF WriteBuffered
  <2>3. CASE Commit
    BY <2>3 DEF Commit, TypeOK
  <2>4. ASSUME NEW k \in Keys, CollectGarbage(k) PROVE OnlyStragglersDecohere' /\ PendingWritten'
    BY <2>4 DEF CollectGarbage, TypeOK
  <2>5. ASSUME NEW r \in Readers, NEW k \in Keys, LookUp(r, k) PROVE OnlyStragglersDecohere' /\ PendingWritten'
    BY <2>5 DEF LookUp
  <2>6. ASSUME NEW r \in Readers, ReadStore(r) PROVE OnlyStragglersDecohere' /\ PendingWritten'
    BY <2>6 DEF ReadStore
  <2>7. ASSUME NEW r \in Readers, FillCache(r) PROVE OnlyStragglersDecohere' /\ PendingWritten'
    BY <2>7 DEF FillCache, TypeOK
  <2>8. CASE UNCHANGED vars
    BY <2>8 DEF vars
  <2> QED BY <2>1, <2>2, <2>3, <2>4, <2>5, <2>6, <2>7, <2>8 DEF Next
<1> QED BY <1>1, <1>2, CacheTypeCorrect, PTL DEF Spec
=============================================================================
