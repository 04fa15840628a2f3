----------------------------- MODULE ExtrasCache -----------------------------
(***************************************************************************)
(* One column of the chain database behind its cache: the thread that      *)
(* imports a block writes it in three separate steps, and any number of    *)
(* threads read it without the import lock (BlockProvider::block_hash,     *)
(* transaction_address, nullifier_transaction, commitment_root_block...,   *)
(* all of them Readable::read_with_cache).                                 *)
(***************************************************************************)
EXTENDS Naturals

CONSTANTS
    Keys,
    Values,         \* what a key may hold
    None,           \* no value: deleted in a batch, absent in store or cache
    Keep,           \* a batch that does not mention the key
    Readers,
    MaxUpdates      \* bound on the number of blocks imported

ASSUME CacheAssumption ==
    /\ None \notin Values /\ Keep \notin Values /\ None # Keep
    /\ MaxUpdates \in Nat

VARIABLES
    stored,         \* the column as DBTransactions have left it
    cache,          \* the RwLock<HashMap> in front of it
    pending,        \* pending_*: what the batch of the current block changes
    phase,          \* of the importing thread: "idle", "prepared", "written"
    updates,        \* blocks imported so far
    reader,         \* what each reader is doing
    straggled       \* history: keys whose cached value a late reader put there

vars == <<stored, cache, pending, phase, updates, reader, straggled>>

Reader ==
    [at : {"idle", "missed", "read"}, key : Keys, got : Values \cup {None}]

Init ==
    /\ stored \in [Keys -> Values \cup {None}]
    /\ cache = [k \in Keys |-> None]
    /\ pending = [k \in Keys |-> Keep]
    /\ phase = "idle"
    /\ updates = 0
    /\ reader \in [Readers -> {r \in Reader : r.at = "idle" /\ r.got = None}]
    /\ straggled = {}

-----------------------------------------------------------------------------
(***************************************************************************)
(* prepare_update: extend_with_option_cache fills the batch and pending_*. *)
(***************************************************************************)
PrepareUpdate ==
    /\ phase = "idle"
    /\ updates < MaxUpdates
    /\ pending' \in [Keys -> Values \cup {None, Keep}]
    /\ phase' = "prepared"
    /\ updates' = updates + 1
    /\ UNCHANGED <<stored, cache, reader, straggled>>

(***************************************************************************)
(* commit_block: db.key_value().write_buffered(batch).                     *)
(***************************************************************************)
WriteBuffered ==
    /\ phase = "prepared"
    /\ stored' = [k \in Keys |-> IF pending[k] = Keep THEN stored[k] ELSE pending[k]]
    /\ phase' = "written"
    /\ UNCHANGED <<cache, pending, updates, reader, straggled>>

CommitForgetsRetracted ==
    /\ phase = "written"
    /\ cache' = [k \in Keys |-> IF pending[k] \in {Keep, None} THEN cache[k] ELSE pending[k]]
    /\ straggled' = {k \in straggled : pending[k] = Keep}
    /\ pending' = [k \in Keys |-> Keep]
    /\ phase' = "idle"
    /\ UNCHANGED <<stored, updates, reader>>

(***************************************************************************)
(* BlockChain::commit: with all cache locks taken, the new values go into  *)
(* the cache and the retracted keys leave it.                              *)
(***************************************************************************)
Commit ==
    /\ phase = "written"
    /\ cache' = [k \in Keys |-> IF pending[k] = Keep THEN cache[k] ELSE pending[k]]
    /\ straggled' = {k \in straggled : pending[k] = Keep}
    /\ pending' = [k \in Keys |-> Keep]
    /\ phase' = "idle"
    /\ UNCHANGED <<stored, updates, reader>>

(***************************************************************************)
(* collect_garbage throws any entry out of the cache.                      *)
(***************************************************************************)
CollectGarbage(k) ==
    /\ cache[k] # None
    /\ cache' = [cache EXCEPT ![k] = None]
    /\ straggled' = straggled \ {k}
    /\ UNCHANGED <<stored, pending, phase, updates, reader>>

(***************************************************************************)
(* read_with_cache: look into the cache under its read lock, then read the *)
(* database with no lock, then put what was found into the cache under its *)
(* write lock.                                                             *)
(***************************************************************************)
LookUp(r, k) ==
    /\ reader[r].at = "idle"
    /\ cache[k] = None
    /\ reader' = [reader EXCEPT ![r] = [at |-> "missed", key |-> k, got |-> None]]
    /\ UNCHANGED <<stored, cache, pending, phase, updates, straggled>>

ReadStore(r) ==
    /\ reader[r].at = "missed"
    /\ reader' = [reader EXCEPT ![r] =
                     IF stored[reader[r].key] = None
                     THEN [@ EXCEPT !.at = "idle"]
                     ELSE [@ EXCEPT !.at = "read", !.got = stored[reader[r].key]]]
    /\ UNCHANGED <<stored, cache, pending, phase, updates, straggled>>

FillCache(r) ==
    LET k == reader[r].key
        v == reader[r].got
    IN  /\ reader[r].at = "read"
        /\ cache' = [cache EXCEPT ![k] = v]
        /\ straggled' = IF v = stored[k] THEN straggled \ {k} ELSE straggled \cup {k}
        /\ reader' = [reader EXCEPT ![r] = [@ EXCEPT !.at = "idle", !.got = None]]
        /\ UNCHANGED <<stored, pending, phase, updates>>

Next ==
    \/ PrepareUpdate \/ WriteBuffered \/ Commit
    \/ \E k \in Keys : CollectGarbage(k)
    \/ \E r \in Readers : \E k \in Keys : LookUp(r, k)
    \/ \E r \in Readers : ReadStore(r) \/ FillCache(r)

Spec == Init /\ [][Next]_vars

-----------------------------------------------------------------------------
(***************************************************************************)
(* Type invariant.                                                         *)
(***************************************************************************)
TypeOK ==
    /\ stored \in [Keys -> Values \cup {None}]
    /\ cache \in [Keys -> Values \cup {None}]
    /\ pending \in [Keys -> Values \cup {None, Keep}]
    /\ phase \in {"idle", "prepared", "written"}
    /\ updates \in Nat
    /\ reader \in [Readers -> Reader]
    /\ straggled \subseteq Keys

(***************************************************************************)
(* A cached value is the stored one, except between write_buffered and     *)
(* commit for the keys of the batch, and except where a reader that had    *)
(* read the database before the batch was written filled the cache after   *)
(* it: neither commit nor collect_garbage leaves a wrong entry behind.     *)
(***************************************************************************)
OnlyStragglersDecohere ==
    \A k \in Keys :
       cache[k] \notin {None, stored[k]} =>
          (phase = "written" /\ pending[k] # Keep) \/ k \in straggled

(***************************************************************************)
(* prepare_update: "These cached values must be updated last with all four *)
(* locks taken to avoid cache decoherence".  When no block is being        *)
(* imported the cache agrees with the database.                            *)
(***************************************************************************)
CacheCoherent ==
    phase = "idle" => \A k \in Keys : cache[k] \in {None, stored[k]}
=============================================================================
