------------------------------- MODULE StateDB -------------------------------
(***************************************************************************)
(* The account cache that all clones of StateDB share.  It holds accounts  *)
(* as they are in the state of the best block, with the list of the last   *)
(* StateCacheBlocks committed blocks and the accounts each modified; a     *)
(* clone made on top of any block may use an entry if is_allowed can tell  *)
(* from that list that the entry is right for its block.                   *)
(***************************************************************************)
EXTENDS Integers, SequencesExt

CONSTANTS
    Addresses,          \* account addresses
    Missing,            \* the value of an account that does not exist
    NotCached,          \* there is no entry for the address
    StateCacheBlocks    \* STATE_CACHE_BLOCKS

ASSUME CacheAssumption == StateCacheBlocks \in Nat \ {0} /\ Missing # NotCached

VARIABLE
    cache       \* AccountCache: accounts and modifications

EmptyCache == [accounts |-> [a \in Addresses |-> NotCached], modifications |-> << >>]

NoCommit == [hash |-> "none", number |-> 0, parent |-> "none", local |-> << >>]

(***************************************************************************)
(* iter().find(|m| m.hash == block)                                        *)
(***************************************************************************)
Listed(mods, b) == \E i \in DOMAIN mods : mods[i].hash = b

EntryOf(mods, b) == SelectInSeq(mods, LAMBDA m : m.hash = b)

(***************************************************************************)
(* The first half of sync_cache: the accounts of re-enacted and retracted  *)
(* blocks are dropped; if a block is not listed, everything is.            *)
(***************************************************************************)
PurgeEnactedOnly(c, enacted, retracted) ==
    LET blocks == enacted \cup retracted
        entries == {EntryOf(c.modifications, b) : b \in blocks}
    IN  IF \E b \in blocks : ~Listed(c.modifications, b) THEN EmptyCache
        ELSE [accounts |-> [a \in Addresses |->
                 IF \E b \in enacted : a \in c.modifications[EntryOf(c.modifications, b)].accounts
                 THEN NotCached ELSE c.accounts[a]],
              modifications |-> [i \in DOMAIN c.modifications |->
                 IF i \in entries
                 THEN [c.modifications[i] EXCEPT !.isCanon = c.modifications[i].hash \in enacted]
                 ELSE c.modifications[i]]]

Purge(c, enacted, retracted) ==
    LET blocks == enacted \cup retracted
        entries == {EntryOf(c.modifications, b) : b \in blocks}
    IN  IF \E b \in blocks : ~Listed(c.modifications, b) THEN EmptyCache
        ELSE [accounts |-> [a \in Addresses |->
                 IF \E i \in entries : a \in c.modifications[i].accounts
                 THEN NotCached ELSE c.accounts[a]],
              modifications |-> [i \in DOMAIN c.modifications |->
                 IF i \in entries
                 THEN [c.modifications[i] EXCEPT !.isCanon = c.modifications[i].hash \in enacted]
                 ELSE c.modifications[i]]]

(***************************************************************************)
(* The second half: the local cache of the committing clone becomes part   *)
(* of the shared one if its block is the best, and the block is listed by  *)
(* number, the highest first, after the others of its number.              *)
(***************************************************************************)
Propagate(accounts, local) ==
    [a \in Addresses |->
        IF a \notin DOMAIN local THEN accounts[a]
        ELSE IF /\ accounts[a] \notin {NotCached, Missing}
                /\ local[a].account # Missing
                /\ ~local[a].modified THEN accounts[a]
        ELSE local[a].account]

ListBlock(mods, entry) ==
    LET kept == IF Len(mods) = StateCacheBlocks THEN Front(mods) ELSE mods
        at == SelectInSeq(kept, LAMBDA m : m.number < entry.number)
    IN  IF at = 0 THEN Append(kept, entry) ELSE InsertAt(kept, at, entry)

SyncCache(c, enacted, retracted, isBest, commit) ==
    LET purged == Purge(c, enacted \ {commit.hash}, retracted)
        entry == [number |-> commit.number, hash |-> commit.hash, parent |-> commit.parent,
                  accounts |-> {a \in DOMAIN commit.local : commit.local[a].modified},
                  isCanon |-> isBest]
    IN  IF commit = NoCommit THEN purged
        ELSE [accounts |-> IF isBest THEN Propagate(purged.accounts, commit.local) ELSE purged.accounts,
              modifications |-> ListBlock(purged.modifications, entry)]

-----------------------------------------------------------------------------
(***************************************************************************)
(* is_allowed: goes down the list in search of the block the clone is made *)
(* on and then of its parents, until one is canonical; no block passed on  *)
(* the way may have modified the account.                                  *)
(***************************************************************************)
AllowedStep(a, p, m) ==
    IF p.answer # "unknown" THEN p
    ELSE IF m.hash = p.parent /\ m.isCanon THEN [p EXCEPT !.answer = "yes"]
    ELSE [parent |-> IF m.hash = p.parent THEN m.parent ELSE p.parent,
          answer |-> IF a \in m.accounts THEN "no" ELSE "unknown"]

IsAllowed(a, b, mods) ==
    \/ mods = << >>
    \/ FoldLeft(LAMBDA p, m : AllowedStep(a, p, m), [parent |-> b, answer |-> "unknown"], mods).answer = "yes"

(***************************************************************************)
(* get_cached_account, for a clone on top of block b.                      *)
(***************************************************************************)
GetCachedAccount(c, a, b) == IF IsAllowed(a, b, c.modifications) THEN c.accounts[a] ELSE NotCached
=============================================================================
