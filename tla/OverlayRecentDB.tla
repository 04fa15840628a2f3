-------------------------- MODULE OverlayRecentDB ----------------------------
(***************************************************************************)
(* The state database with pruning (OverlayRecentDB).  The trie nodes that *)
(* a block inserts stay in an overlay in memory, counted per insertion,    *)
(* and are also written to disk in a journal record of the block.  When an *)
(* era (a block number) becomes ancient, mark_canonical drops its records: *)
(* the insertions of the canonical block go into the database and its      *)
(* deletions are carried out.                                              *)
(*                                                                         *)
(* A node is known by the hash of its content, so a key stands for both.   *)
(***************************************************************************)
EXTENDS Integers, Sequences, FiniteSets, FiniteSetsExt

CONSTANTS
    Keys,       \* the trie nodes
    Eras,       \* the eras of the instance
    NoEra       \* stands for None

ASSUME EraAssumption ==
    /\ Eras \subseteq Nat /\ NoEra \notin Eras
    /\ \A e \in Eras : 0..e \subseteq Eras

VARIABLES
    mem,        \* JournalOverlay, shared by all clones of the database
    kv,         \* the state column as the process reads it
    kvDisk,     \* the state column without what is only buffered
    batch       \* the batch of a mark_canonical that is not yet written

journalVars == <<mem, kv, kvDisk, batch>>

NoBatch == [put |-> {}, delete |-> {}, era |-> NoEra]

InsertedBy(records, x) == {i \in DOMAIN records : x \in records[i].insertions}

(***************************************************************************)
(* read_overlay: the records from the latest era down to the first era     *)
(* that has none.                                                          *)
(***************************************************************************)
ReadOverlayNoCounts(k) ==
    LET found == {e \in Eras : e <= k.latest /\ \A f \in e..k.latest : k.journal[f] # << >>}
    IN  [overlay  |-> [x \in Keys |->
                          IF \E e \in found : InsertedBy(k.journal[e], x) # {} THEN 1 ELSE 0],
         pending  |-> {},
         journal  |-> [e \in Eras |-> IF e \in found THEN k.journal[e] ELSE << >>],
         latest   |-> k.latest,
         earliest |-> IF found = {} THEN NoEra ELSE Min(found)]

ReadOverlay(k) ==
    LET found == {e \in Eras : e <= k.latest /\ \A f \in e..k.latest : k.journal[f] # << >>}
    IN  [overlay  |-> [x \in Keys |->
                          Cardinality(UNION {{e} \X InsertedBy(k.journal[e], x) : e \in found})],
         pending  |-> {},
         journal  |-> [e \in Eras |-> IF e \in found THEN k.journal[e] ELSE << >>],
         latest   |-> k.latest,
         earliest |-> IF found = {} THEN NoEra ELSE Min(found)]

(***************************************************************************)
(* journal_under: the record is in memory at once, on disk with the batch  *)
(* of the block.                                                           *)
(***************************************************************************)
JournalUnder(m, era, record) ==
    [overlay  |-> [x \in Keys |-> m.overlay[x] + (IF x \in record.insertions THEN 1 ELSE 0)],
     pending  |-> {},
     journal  |-> [m.journal EXCEPT ![era] = Append(@, record)],
     latest   |-> IF era > m.latest THEN era ELSE m.latest,
     earliest |-> IF m.earliest = NoEra \/ era < m.earliest THEN era ELSE m.earliest]

StoreRecord(k, era, record) ==
    [k EXCEPT !.journal[era] = Append(@, record),
              !.latest = IF era > @ THEN era ELSE @]

-----------------------------------------------------------------------------
(***************************************************************************)
(* mark_canonical: what it leaves in memory and what it puts into a batch. *)
(* A node that some record still inserts is not deleted.                   *)
(***************************************************************************)
CanonRecords(m, era, canon) == {i \in DOMAIN m.journal[era] : m.journal[era][i].id = canon}

CanonInsertions(m, era, canon) ==
    {x \in Keys : m.overlay[x] > 0 /\ \E i \in CanonRecords(m, era, canon) :
                                         x \in m.journal[era][i].insertions}

CanonDeletions(m, era, canon) ==
    IF CanonRecords(m, era, canon) = {} THEN {}
    ELSE m.journal[era][Max(CanonRecords(m, era, canon))].deletions

EarliestAfter(m, era) ==
    IF \E e \in Eras \ {era} : m.journal[e] # << >> THEN era + 1 ELSE m.earliest

MarkedForgetsPending(m, era, canon) ==
    [overlay  |-> [x \in Keys |-> m.overlay[x] - Cardinality(InsertedBy(m.journal[era], x))],
     pending  |-> m.pending,
     journal  |-> [m.journal EXCEPT ![era] = << >>],
     latest   |-> m.latest,
     earliest |-> EarliestAfter(m, era)]

Marked(m, era, canon) ==
    [overlay  |-> [x \in Keys |-> m.overlay[x] - Cardinality(InsertedBy(m.journal[era], x))],
     pending  |-> m.pending \cup CanonInsertions(m, era, canon),
     journal  |-> [m.journal EXCEPT ![era] = << >>],
     latest   |-> m.latest,
     earliest |-> EarliestAfter(m, era)]

MarkBatch(m, era, canon) ==
    [put |-> CanonInsertions(m, era, canon),
     delete |-> {x \in CanonDeletions(m, era, canon) : Marked(m, era, canon).overlay[x] = 0},
     era |-> era]

MarkCanonical(era, canon) ==
    /\ mem' = Marked(mem, era, canon)
    /\ batch' = MarkBatch(mem, era, canon)
    /\ UNCHANGED <<kv, kvDisk>>

(***************************************************************************)
(* write_buffered of that batch, and flush, which forgets the pending      *)
(* nodes.                                                                  *)
(***************************************************************************)
WriteMarked ==
    /\ batch # NoBatch
    /\ kv' = [kv EXCEPT !.nodes = (@ \cup batch.put) \ batch.delete,
                        !.journal[batch.era] = << >>]
    /\ mem' = [mem EXCEPT !.pending = {}]
    /\ batch' = NoBatch
    /\ UNCHANGED kvDisk

(***************************************************************************)
(* HashDB::get finds a node in the overlay, among the pending nodes or in  *)
(* the column.                                                             *)
(***************************************************************************)
Found(m, k) == {x \in Keys : m.overlay[x] > 0 \/ x \in m.pending \/ x \in k.nodes}
=============================================================================
