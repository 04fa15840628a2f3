-------------------------- MODULE StateStoreProofs ---------------------------
(***************************************************************************)
(* Proof that the overlay of the state database is at any time the one a   *)
(* restart would read from the journal.                                    *)
(***************************************************************************)
EXTENDS StateStore, TLAPS, FiniteSetTheorems

Record == [id : Blocks, insertions : SUBSET Keys, deletions : SUBSET Keys]

Columns == [nodes : SUBSET Keys, latest : Eras, journal : [Eras -> Seq(Record)]]

(***************************************************************************)
(* Era and place of the records that insert a node: what the counter of    *)
(* the node counts.                                                        *)
(***************************************************************************)
Insertions(k, x) == UNION {{e} \X InsertedBy(k.journal[e], x) : e \in Eras}

(***************************************************************************)
(* The journal has records for the eras from lo to the latest, and for no  *)
(* other: read_overlay, which stops at the first gap, misses none.         *)
(***************************************************************************)
Unbroken(k, lo) ==
    /\ k \in Columns
    /\ lo \in Eras /\ lo <= k.latest
    /\ \A e \in Eras : k.journal[e] # << >> <=> lo <= e /\ e <= k.latest
    /\ \A x \in Keys : IsFiniteSet(Insertions(k, x))

(***************************************************************************)
(* What read_overlay makes of such a journal.                              *)
(***************************************************************************)
LEMMA ReadUnbroken ==
    ASSUME NEW k, NEW lo, Unbroken(k, lo)
    PROVE  ReadOverlay(k) = [overlay  |-> [x \in Keys |-> Cardinality(Insertions(k, x))],
                             pending  |-> {},
                             journal  |-> k.journal,
                             latest   |-> k.latest,
                             earliest |-> lo]
<1> DEFINE found == {e \in Eras : e <= k.latest /\ \A f \in e..k.latest : k.journal[f] # << >>}
<1>0. k.latest \in Eras /\ 0..k.latest \subseteq Eras /\ Eras \subseteq Nat
    BY EraAssumption DEF Unbroken, Columns
<1>1. found = {e \in Eras : lo <= e /\ e <= k.latest}
  <2>1. ASSUME NEW e \in Eras, lo <= e, e <= k.latest
        PROVE  \A f \in e..k.latest : k.journal[f] # << >>
    <3>1. \A f \in e..k.latest : f \in Eras /\ lo <= f /\ f <= k.latest
        BY <1>0, <2>1 DEF Unbroken
    <3> QED BY <3>1 DEF Unbroken
  <2>2. ASSUME NEW e \in found PROVE lo <= e
    <3>1. e \in Eras /\ e <= k.latest /\ \A f \in e..k.latest : k.journal[f] # << >>
        OBVIOUS
    <3> HIDE DEF found
    <3>2. e \in e..k.latest BY <1>0, <3>1
    <3> QED BY <3>1, <3>2 DEF Unbroken
  <2> QED BY <2>1, <2>2
<1>2. lo \in found /\ \A e \in found : lo <= e
    BY <1>1, EraAssumption DEF Unbroken, Columns
<1>3. Min(found) = lo
    BY <1>1, <1>2, EraAssumption DEF Min, Unbroken
<1>4. [e \in Eras |-> IF e \in found THEN k.journal[e] ELSE << >>] = k.journal
    BY <1>1 DEF Unbroken, Columns
<1>5. ASSUME NEW x \in Keys
      PROVE  UNION {{e} \X InsertedBy(k.journal[e], x) : e \in found} = Insertions(k, x)
  <2>1. ASSUME NEW e \in Eras, e \notin found
        PROVE  InsertedBy(k.journal[e], x) = {}
      BY <2>1, <1>1 DEF Unbroken, InsertedBy
  <2>2. \A p : p \in UNION {{e} \X InsertedBy(k.journal[e], x) : e \in found}
                 <=> p \in Insertions(k, x)
      BY <2>1 DEF Insertions
  <2> QED BY <2>2
<1>6. found # {} BY <1>2
<1> QED BY <1>3, <1>4, <1>5, <1>6 DEF ReadOverlay

(***************************************************************************)
(* One more record: journal_under does to the overlay what the record in   *)
(* the journal will make read_overlay do.                                  *)
(***************************************************************************)
LEMMA InsertionsStored ==
    ASSUME NEW k \in Columns, NEW era \in Eras, NEW r \in Record, NEW x \in Keys,
           IsFiniteSet(Insertions(k, x))
    PROVE  /\ IsFiniteSet(Insertions(StoreRecord(k, era, r), x))
           /\ Cardinality(Insertions(StoreRecord(k, era, r), x))
                 = Cardinality(Insertions(k, x)) + (IF x \in r.insertions THEN 1 ELSE 0)
<1> DEFINE q == <<era, Len(k.journal[era]) + 1>>
           j == k.journal
           n == StoreRecord(k, era, r).journal
<1>1. /\ n = [j EXCEPT ![era] = Append(j[era], r)]
      /\ j \in [Eras -> Seq(Record)]
    BY DEF StoreRecord, Columns
<1>2. \A e \in Eras \ {era} : InsertedBy(n[e], x) = InsertedBy(j[e], x)
    BY <1>1 DEF InsertedBy
<1>3. InsertedBy(n[era], x) = InsertedBy(j[era], x)
                                 \cup (IF x \in r.insertions THEN {Len(j[era]) + 1} ELSE {})
  <2>1. j[era] \in Seq(Record) /\ n[era] = Append(j[era], r) BY <1>1
  <2> HIDE DEF j, n
  <2>2. /\ DOMAIN n[era] = DOMAIN j[era] \cup {Len(j[era]) + 1}
        /\ \A i \in DOMAIN j[era] : n[era][i] = j[era][i]
        /\ n[era][Len(j[era]) + 1] = r
      BY <2>1
  <2>3. Len(j[era]) + 1 \notin DOMAIN j[era] BY <2>1
  <2> QED BY <2>2, <2>3 DEF InsertedBy
<1>4. Insertions(StoreRecord(k, era, r), x)
         = Insertions(k, x) \cup (IF x \in r.insertions THEN {q} ELSE {})
  <2> HIDE DEF j, n
  <2>1. \A p : p \in UNION {{e} \X InsertedBy(n[e], x) : e \in Eras}
                 <=> \/ p \in UNION {{e} \X InsertedBy(j[e], x) : e \in Eras}
                     \/ x \in r.insertions /\ p = <<era, Len(j[era]) + 1>>
      BY <1>2, <1>3
  <2> QED BY <2>1 DEF Insertions, j, n
<1>5. q \notin Insertions(k, x)
  <2>1. Len(j[era]) + 1 \notin InsertedBy(j[era], x)
      BY <1>1 DEF InsertedBy
  <2> QED BY <2>1 DEF Insertions
<1>6. CASE x \in r.insertions
  <2>1. Insertions(StoreRecord(k, era, r), x) = Insertions(k, x) \cup {q} BY <1>4, <1>6
  <2> HIDE DEF q
  <2> QED BY <2>1, <1>5, <1>6, FS_AddElement
<1>7. CASE x \notin r.insertions
  <2>1. Insertions(StoreRecord(k, era, r), x) = Insertions(k, x) BY <1>4, <1>7
  <2> QED BY <2>1, <1>7, FS_CardinalityType
<1> QED BY <1>6, <1>7

LEMMA RecordKeepsUnbroken ==
    ASSUME NEW k, NEW lo, Unbroken(k, lo), NEW era \in Eras, NEW r \in Record,
           lo <= era, era <= k.latest + 1
    PROVE  /\ Unbroken(StoreRecord(k, era, r), lo)
           /\ JournalUnder(ReadOverlay(k), era, r) = ReadOverlay(StoreRecord(k, era, r))
<1> DEFINE n == StoreRecord(k, era, r)
<1>1. /\ k \in Columns /\ Eras \subseteq Nat /\ NoEra \notin Eras
      /\ k.latest \in Nat /\ era \in Nat /\ lo \in Nat
      /\ k.journal \in [Eras -> Seq(Record)]
    BY EraAssumption DEF Unbroken, Columns
<1>2. /\ n.nodes = k.nodes
      /\ n.latest = IF era > k.latest THEN era ELSE k.latest
      /\ n.journal = [k.journal EXCEPT ![era] = Append(k.journal[era], r)]
      /\ n \in Columns
  <2> DEFINE jj == [k.journal EXCEPT ![era] = Append(k.journal[era], r)]
             ll == IF era > k.latest THEN era ELSE k.latest
  <2>1. jj \in [Eras -> Seq(Record)] /\ ll \in Eras
      BY <1>1 DEF Columns
  <2>2. n = [[k EXCEPT !.journal = jj] EXCEPT !.latest = ll]
      BY DEF StoreRecord
  <2> HIDE DEF jj, ll, n
  <2>3. n.nodes = k.nodes /\ n.latest = ll /\ n.journal = jj /\ n \in Columns
      BY <2>1, <2>2, <1>1 DEF Columns
  <2> QED BY <2>3 DEF jj, ll
<1>3. n.journal[era] # << >> BY <1>1, <1>2
<1>4. \A e \in Eras : n.journal[e] # << >> <=> lo <= e /\ e <= n.latest
  <2> SUFFICES ASSUME NEW e \in Eras
               PROVE  n.journal[e] # << >> <=> lo <= e /\ e <= n.latest
      OBVIOUS
  <2> HIDE DEF n
  <2>1. k.journal[e] # << >> <=> lo <= e /\ e <= k.latest BY DEF Unbroken
  <2>2. e # era => n.journal[e] = k.journal[e] BY <1>1, <1>2
  <2>3. e \in Nat /\ (n.latest = era \/ n.latest = k.latest)
        /\ era <= n.latest /\ k.latest <= n.latest
      BY <1>1, <1>2
  <2>4. CASE e = era BY <2>4, <2>3, <1>3
  <2>5. CASE e # era BY <2>5, <2>1, <2>2, <2>3, <1>1
  <2> QED BY <2>4, <2>5
<1>5. \A x \in Keys : IsFiniteSet(Insertions(n, x)) /\ Cardinality(Insertions(n, x))
                 = Cardinality(Insertions(k, x)) + (IF x \in r.insertions THEN 1 ELSE 0)
    BY <1>1, InsertionsStored DEF Unbroken
<1>6. Unbroken(n, lo)
    BY <1>1, <1>2, <1>4, <1>5 DEF Unbroken
<1>7. ReadOverlay(n) = [overlay |-> [x \in Keys |-> Cardinality(Insertions(n, x))],
                        pending |-> {}, journal |-> n.journal, latest |-> n.latest, earliest |-> lo]
    BY <1>6, ReadUnbroken
<1>8. ReadOverlay(k) = [overlay |-> [x \in Keys |-> Cardinality(Insertions(k, x))],
                        pending |-> {}, journal |-> k.journal, latest |-> k.latest, earliest |-> lo]
    BY ReadUnbroken
<1>9. JournalUnder(ReadOverlay(k), era, r) = ReadOverlay(n)
  <2> DEFINE counts == [x \in Keys |-> Cardinality(Insertions(k, x))]
  <2>1. JournalUnder(ReadOverlay(k), era, r)
           = [overlay |-> [x \in Keys |-> counts[x] + (IF x \in r.insertions THEN 1 ELSE 0)],
              pending |-> {},
              journal |-> [k.journal EXCEPT ![era] = Append(k.journal[era], r)],
              latest |-> IF era > k.latest THEN era ELSE k.latest,
              earliest |-> IF lo = NoEra \/ era < lo THEN era ELSE lo]
      BY <1>8 DEF JournalUnder
  <2>2. (IF lo = NoEra \/ era < lo THEN era ELSE lo) = lo BY <1>1 DEF Unbroken
  <2>3. [x \in Keys |-> counts[x] + (IF x \in r.insertions THEN 1 ELSE 0)]
           = [x \in Keys |-> Cardinality(Insertions(n, x))]
    <3> HIDE DEF n
    <3> QED BY <1>5
  <2> HIDE DEF n, counts
  <2> QED BY <1>2, <1>7, <2>1, <2>2, <2>3
<1> QED BY <1>6, <1>9

(***************************************************************************)
(* The records of the lowest era dropped: mark_canonical does to the       *)
(* counters what read_overlay does without them.                           *)
(***************************************************************************)
LEMMA InsertionsDropped ==
    ASSUME NEW k, k.journal \in [Eras -> Seq(Record)], NEW n, NEW era \in Eras,
           n.journal = [k.journal EXCEPT ![era] = << >>],
           NEW x \in Keys, IsFiniteSet(Insertions(k, x))
    PROVE  /\ IsFiniteSet(Insertions(n, x))
           /\ Cardinality(Insertions(n, x))
                 = Cardinality(Insertions(k, x)) - Cardinality(InsertedBy(k.journal[era], x))
<1> DEFINE j == k.journal
           dropped == {era} \X InsertedBy(j[era], x)
<1>1. InsertedBy(n.journal[era], x) = {}
    BY DEF InsertedBy
<1>2. \A e \in Eras \ {era} : n.journal[e] = j[e] OBVIOUS
<1>3. Insertions(n, x) = Insertions(k, x) \ dropped
  <2> DEFINE i == n.journal
  <2>0. \A e \in Eras : InsertedBy(i[e], x) = IF e = era THEN {} ELSE InsertedBy(j[e], x)
      BY <1>1, <1>2
  <2> HIDE DEF i, j
  <2>1. \A p : p \in UNION {{e} \X InsertedBy(i[e], x) : e \in Eras}
                 <=> /\ p \in UNION {{e} \X InsertedBy(j[e], x) : e \in Eras}
                     /\ p \notin {era} \X InsertedBy(j[era], x)
      BY <2>0
  <2> QED BY <2>1 DEF Insertions, i, j
<1>4. dropped \subseteq Insertions(k, x)
    BY DEF Insertions
<1>5. IsFiniteSet(InsertedBy(j[era], x))
  <2>1. j[era] \in Seq(Record) OBVIOUS
  <2>2. InsertedBy(j[era], x) \subseteq 1..Len(j[era]) /\ Len(j[era]) \in Nat
      BY <2>1 DEF InsertedBy
  <2>3. IsFiniteSet(1..Len(j[era])) BY <2>2, FS_Interval
  <2> QED BY <2>2, <2>3, FS_Subset
<1>6. Cardinality(dropped) = Cardinality(InsertedBy(j[era], x))
  <2>1. IsFiniteSet({era}) /\ Cardinality({era}) = 1 BY FS_Singleton
  <2> DEFINE here == InsertedBy(j[era], x)
  <2>2. Cardinality(dropped) = 1 * Cardinality(InsertedBy(j[era], x))
    <3>1. IsFiniteSet(here) BY <1>5
    <3> HIDE DEF here
    <3>2. Cardinality({era} \X here) = Cardinality({era}) * Cardinality(here)
        BY <2>1, <3>1, FS_Product
    <3> QED BY <2>1, <3>2 DEF here
  <2>3. Cardinality(InsertedBy(j[era], x)) \in Nat BY <1>5, FS_CardinalityType
  <2> QED BY <2>2, <2>3
<1>7. Insertions(k, x) \cap dropped = dropped BY <1>4
<1> HIDE DEF dropped
<1>8. /\ IsFiniteSet(Insertions(k, x) \ dropped)
      /\ Cardinality(Insertions(k, x) \ dropped)
            = Cardinality(Insertions(k, x)) - Cardinality(Insertions(k, x) \cap dropped)
    BY FS_Difference
<1> QED BY <1>3, <1>6, <1>7, <1>8

Cleared(m) == [m EXCEPT !.pending = {}]

LEMMA PendingCleared ==
    ASSUME NEW m, m = [overlay |-> m.overlay, pending |-> m.pending, journal |-> m.journal,
                       latest |-> m.latest, earliest |-> m.earliest]
    PROVE  Cleared(m)
              = [overlay |-> m.overlay, pending |-> {}, journal |-> m.journal,
                 latest |-> m.latest, earliest |-> m.earliest]
<1>1. ASSUME NEW o, NEW p, NEW j, NEW l, NEW e,
             m = [overlay |-> o, pending |-> p, journal |-> j, latest |-> l, earliest |-> e]
      PROVE  [m EXCEPT !.pending = {}]
                = [overlay |-> o, pending |-> {}, journal |-> j, latest |-> l, earliest |-> e]
    BY <1>1
<1> QED BY <1>1 DEF Cleared

LEMMA DropKeepsUnbroken ==
    ASSUME NEW k, NEW lo, Unbroken(k, lo), lo < k.latest, NEW canon,
           NEW n \in Columns, n.latest = k.latest, n.journal = [k.journal EXCEPT ![lo] = << >>]
    PROVE  /\ Unbroken(n, lo + 1)
           /\ Cleared(Marked(ReadOverlay(k), lo, canon)) = ReadOverlay(n)
<1>1. /\ k \in Columns /\ Eras \subseteq Nat /\ lo \in Eras /\ k.latest \in Eras
      /\ k.journal \in [Eras -> Seq(Record)]
    BY EraAssumption DEF Unbroken, Columns
<1>2. lo + 1 \in Eras /\ lo + 1 <= k.latest
  <2>1. lo \in Nat /\ k.latest \in Nat BY <1>1
  <2>2. lo + 1 \in 0..k.latest /\ lo + 1 <= k.latest BY <2>1
  <2>3. 0..k.latest \subseteq Eras BY <1>1, EraAssumption
  <2> QED BY <2>2, <2>3
<1>3. \A e \in Eras : n.journal[e] # << >> <=> lo + 1 <= e /\ e <= n.latest
    BY <1>1 DEF Unbroken
<1>4. \A x \in Keys : IsFiniteSet(Insertions(n, x)) /\ Cardinality(Insertions(n, x))
                 = Cardinality(Insertions(k, x)) - Cardinality(InsertedBy(k.journal[lo], x))
  <2>1. \A x \in Keys : IsFiniteSet(Insertions(k, x)) BY DEF Unbroken
  <2> QED BY <2>1, <1>1, InsertionsDropped
<1>5. Unbroken(n, lo + 1)
    BY <1>2, <1>3, <1>4 DEF Unbroken
<1>6. ReadOverlay(n) = [overlay |-> [x \in Keys |-> Cardinality(Insertions(n, x))], pending |-> {},
                        journal |-> n.journal, latest |-> n.latest, earliest |-> lo + 1]
    BY <1>5, ReadUnbroken
<1>7. ReadOverlay(k) = [overlay |-> [x \in Keys |-> Cardinality(Insertions(k, x))],
                        pending |-> {}, journal |-> k.journal, latest |-> k.latest, earliest |-> lo]
    BY ReadUnbroken
<1> DEFINE m == Marked(ReadOverlay(k), lo, canon)
<1>8. /\ m.overlay = [x \in Keys |-> Cardinality(Insertions(n, x))]
      /\ m.journal = n.journal /\ m.latest = n.latest /\ m.earliest = lo + 1
      /\ m = [overlay |-> m.overlay, pending |-> m.pending, journal |-> m.journal,
              latest |-> m.latest, earliest |-> m.earliest]
  <2>1. \E e \in Eras \ {lo} : k.journal[e] # << >>
      BY <1>1, <1>2 DEF Unbroken
  <2> DEFINE o == ReadOverlay(k)
             less == [x \in Keys |-> o.overlay[x] - Cardinality(InsertedBy(o.journal[lo], x))]
             pend == o.pending \cup CanonInsertions(o, lo, canon)
  <2>2. /\ o.overlay = [x \in Keys |-> Cardinality(Insertions(k, x))]
        /\ o.journal = k.journal /\ o.latest = k.latest
      BY <1>7
  <2>3. m = [overlay |-> less, pending |-> pend, journal |-> [o.journal EXCEPT ![lo] = << >>],
             latest |-> o.latest, earliest |-> EarliestAfter(o, lo)]
      BY DEF Marked
  <2> HIDE DEF o, m, pend
  <2>4. EarliestAfter(o, lo) = lo + 1
      BY <2>1, <2>2 DEF EarliestAfter
  <2>5. \A x \in Keys : less[x] = Cardinality(Insertions(n, x))
      BY <1>4, <2>2
  <2>6. less = [x \in Keys |-> Cardinality(Insertions(n, x))]
      BY <2>5
  <2> HIDE DEF less
  <2>7. m = [overlay |-> less, pending |-> pend, journal |-> n.journal, latest |-> n.latest,
             earliest |-> lo + 1]
      BY <2>2, <2>3, <2>4
  <2> QED BY <2>6, <2>7
<1>9. Cleared(m) = ReadOverlay(n)
  <2> HIDE DEF m
  <2> QED BY <1>6, <1>8, PendingCleared
<1> QED BY <1>5, <1>9

LEMMA ReadsJournalOnly ==
    ASSUME NEW k, NEW n, n.journal = k.journal, n.latest = k.latest
    PROVE  ReadOverlay(n) = ReadOverlay(k)
BY DEF ReadOverlay

(***************************************************************************)
(* The inductive invariant.  While a batch of mark_canonical is not yet    *)
(* written, the overlay is ahead of the journal by the era of the batch.   *)
(* No stored block is above the latest era, so a new block never leaves a  *)
(* gap; this must also hold of what a crash or a reset goes back to.       *)
(***************************************************************************)
BodiesBelow(s, k) == s.bodies \subseteq Blocks /\ \A b \in s.bodies : Number[b] <= k.latest

StoreInv ==
    /\ \E lo \in Eras : Unbroken(kvDisk, lo)
    /\ \E lo \in Eras :
          /\ Unbroken(kv, lo)
          /\ batch = NoBatch /\ status = "running" => mem = ReadOverlay(kv)
          /\ batch # NoBatch =>
                /\ status = "running" /\ pruning
                /\ lo < kv.latest /\ batch.era = lo /\ batch.put \subseteq Keys
                /\ Cleared(mem) = ReadOverlay([kv EXCEPT !.journal[lo] = << >>])
    /\ status = "down" => kv = kvDisk
    /\ "bodies" \in DOMAIN db /\ BodiesBelow(db, kv)
    /\ "bodies" \in DOMAIN disk /\ BodiesBelow(disk, kvDisk)

LEMMA GenesisUnbroken == Unbroken(GenesisColumn, 0)
<1>1. 0 \in Eras
  <2>1. Number[Genesis] \in Eras BY TreeAssumption, StateAssumption
  <2> QED BY <2>1, StateAssumption
<1>2. RecordOf(Genesis) \in Record
  <2>1. Genesis \in Blocks /\ StateOf(Genesis) \subseteq Keys BY TreeAssumption, StateAssumption
  <2> QED BY <2>1 DEF RecordOf, Record
<1>3. GenesisColumn \in Columns
    BY <1>1, <1>2 DEF GenesisColumn, Columns
<1>4. \A e \in Eras : GenesisColumn.journal[e] # << >> <=> 0 <= e /\ e <= GenesisColumn.latest
    BY EraAssumption DEF GenesisColumn
<1>5. ASSUME NEW x \in Keys PROVE IsFiniteSet(Insertions(GenesisColumn, x))
  <2>1. \A e \in Eras : GenesisColumn.journal[e] = IF e = 0 THEN <<RecordOf(Genesis)>> ELSE << >>
      BY DEF GenesisColumn
  <2>2. \A e \in Eras : InsertedBy(GenesisColumn.journal[e], x) \subseteq (IF e = 0 THEN {1} ELSE {})
      BY <2>1 DEF InsertedBy
  <2>3. Insertions(GenesisColumn, x) \subseteq {<<0, 1>>}
      BY <2>2 DEF Insertions
  <2>4. IsFiniteSet({<<0, 1>>}) BY FS_Singleton
  <2> QED BY <2>3, <2>4, FS_Subset
<1> QED BY <1>1, <1>3, <1>4, <1>5 DEF Unbroken, GenesisColumn

LEMMA StoreInvInit == StoreInit => StoreInv
<1> SUFFICES ASSUME StoreInit PROVE StoreInv OBVIOUS
<1>1. 0 \in Eras BY GenesisUnbroken DEF Unbroken
<1>2. /\ kv = GenesisColumn /\ kvDisk = GenesisColumn /\ batch = NoBatch
      /\ mem = ReadOverlay(kv) /\ status = "running"
    BY DEF StoreInit, Init
<1>3. /\ "bodies" \in DOMAIN db /\ db.bodies = {Genesis} /\ disk = db
    BY DEF StoreInit, Init, GenesisStore
<1>4. kv.latest = 0 /\ Number[Genesis] = 0 BY <1>2, StateAssumption DEF GenesisColumn
<1>5. BodiesBelow(db, kv) /\ BodiesBelow(disk, kvDisk)
    BY <1>2, <1>3, <1>4, TreeAssumption DEF BodiesBelow
<1> QED BY <1>1, <1>2, <1>3, <1>5, GenesisUnbroken DEF StoreInv

LEMMA StoreInvNext == StoreInv /\ [StoreNext]_storeVars => StoreInv'
<1> SUFFICES ASSUME StoreInv, [StoreNext]_storeVars PROVE StoreInv'
    OBVIOUS
<1> USE DEF chainVars, journalVars
<1>0. NoBatch.era = NoEra /\ NoEra \notin Eras /\ Eras \subseteq Nat
    BY EraAssumption DEF NoBatch
<1>1. ASSUME NEW b \in Blocks, NEW fresh, NEW sealed, CommitState(b, fresh, sealed)
      PROVE  StoreInv'
  <2>1. /\ ~pruning /\ status = "running" /\ Enactable(b) /\ b # Genesis /\ Parent[b] \in db.bodies
        /\ mem' = JournalUnder(mem, Number[b], RecordOf(b))
        /\ kv' = StoreRecord(kv, Number[b], RecordOf(b))
        /\ pruning' /\ UNCHANGED <<kvDisk, batch, disk, status>>
      BY <1>1 DEF CommitState, CommitBlock, Importable
  <2>2. db' = InsertBlock(db, b, {}) \/ db' = [db EXCEPT !.finalized = MarkFinalized(db, {} \ {b})]
      BY <1>1 DEF CommitState, CommitBlock
  <2>3. "bodies" \in DOMAIN db' /\ db'.bodies \subseteq db.bodies \cup {b}
      BY <2>2 DEF InsertBlock, StoreInv
  <2>4. batch = NoBatch BY <2>1 DEF StoreInv
  <2>5. PICK lo \in Eras : Unbroken(kv, lo) /\ mem = ReadOverlay(kv)
      BY <2>1, <2>4 DEF StoreInv
  <2>6. /\ Number[b] \in Eras /\ Number[b] <= kv.latest + 1 /\ RecordOf(b) \in Record
        /\ kv.latest \in Nat /\ Number[b] \in Nat
    <3>1. Number[b] \in Eras /\ Number[b] = Number[Parent[b]] + 1 /\ Number[Parent[b]] \in Eras
        BY <2>1, TreeAssumption, StateAssumption
    <3>2. Number[Parent[b]] <= kv.latest /\ kv.latest \in Nat
        BY <2>1, <2>5, <1>0 DEF StoreInv, BodiesBelow, Unbroken, Columns
    <3>3. StateOf(b) \subseteq Keys /\ StateOf(Parent[b]) \subseteq Keys
        BY <2>1, TreeAssumption, StateAssumption
    <3>4. RecordOf(b) \in Record BY <3>3, <2>1 DEF RecordOf, Record
    <3>5. Number[b] \in Nat /\ Number[Parent[b]] \in Nat BY <3>1, <1>0
    <3> QED BY <3>1, <3>2, <3>4, <3>5
  <2>7. lo <= Number[b]
    <3>1. mem.earliest = lo BY <2>5, ReadUnbroken
    <3>2. mem.earliest = NoEra \/ mem.earliest <= Number[b] BY <2>1 DEF Enactable
    <3> QED BY <3>1, <3>2, <1>0
  <2>8. Unbroken(kv', lo) /\ mem' = ReadOverlay(kv')
      BY <2>1, <2>5, <2>6, <2>7, RecordKeepsUnbroken
  <2>9. kv'.latest \in Nat /\ kv.latest <= kv'.latest /\ Number[b] <= kv'.latest
    <3>1. kv \in Columns BY <2>5 DEF Unbroken
    <3>2. kv'.latest = IF Number[b] > kv.latest THEN Number[b] ELSE kv.latest
        BY <2>1, <3>1 DEF StoreRecord, Columns
    <3> QED BY <3>2, <2>6
  <2>10. BodiesBelow(db', kv')
    <3>1. ASSUME NEW x \in db.bodies PROVE x \in Blocks /\ Number[x] <= kv'.latest
      <4>1. x \in Blocks /\ Number[x] <= kv.latest BY DEF StoreInv, BodiesBelow
      <4>2. Number[x] \in Nat BY <4>1, TreeAssumption
      <4> QED BY <4>1, <4>2, <2>6, <2>9
    <3> QED BY <3>1, <2>3, <2>9 DEF BodiesBelow
  <2> QED BY <2>1, <2>3, <2>4, <2>8, <2>10 DEF StoreInv
<1>2. ASSUME PruneEra PROVE StoreInv'
  <2>1. /\ status = "running" /\ pruning /\ batch = NoBatch /\ IsAncient
        /\ MarkCanonical(mem.earliest, db.hashes[mem.earliest])
        /\ UNCHANGED <<db, disk, status, pruning, kv, kvDisk>>
      BY <1>2 DEF PruneEra, MarkCanonical
  <2>2. PICK lo \in Eras : Unbroken(kv, lo) /\ mem = ReadOverlay(kv)
      BY <2>1 DEF StoreInv
  <2>3. mem.earliest = lo /\ mem.latest = kv.latest BY <2>2, ReadUnbroken
  <2>4. kv \in Columns /\ kv.latest \in Nat /\ lo \in Nat
      BY <2>2, <1>0 DEF Unbroken, Columns
  <2>5. lo < kv.latest
      BY <2>1, <2>3, <2>4, StateAssumption DEF IsAncient
  <2> DEFINE canon == db.hashes[lo]
             n == [kv EXCEPT !.journal[lo] = << >>]
  <2>6. mem' = Marked(ReadOverlay(kv), lo, canon) /\ batch' = MarkBatch(mem, lo, canon)
      BY <2>1, <2>2, <2>3 DEF MarkCanonical
  <2>7. n \in Columns /\ n.latest = kv.latest /\ n.journal = [kv.journal EXCEPT ![lo] = << >>]
    <3>1. [kv.journal EXCEPT ![lo] = << >>] \in [Eras -> Seq(Record)] BY <2>4 DEF Columns
    <3> QED BY <2>4, <3>1 DEF Columns
  <2>8. Cleared(mem') = ReadOverlay(n)
    <3> HIDE DEF n, canon
    <3>1. Unbroken(kv, lo) /\ lo < kv.latest BY <2>2, <2>5
    <3>2. \A c : Cleared(Marked(ReadOverlay(kv), lo, c)) = ReadOverlay(n)
        BY <3>1, <2>7, DropKeepsUnbroken
    <3> QED BY <3>2, <2>6
  <2>9. batch'.era = lo /\ batch'.put \subseteq Keys
      BY <2>6 DEF MarkBatch, CanonInsertions
  <2>10. batch' # NoBatch' /\ NoBatch' = NoBatch BY <2>9, <1>0 DEF NoBatch
  <2> QED BY <2>1, <2>2, <2>5, <2>8, <2>9, <2>10 DEF StoreInv
<1>3. ASSUME WritePruned PROVE StoreInv'
  <2>1. /\ batch # NoBatch /\ batch' = NoBatch
        /\ kv' = [kv EXCEPT !.nodes = (kv.nodes \cup batch.put) \ batch.delete,
                             !.journal[batch.era] = << >>]
        /\ mem' = Cleared(mem)
        /\ UNCHANGED <<db, disk, status, pruning, kvDisk>>
      BY <1>3 DEF WritePruned, WriteMarked, Cleared
  <2>2. PICK lo \in Eras :
           /\ Unbroken(kv, lo) /\ lo < kv.latest /\ batch.era = lo /\ batch.put \subseteq Keys
           /\ status = "running"
           /\ Cleared(mem) = ReadOverlay([kv EXCEPT !.journal[lo] = << >>])
      BY <2>1 DEF StoreInv
  <2>3. /\ kv' \in Columns /\ kv'.latest = kv.latest
        /\ kv'.journal = [kv.journal EXCEPT ![lo] = << >>]
    <3> DEFINE nn == (kv.nodes \cup batch.put) \ batch.delete
               jj == [kv.journal EXCEPT ![lo] = << >>]
    <3>1. kv \in Columns BY <2>2 DEF Unbroken
    <3>2. nn \in SUBSET Keys /\ jj \in [Eras -> Seq(Record)] BY <2>2, <3>1 DEF Columns
    <3>3. kv' = [[kv EXCEPT !.nodes = nn] EXCEPT !.journal = jj]
        BY <2>1, <2>2, <3>1 DEF Columns
    <3> HIDE DEF nn, jj
    <3>4. kv' \in Columns /\ kv'.latest = kv.latest /\ kv'.journal = jj
        BY <3>1, <3>2, <3>3 DEF Columns
    <3> QED BY <3>4 DEF jj
  <2>4. Unbroken(kv', lo + 1) /\ lo + 1 \in Eras
    <3>1. Unbroken(kv', lo + 1) BY <2>2, <2>3, DropKeepsUnbroken
    <3> QED BY <3>1 DEF Unbroken
  <2>5. mem' = ReadOverlay(kv')
    <3> DEFINE n == [kv EXCEPT !.journal[lo] = << >>]
    <3>1. n.journal = kv'.journal /\ n.latest = kv'.latest
        BY <2>2, <2>3 DEF Unbroken, Columns
    <3>2. ReadOverlay(n) = ReadOverlay(kv')
      <4> HIDE DEF n
      <4> QED BY <3>1, ReadsJournalOnly
    <3> QED BY <3>2, <2>1, <2>2
  <2>6. BodiesBelow(db, kv)' BY <2>1, <2>3 DEF StoreInv, BodiesBelow
  <2> QED BY <2>1, <2>2, <2>4, <2>5, <2>6 DEF StoreInv, NoBatch
<1>4. ASSUME PruneEnds PROVE StoreInv'
  <2>1. batch = NoBatch /\ UNCHANGED <<db, disk, status, mem, kv, kvDisk, batch>>
      BY <1>4 DEF PruneEnds
  <2> QED BY <2>1 DEF StoreInv
<1>5. ASSUME PruneSpins PROVE StoreInv'
  <2>1. batch = NoBatch /\ status' = "hung" /\ UNCHANGED <<db, disk, mem, kv, kvDisk, batch>>
      BY <1>5 DEF PruneSpins
  <2> QED BY <2>1 DEF StoreInv
<1>6. ASSUME StoreFlush PROVE StoreInv'
  <2>1. /\ disk' = db /\ kvDisk' = kv /\ status = "running"
        /\ UNCHANGED <<db, status, mem, kv, batch, pruning>>
      BY <1>6 DEF StoreFlush, Flush
  <2> QED BY <2>1 DEF StoreInv
<1>7. ASSUME StoreCrash \/ Killed PROVE StoreInv'
  <2>1. /\ db' = disk /\ status' = "down" /\ kv' = kvDisk /\ batch' = NoBatch
        /\ UNCHANGED <<disk, kvDisk>>
      BY <1>7 DEF StoreCrash, Killed, Crash, Lose
  <2> QED BY <2>1 DEF StoreInv
<1>8. ASSUME StoreRestart PROVE StoreInv'
  <2>1. /\ status = "down" /\ status' = "running" /\ mem' = ReadOverlay(kv)
        /\ UNCHANGED <<db, disk, kv, kvDisk, batch>>
      BY <1>8 DEF StoreRestart, Restart
  <2>2. batch = NoBatch BY <2>1 DEF StoreInv
  <2> QED BY <2>1, <2>2 DEF StoreInv
<1>9. ASSUME NEW n, ResetChain(n) PROVE StoreInv'
  <2>1. /\ status = "down" /\ db' = WithoutLatest(db, n) /\ disk' = db'
        /\ UNCHANGED <<status, mem, kv, kvDisk, batch>>
      BY <1>9 DEF ResetChain
  <2>2. "bodies" \in DOMAIN db' /\ db'.bodies \subseteq db.bodies
      BY <2>1 DEF WithoutLatest, StoreInv
  <2>3. BodiesBelow(db', kv) BY <2>2 DEF BodiesBelow, StoreInv
  <2>4. batch = NoBatch /\ kv = kvDisk BY <2>1 DEF StoreInv
  <2> QED BY <2>1, <2>2, <2>3, <2>4 DEF StoreInv
<1>10. CASE UNCHANGED storeVars
    BY <1>10 DEF StoreInv, storeVars
<1> QED
    BY <1>1, <1>2, <1>3, <1>4, <1>5, <1>6, <1>7, <1>8, <1>9, <1>10 DEF StoreNext

(***************************************************************************)
(* For every block tree, every choice of the accounts that blocks change   *)
(* and every pruning history: whatever blocks come, at whatever points     *)
(* eras are pruned, batches are written and the process dies, and however  *)
(* often the chain is reset, the overlay in memory is the one that         *)
(* read_overlay would make of the journal.                                 *)
(***************************************************************************)
THEOREM ReconstructTheorem == StoreSpec => []CanReconstruct
<1>1. StoreInv => CanReconstruct BY DEF StoreInv, CanReconstruct
<1> QED BY StoreInvInit, StoreInvNext, <1>1, PTL DEF StoreSpec

=============================================================================
