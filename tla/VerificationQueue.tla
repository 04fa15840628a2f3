-------------------------- MODULE VerificationQueue --------------------------
(***************************************************************************)
(* The queue between the network and the block database: blocks wait in    *)
(* `unverified`, verifier threads check them in parallel, and `verifying`  *)
(* holds their results back until they can leave in the order of arrival.  *)
(*                                                                         *)
(* A step is one critical section.  The queues' locks are always taken in  *)
(* the order unverified, verifying, verified, bad, and no thread waits for *)
(* anything else while it holds one, except in a Condvar, which gives the  *)
(* lock back; so the locks are not state.  A notify_all that follows the   *)
(* release of a lock is taken together with it: a thread that comes to     *)
(* wait in between has seen the change.  One thread at a time imports      *)
(* (the sync handler holds its own lock; the import command is one         *)
(* thread).  Every block counts one for its heap size.                     *)
(***************************************************************************)
EXTENDS Integers, Sequences, FiniteSets, SequencesExt

CONSTANTS
    Blocks,         \* the hashes of the blocks that arrive
    Parent,         \* their parents
    NoBlock,
    NVerifiers,     \* number of verifier threads spawned
    Word            \* heap sizes are counted modulo this (usize)

Verifiers == 0..(NVerifiers - 1)

ASSUME VerifierAssumption ==
    /\ NVerifiers \in Nat \ {0} /\ Word \in Nat \ {0, 1}
    /\ NoBlock \notin Blocks
    /\ DOMAIN Parent = Blocks

VARIABLES
    unverified, verifying, verified,    \* the three queues
    bad,            \* hashes known to be bad
    processing,     \* hashes between import and mark_as_good or mark_as_bad
    sizes,          \* the heap sizes of the three queues
    active,         \* State::Work(active), or 0 for State::Exit
    worker,         \* what each verifier is doing, and with which block
    sender,         \* what the thread that calls import is doing
    signalled,      \* QueueSignal
    messages,       \* BlockVerified messages on the io channel
    flusher,        \* the caller of flush
    closing         \* how far drop has come

VARIABLES
    arrived,        \* history: the blocks queued, in order
    scaled,         \* history: scale_verifiers has run
    failed          \* history: the blocks that failed a check of their own

queues == <<unverified, verifying, verified, sizes>>

pool == <<active, closing, scaled>>

signals == <<signalled, messages>>

queueVars == <<queues, pool, signals, bad, processing, worker, sender, flusher, arrived, failed>>

At(stage) == [at |-> stage, block |-> NoBlock]

QueueInit ==
    /\ unverified = << >> /\ verifying = << >> /\ verified = << >>
    /\ sizes = [unverified |-> 0, verifying |-> 0, verified |-> 0]
    /\ bad = {} /\ processing = {}
    /\ active \in 1..NVerifiers
    /\ worker = [i \in Verifiers |-> At("check")]
    /\ sender = At("idle")
    /\ signalled = FALSE /\ messages = 0
    /\ flusher = "idle" /\ closing = "no"
    /\ arrived = << >> /\ scaled = FALSE /\ failed = {}

Plus(x, n) == (x + n) % Word

Minus(x, n) == (x - n) % Word

-----------------------------------------------------------------------------
(***************************************************************************)
(* import, called with a block the client's own checks let through: the    *)
(* checks, K::create and the size; then `processing`; then the push that   *)
(* wakes the verifiers.  A block that comes too early is turned away and   *)
(* may come again.                                                         *)
(***************************************************************************)
NotListed(b) == b \notin processing \cup bad

Refused ==
    LET b == sender.block
    IN  /\ sender.at = "checked"
        \* AlreadyQueued, KnownBad (the parent's badness is inherited) or TemporarilyInvalid
        /\ bad' = IF NotListed(b) /\ Parent[b] \in bad THEN bad \cup {b} ELSE bad
        /\ sender' = At("idle")
        /\ UNCHANGED <<queues, pool, signals, processing, worker, flusher, arrived, failed>>

CreateFails ==
    LET b == sender.block
    IN  /\ sender.at = "checked"
        /\ NotListed(b) /\ Parent[b] \notin bad
        /\ bad' = bad \cup {b}
        /\ failed' = failed \cup {b}
        /\ sender' = At("idle")
        /\ UNCHANGED <<queues, pool, signals, processing, worker, flusher, arrived>>

Created ==
    LET b == sender.block
    IN  /\ sender.at = "checked"
        /\ NotListed(b) /\ Parent[b] \notin bad
        /\ sizes' = [sizes EXCEPT !.unverified = Plus(@, 1)]
        /\ sender' = [sender EXCEPT !.at = "counted"]
        /\ UNCHANGED <<unverified, verifying, verified, pool, signals, bad, processing, worker,
                       flusher, arrived, failed>>

Register ==
    /\ sender.at = "counted"
    /\ processing' = processing \cup {sender.block}
    /\ sender' = [sender EXCEPT !.at = "push"]
    /\ UNCHANGED <<queues, pool, signals, bad, worker, flusher, arrived, failed>>

Wake(from, to) ==
    worker' = [i \in Verifiers |-> IF worker[i].at = from THEN At(to) ELSE worker[i]]

PushWithoutNotify ==
    /\ sender.at = "push"
    /\ sender' = At("idle")
    /\ unverified' = Append(unverified, sender.block)
    /\ arrived' = Append(arrived, sender.block)
    /\ UNCHANGED <<verifying, verified, sizes, pool, signals, bad, processing, worker, flusher, failed>>

Push ==
    /\ sender.at = "push"
    /\ sender' = At("idle")
    /\ unverified' = Append(unverified, sender.block)
    /\ arrived' = Append(arrived, sender.block)
    /\ Wake("waiting", "woken")
    /\ UNCHANGED <<verifying, verified, sizes, pool, signals, bad, processing, flusher, failed>>

-----------------------------------------------------------------------------
(***************************************************************************)
(* The loop of a verifier.  First it looks at the state of the pool.       *)
(***************************************************************************)
CheckState(i) ==
    /\ worker[i].at = "check"
    /\ worker' = [worker EXCEPT ![i] = At(IF active = 0 THEN "exited"
                                          ELSE IF i < active THEN "enter" ELSE "asleep")]
    /\ UNCHANGED <<queues, pool, signals, bad, processing, sender, flusher, arrived, failed>>

(***************************************************************************)
(* Then it waits for work; the first look tells the caller of flush when   *)
(* both queues are empty.                                                  *)
(***************************************************************************)
WaitForWork(i) ==
    worker' = [worker EXCEPT ![i] = At(IF active = 0 THEN "exited"
                                       ELSE IF unverified = << >> THEN "waiting" ELSE "take")]

EnterSilently(i) ==
    /\ worker[i].at = "enter"
    /\ WaitForWork(i)
    /\ UNCHANGED <<queues, pool, signals, bad, processing, sender, flusher, arrived, failed>>

Enter(i) ==
    /\ worker[i].at = "enter"
    /\ WaitForWork(i)
    /\ flusher' = IF unverified = << >> /\ verifying = << >> /\ flusher = "waiting"
                  THEN "notified" ELSE flusher
    /\ UNCHANGED <<queues, pool, signals, bad, processing, sender, arrived, failed>>

Woken(i) ==
    /\ worker[i].at = "woken"
    /\ WaitForWork(i)
    /\ UNCHANGED <<queues, pool, signals, bad, processing, sender, flusher, arrived, failed>>

(***************************************************************************)
(* It takes a block, unless another verifier was faster.                   *)
(***************************************************************************)
Take(i) ==
    /\ worker[i].at = "take"
    /\ IF unverified = << >>
       THEN worker' = [worker EXCEPT ![i] = At("check")] /\ UNCHANGED queues
       ELSE /\ worker' = [worker EXCEPT ![i] = [at |-> "verify", block |-> Head(unverified)]]
            /\ unverified' = Tail(unverified)
            /\ verifying' = Append(verifying, [hash |-> Head(unverified), done |-> FALSE])
            /\ sizes' = [sizes EXCEPT !.unverified = Minus(@, 1)]
            /\ UNCHANGED verified
    /\ UNCHANGED <<pool, signals, bad, processing, sender, flusher, arrived, failed>>

(***************************************************************************)
(* drain_verifying: the results at the front leave, in order; children of  *)
(* bad blocks become bad.                                                  *)
(***************************************************************************)
DonePrefix(q) ==
    SubSeq(q, 1, CHOOSE n \in 0..Len(q) :
                    (\A k \in 1..n : q[k].done) /\ (n < Len(q) => ~q[n + 1].done))

Hashes(q) == [k \in DOMAIN q |-> q[k].hash]

Sift(hashes, known) ==
    LET step(out, b) == IF Parent[b] \in out.bad
                        THEN [out EXCEPT !.bad = @ \cup {b}]
                        ELSE [out EXCEPT !.kept = Append(@, b)]
        nothing == [kept |-> << >>, bad |-> known]
    IN  IF hashes = << >> THEN nothing ELSE FoldLeft(step, nothing, hashes)

DrainCountsAll(q, known, size) ==
    LET ready == DonePrefix(q)
        out == Sift(Hashes(ready), known)
    IN  /\ verified' = verified \o out.kept
        /\ bad' = out.bad
        /\ verifying' = SubSeq(q, Len(ready) + 1, Len(q))
        /\ sizes' = [sizes EXCEPT !.verifying = Minus(size, Len(ready)),
                                  !.verified = Plus(@, Len(ready))]

DrainVerifying(q, known, size) ==
    LET ready == DonePrefix(q)
        out == Sift(Hashes(ready), known)
    IN  /\ verified' = verified \o out.kept
        /\ bad' = out.bad
        /\ verifying' = SubSeq(q, Len(ready) + 1, Len(q))
        /\ sizes' = [sizes EXCEPT !.verifying = Minus(size, Len(ready)),
                                  !.verified = Plus(@, Len(out.kept))]

(***************************************************************************)
(* K::verify has returned.  A block may be gone from `verifying` when the  *)
(* queue was cleared meanwhile.                                            *)
(***************************************************************************)
VerifiedOkOutOfTurn(i) ==
    LET b == worker[i].block
    IN  /\ worker[i].at = "verify"
        /\ worker' = [worker EXCEPT ![i] = At("signal")]
        /\ verifying' = SelectSeq(verifying, LAMBDA e : e.hash # b)
        /\ verified' = Append(verified, b)
        /\ sizes' = [sizes EXCEPT !.verified = Plus(@, 1)]
        /\ UNCHANGED <<unverified, bad, pool, signals, processing, sender, flusher, arrived, failed>>

VerifiedOk(i) ==
    LET b == worker[i].block
        mine == {k \in DOMAIN verifying : verifying[k].hash = b}
        first == CHOOSE k \in mine : \A j \in mine : k <= j
        marked == [verifying EXCEPT ![first].done = TRUE]
        size == Plus(sizes.verifying, 1)
    IN  /\ worker[i].at = "verify"
        /\ \/ /\ mine = {}
              /\ worker' = [worker EXCEPT ![i] = At("check")]
              /\ UNCHANGED <<queues, bad>>
           \/ /\ mine # {} /\ first = 1
              /\ worker' = [worker EXCEPT ![i] = At("signal")]
              /\ DrainVerifying(marked, bad, size)
              /\ UNCHANGED unverified
           \/ /\ mine # {} /\ first # 1
              /\ worker' = [worker EXCEPT ![i] = At("check")]
              /\ verifying' = marked
              /\ sizes' = [sizes EXCEPT !.verifying = size]
              /\ UNCHANGED <<unverified, verified, bad>>
        /\ UNCHANGED <<pool, signals, processing, sender, flusher, arrived, failed>>

VerifiedBad(i) ==
    LET rest == SelectSeq(verifying, LAMBDA e : e.hash # worker[i].block)
        known == bad \cup {worker[i].block}
    IN  /\ worker[i].at = "verify"
        /\ IF rest # << >> /\ Head(rest).done
           THEN /\ DrainVerifying(rest, known, sizes.verifying)
                /\ worker' = [worker EXCEPT ![i] = At("signal")]
           ELSE /\ verifying' = rest /\ bad' = known
                /\ worker' = [worker EXCEPT ![i] = At("check")]
                /\ UNCHANGED <<verified, sizes>>
        /\ failed' = failed \cup {worker[i].block}
        /\ UNCHANGED <<unverified, pool, signals, processing, sender, flusher, arrived>>

(***************************************************************************)
(* ready.set_sync: the first to set the signal handles the message itself. *)
(***************************************************************************)
SetSync(i) ==
    /\ worker[i].at = "signal"
    /\ IF signalled \/ closing # "no"
       THEN worker' = [worker EXCEPT ![i] = At("check")] /\ UNCHANGED signalled
       ELSE worker' = [worker EXCEPT ![i] = At("importing")] /\ signalled' = TRUE
    /\ UNCHANGED <<queues, pool, messages, bad, processing, sender, flusher, arrived, failed>>

-----------------------------------------------------------------------------
(***************************************************************************)
(* drain(max): takes verified blocks, resets the signal, and asks for      *)
(* another round if some are left.  A verifier may set the signal between  *)
(* the reset and the set; then it does the round itself.                   *)
(***************************************************************************)
Batch(max) == SubSeq(verified, 1, IF max < Len(verified) THEN max ELSE Len(verified))

DrainAll ==
    /\ verified' = << >>
    /\ sizes' = [sizes EXCEPT !.verified = Minus(@, Len(verified))]
    /\ signalled' = FALSE
    /\ UNCHANGED <<messages, worker>>

DrainForgetsRest(max) ==
    \/ Len(verified) <= max /\ DrainAll
    \/ /\ Len(verified) > max
       /\ verified' = SubSeq(verified, max + 1, Len(verified))
       /\ sizes' = [sizes EXCEPT !.verified = Minus(@, max)]
       /\ signalled' = FALSE
       /\ UNCHANGED <<messages, worker>>

Drain(max) ==
    \/ Len(verified) <= max /\ DrainAll
    \/ /\ Len(verified) > max
       /\ verified' = SubSeq(verified, max + 1, Len(verified))
       /\ sizes' = [sizes EXCEPT !.verified = Minus(@, max)]
       /\ signalled' = TRUE
       /\ \/ messages' = messages + 1 /\ UNCHANGED worker
          \/ /\ \E i \in Verifiers : /\ worker[i].at = "signal"
                                     /\ worker' = [worker EXCEPT ![i] = At("importing")]
             /\ UNCHANGED messages

(***************************************************************************)
(* mark_as_bad: descendants among the verified blocks go too.              *)
(***************************************************************************)
MarkOnlyListed(hashes) ==
    /\ bad' = bad \cup hashes
    /\ processing' = processing \ hashes
    /\ UNCHANGED <<verified, sizes>>

MarkAsBad(hashes) ==
    LET out == Sift(verified, bad \cup hashes)
    IN  /\ verified' = out.kept
        /\ bad' = out.bad
        /\ processing' = processing \ (hashes \cup (ToSet(verified) \ ToSet(out.kept)))
        /\ sizes' = [sizes EXCEPT !.verified = Minus(@, Len(verified) - Len(out.kept))]

(***************************************************************************)
(* clear.                                                                  *)
(***************************************************************************)
Clear ==
    /\ unverified' = << >> /\ verifying' = << >> /\ verified' = << >>
    /\ sizes' = [unverified |-> 0, verifying |-> 0, verified |-> 0]
    /\ processing' = {}
    /\ arrived' = << >>

(***************************************************************************)
(* flush: the caller waits on `empty`, and looks again when told.          *)
(***************************************************************************)
Flush ==
    /\ flusher \in {"call", "notified"}
    /\ flusher' = IF unverified = << >> /\ verifying = << >> THEN "flushed" ELSE "waiting"
    /\ UNCHANGED <<queues, pool, signals, bad, processing, worker, sender, arrived, failed>>

(***************************************************************************)
(* scale_verifiers, with a target collect_garbage may ask for: which one   *)
(* depends on lengths read under locks released since.                     *)
(***************************************************************************)
UnclippedTarget(target) == target

Clipped(target) == IF target > NVerifiers THEN NVerifiers ELSE IF target < 1 THEN 1 ELSE target

ScaleVerifiers ==
    /\ closing = "no"
    /\ \E target \in {1, active - 1, active, active + 1} : active' = Clipped(target)
    /\ Wake("asleep", "check")
    /\ scaled' = TRUE
    /\ UNCHANGED <<queues, closing, signals, bad, processing, sender, flusher, arrived, failed>>

(***************************************************************************)
(* drop.  Nobody else has a handle to the queue by then: no call is under  *)
(* way and no verifier runs the client's handler.                          *)
(***************************************************************************)
Unshared ==
    /\ sender.at = "idle" /\ flusher = "idle"
    /\ \A i \in Verifiers : worker[i].at # "importing"

DropClears ==
    /\ closing = "no" /\ Unshared
    /\ Clear
    /\ closing' = "deleting"
    /\ UNCHANGED <<active, scaled, signals, bad, worker, sender, flusher, failed>>

DropStopsOnlySleepers ==
    /\ closing = "deleting"
    /\ active' = 0
    /\ Wake("asleep", "check")
    /\ closing' = "joining"
    /\ UNCHANGED <<queues, scaled, signals, bad, processing, sender, flusher, arrived, failed>>

DropStops ==
    /\ closing = "deleting"
    /\ active' = 0
    /\ Wake("asleep", "check")
    /\ closing' = "exit"
    /\ UNCHANGED <<queues, scaled, signals, bad, processing, sender, flusher, arrived, failed>>

DropNotifies ==
    /\ closing = "exit"
    /\ Wake("waiting", "woken")
    /\ closing' = "joining"
    /\ UNCHANGED <<queues, active, scaled, signals, bad, processing, sender, flusher, arrived, failed>>

VerifierStep(i) ==
    \/ CheckState(i) \/ Enter(i) \/ Woken(i) \/ Take(i)
    \/ VerifiedOk(i) \/ SetSync(i)

SenderStep == Refused \/ Created \/ Register \/ Push

DropStep == DropStops \/ DropNotifies
=============================================================================
