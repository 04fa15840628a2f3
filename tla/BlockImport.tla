----------------------------- MODULE BlockImport -----------------------------
(***************************************************************************)
(* The client around the verification queue: import_block lets a block in, *)
(* import_verified_blocks takes batches out and enacts them.  Whoever sees *)
(* the signal imports: the verifier that set it (send_sync runs the        *)
(* handler in the verifier's thread), the io thread that got the message,  *)
(* or the caller of flush_queue.                                           *)
(***************************************************************************)
EXTENDS VerificationQueue

CONSTANT
    Genesis,        \* the block the chain starts with
    MaxRound        \* max_round_blocks_to_import

ASSUME ImportAssumption == MaxRound \in Nat \ {0} /\ Genesis \notin Blocks \cup {NoBlock}

VARIABLES
    chain,          \* the blocks of the database
    io,             \* the io thread: "idle" or "importing"
    round           \* the holder of import_lock, and its batch

IoThread == NVerifiers

Caller == NVerifiers + 1

Nobody == NVerifiers + 2

Idle == [by |-> Nobody, todo |-> << >>, good |-> {}, invalid |-> {}]

vars == <<queueVars, chain, io, round>>

Init ==
    /\ QueueInit
    /\ chain = {Genesis}
    /\ io = "idle"
    /\ round = Idle

Keep == UNCHANGED <<chain, io, round>>

-----------------------------------------------------------------------------
(***************************************************************************)
(* import_block: the block must be new and its parent known.  The queue    *)
(* looks at the block later, in a step of its own.                         *)
(***************************************************************************)
ImportBlock(b) ==
    /\ sender.at = "idle" /\ flusher = "idle" /\ closing = "no"
    /\ b \notin chain
    /\ Parent[b] \in chain \cup processing \cup bad
    /\ sender' = [at |-> "checked", block |-> b]
    /\ UNCHANGED <<queues, pool, signals, bad, processing, worker, flusher, arrived, failed>>
    /\ Keep

(***************************************************************************)
(* The steps of the queue.  A block that is in the chain has passed every  *)
(* check; if it comes again it passes again.                               *)
(***************************************************************************)
Send ==
    /\ \/ SenderStep
       \/ CreateFails /\ sender.block \notin chain
    /\ Keep

Verify(i) ==
    /\ \/ VerifierStep(i)
       \/ VerifiedBad(i) /\ worker[i].block \notin chain
    /\ Keep

(***************************************************************************)
(* A thread that has come to import_verified_blocks, and its return.       *)
(***************************************************************************)
Importers == Verifiers \cup {IoThread, Caller}

Wants(t) ==
    CASE t = IoThread -> io = "importing"
      [] t = Caller -> flusher = "importing"
      [] OTHER -> worker[t].at = "importing"

Return(t) ==
    /\ io' = IF t = IoThread THEN "idle" ELSE io
    /\ flusher' = IF t = Caller THEN "flushed" ELSE flusher
    /\ worker' = IF t \in Verifiers THEN [worker EXCEPT ![t] = At("check")] ELSE worker

(***************************************************************************)
(* Take the import lock and a batch; an empty one gives the lock back.     *)
(***************************************************************************)
BeginUnlocked(t) ==
    /\ Wants(t)
    /\ Drain(MaxRound)
    /\ round' = [Idle EXCEPT !.by = t, !.todo = Batch(MaxRound)]
    /\ UNCHANGED <<unverified, verifying, pool, bad, processing, sender, flusher, arrived, failed,
                   chain, io>>

Begin(t) ==
    /\ Wants(t) /\ round.by = Nobody
    /\ \/ /\ verified # << >>
          /\ Drain(MaxRound)
          /\ round' = [Idle EXCEPT !.by = t, !.todo = Batch(MaxRound)]
          /\ UNCHANGED <<unverified, verifying, pool, bad, processing, sender, flusher, arrived, failed,
                         chain, io>>
       \/ /\ verified = << >>
          /\ signalled' = FALSE
          /\ Return(t)
          /\ UNCHANGED <<queues, pool, messages, bad, processing, sender, arrived, failed,
                         chain, round>>

(***************************************************************************)
(* One block of the batch: check_and_lock_block and commit_block.          *)
(***************************************************************************)
EnactOk ==
    LET b == Head(round.todo)
    IN  /\ round.todo # << >>
        /\ Parent[b] \notin round.invalid /\ Parent[b] \in chain
        /\ chain' = chain \cup {b}
        /\ round' = [round EXCEPT !.todo = Tail(@), !.good = @ \cup {b}]
        /\ UNCHANGED <<queueVars, io>>

EnactFails ==
    LET b == Head(round.todo)
        orphan == Parent[b] \in round.invalid \/ Parent[b] \notin chain
    IN  /\ round.todo # << >>
        /\ b \notin chain
        /\ round' = [round EXCEPT !.todo = Tail(@), !.invalid = @ \cup {b}]
        /\ failed' = IF orphan THEN failed ELSE failed \cup {b}
        /\ UNCHANGED <<queues, pool, signals, bad, processing, worker, sender, flusher, arrived,
                       chain, io>>

Enact == EnactOk \/ EnactFails

(***************************************************************************)
(* The batch is through: mark_as_bad, then mark_as_good and the return.    *)
(***************************************************************************)
MarkBad ==
    /\ round.by # Nobody /\ round.todo = << >> /\ round.invalid # {}
    /\ MarkAsBad(round.invalid)
    /\ round' = [round EXCEPT !.invalid = {}]
    /\ UNCHANGED <<unverified, verifying, pool, signals, worker, sender, flusher, arrived, failed,
                   chain, io>>

MarkGood ==
    /\ round.by # Nobody /\ round.todo = << >> /\ round.invalid = {}
    /\ processing' = processing \ round.good
    /\ Return(round.by)
    /\ round' = Idle
    /\ UNCHANGED <<queues, pool, signals, bad, sender, arrived, failed, chain>>

(***************************************************************************)
(* The io thread gets a BlockVerified message.                             *)
(***************************************************************************)
Message ==
    /\ io = "idle" /\ messages > 0 /\ closing = "no"
    /\ io' = "importing"
    /\ messages' = messages - 1
    /\ UNCHANGED <<queues, pool, signalled, bad, processing, worker, sender, flusher, arrived, failed,
                   chain, round>>

(***************************************************************************)
(* flush_queue: flush, and import until the queue is empty.  The import    *)
(* command calls it after its last block.                                  *)
(***************************************************************************)
FlushQueue ==
    /\ flusher = "idle" /\ sender.at = "idle" /\ closing = "no"
    /\ flusher' = "call"
    /\ UNCHANGED <<queues, pool, signals, bad, processing, worker, sender, arrived, failed>>
    /\ Keep

FlushLoop ==
    /\ flusher = "flushed"
    /\ flusher' = IF unverified = << >> /\ verifying = << >> /\ verified = << >>
                  THEN "idle" ELSE "importing"
    /\ UNCHANGED <<queues, pool, signals, bad, processing, worker, sender, arrived, failed>>
    /\ Keep

ImporterStep ==
    \/ \E t \in Importers : Begin(t)
    \/ Enact \/ MarkBad \/ MarkGood
    \/ Message

Next ==
    \/ \E b \in Blocks : ImportBlock(b)
    \/ Send
    \/ \E i \in Verifiers : Verify(i)
    \/ ImporterStep
    \/ FlushQueue \/ FlushLoop
    \/ Flush /\ Keep
    \/ ScaleVerifiers /\ Keep
    \/ DropClears /\ io = "idle" /\ Keep
    \/ DropStep /\ Keep

(***************************************************************************)
(* Threads that can run do run: the verifiers, the io thread, and the one  *)
(* that has called import, flush_queue or drop.  Nobody has to call them.  *)
(***************************************************************************)
Runs(t) ==
    \/ Begin(t)
    \/ round.by = t /\ (Enact \/ MarkBad \/ MarkGood)
    \/ t \in Verifiers /\ Verify(t)
    \/ t = IoThread /\ Message
    \/ t = Caller /\ (Send \/ FlushLoop)
    \/ t = Caller /\ (Flush \/ DropStep) /\ Keep

Ready(t) ==
    \/ Wants(t) /\ round.by = Nobody
    \/ round.by = t
    \/ t \in Verifiers /\ worker[t].at \in {"check", "enter", "woken", "take", "verify", "signal"}
    \/ t = IoThread /\ io = "idle" /\ messages > 0 /\ closing = "no"
    \/ /\ t = Caller
       /\ \/ sender.at # "idle"
          \/ flusher \in {"call", "notified", "flushed"}
          \/ closing \in {"deleting", "exit"}

(***************************************************************************)
(* WF_vars(Runs(t)) for every thread, with the condition under which it    *)
(* can run written out (TLC would evaluate ENABLED for every transition).  *)
(***************************************************************************)
Fairness == \A t \in Importers : []<>~Ready(t) \/ []<><<Runs(t)>>_vars

(***************************************************************************)
(* The condition is the right one.                                         *)
(***************************************************************************)
ReadyIsEnabled == \A t \in Importers : Ready(t) <=> ENABLED <<Runs(t)>>_vars

Spec == Init /\ [][Next]_vars /\ Fairness

-----------------------------------------------------------------------------
TypeOK ==
    /\ unverified \in Seq(Blocks) /\ verified \in Seq(Blocks)
    /\ verifying \in Seq([hash : Blocks, done : BOOLEAN])
    /\ bad \subseteq Blocks /\ processing \subseteq Blocks
    /\ chain \subseteq Blocks \cup {Genesis}
    /\ active \in 0..NVerifiers
    /\ signalled \in BOOLEAN /\ messages \in Nat
    /\ round.by \in Importers \cup {Nobody}

(***************************************************************************)
(* A verified block is never left behind: while some are waiting, the      *)
(* signal is set or a verifier is about to set it, and a set signal has a  *)
(* message on the way or a thread that will drain.                         *)
(***************************************************************************)
WillDrain ==
    \/ messages > 0
    \/ \E t \in Importers : Wants(t) /\ round.by # t

SignalNotLost ==
    closing = "no" =>
        /\ verified # << >> => signalled \/ \E i \in Verifiers : worker[i].at = "signal"
        /\ signalled => WillDrain

(***************************************************************************)
(* No wake-up is lost: a verifier that waits for work has none to do, and  *)
(* one that sleeps is not needed; once drop has notified both condition    *)
(* variables, nobody it will join is left waiting.                         *)
(***************************************************************************)
NoLostWakeup ==
    \A i \in Verifiers :
        /\ worker[i].at = "waiting" => unverified = << >> /\ closing # "joining"
        /\ worker[i].at = "asleep" => active # 0 /\ i >= active

(***************************************************************************)
(* "Keeps them in the same order as inserted, minus invalid items": what   *)
(* is in the queues, read from the front of the batch to the back of       *)
(* `unverified`, is what arrived with some blocks left out.                *)
(***************************************************************************)
Pipeline == round.todo \o verified \o Hashes(verifying) \o unverified

KeepsOrder ==
    closing = "no" =>
        \E kept \in SUBSET DOMAIN arrived :
            Pipeline = [k \in 1..Cardinality(kept) |->
                            arrived[CHOOSE n \in kept : Cardinality({m \in kept : m <= n}) = k]]

(***************************************************************************)
(* A block is put on the list of bad blocks only when it or an ancestor    *)
(* fails a check, however the threads interleave: the list is never        *)
(* cleaned, so a good block on it is lost for the life of the node.        *)
(***************************************************************************)
OnlyFailuresAreBad ==
    \A b \in bad \cup round.invalid :
        b \in failed \/ Parent[b] \in bad \cup round.invalid

(***************************************************************************)
(* No child of a bad block waits to be enacted.                            *)
(***************************************************************************)
NoChildOfBad == \A b \in ToSet(verified) : Parent[b] \notin bad

(***************************************************************************)
(* The sizes behind mem_used are those of the blocks in the queues; a      *)
(* fetch_sub below zero would make the queue look full for good.           *)
(***************************************************************************)
SizesMatch ==
    closing = "no" =>
        /\ sizes.unverified = Len(unverified) + (IF sender.at \in {"counted", "push"} THEN 1 ELSE 0)
        /\ sizes.verifying = Len(SelectSeq(verifying, LAMBDA e : e.done))
        /\ sizes.verified = Len(verified)

(***************************************************************************)
(* A block that was queued gets into the chain or onto the bad list.       *)
(***************************************************************************)
QueuedIsSettled ==
    \A b \in Blocks :
        (b \in processing) ~> (b \in chain \cup bad \/ closing # "no")

(***************************************************************************)
(* flush_queue returns, unless verifiers were put to sleep (the last one   *)
(* to finish may then not report that the queue is empty).                 *)
(***************************************************************************)
FlushReturns == (flusher # "idle") ~> (flusher = "idle" \/ scaled)

(***************************************************************************)
(* drop joins its threads: every verifier leaves its loop.                 *)
(***************************************************************************)
VerifiersExit == (closing # "no") ~> \A i \in Verifiers : worker[i].at = "exited"

(***************************************************************************)
(* mark_as_good: "Returns true if the queue becomes empty."  The client    *)
(* tells the miner about new blocks only when it does.                     *)
(***************************************************************************)
MarkAsGoodSeesEmpty ==
    [][MarkGood /\ Pipeline = << >> /\ sender.at = "idle" => processing' = {}]_vars
=============================================================================
