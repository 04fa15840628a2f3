-------------------------- MODULE BlockImportProofs --------------------------
(***************************************************************************)
(* The signal between the verifiers and the importers, and the wake-ups of *)
(* the verifiers, for any number of verifiers and any blocks.              *)
(***************************************************************************)
EXTENDS BlockImport, TLAPS

(***************************************************************************)
(* What the argument needs of the shape of the state, and that the thread  *)
(* that holds import_lock is inside import_verified_blocks.                *)
(***************************************************************************)
Shape ==
    /\ DOMAIN worker = Verifiers
    /\ messages \in Nat /\ active \in Nat
    /\ "by" \in DOMAIN round
    /\ round.by \in Importers \cup {Nobody}

Holder == round.by \in Importers => Wants(round.by)

Waiting == closing = "no" /\ verified # << >> => signalled \/ \E i \in Verifiers : worker[i].at = "signal"

Served == closing = "no" /\ signalled => WillDrain

SignalInv == Shape /\ Holder /\ Waiting /\ Served

USE VerifierAssumption

(***************************************************************************)
(* The threads' names are distinct.                                        *)
(***************************************************************************)
LEMMA Threads ==
    /\ IoThread \notin Verifiers /\ Caller \notin Verifiers /\ Nobody \notin Importers
    /\ IoThread # Caller
    /\ Verifiers \subseteq Nat
BY DEF IoThread, Caller, Nobody, Importers, Verifiers

(***************************************************************************)
(* A fresh node: nothing verified, no signal, the import lock is free.     *)
(***************************************************************************)
LEMMA SignalInit == Init => SignalInv
<1> SUFFICES ASSUME Init PROVE SignalInv
  OBVIOUS
<1>1. Shape
  BY DEF Init, QueueInit, Shape, Idle, Importers
<1>2. Holder
  BY Threads DEF Init, Idle, Holder
<1>3. Waiting /\ Served
  BY DEF Init, QueueInit, Waiting, Served
<1> QED BY <1>1, <1>2, <1>3 DEF SignalInv

(***************************************************************************)
(* A step of a verifier that does not touch the signal: what it verified   *)
(* it is about to signal.                                                  *)
(***************************************************************************)
LEMMA VerifierSignals ==
    ASSUME SignalInv, NEW i \in Verifiers,
           worker[i].at \notin {"importing", "signal"},
           NEW s, NEW blk, worker' = [worker EXCEPT ![i] = [at |-> s, block |-> blk]],
           s # "importing", verified' = verified \/ s = "signal",
           flusher' = flusher \/ (flusher # "importing" /\ flusher' # "importing"),
           UNCHANGED <<active, closing, signalled, messages, io, round>>
    PROVE  SignalInv'
<1>1. \A j \in Verifiers : j # i => worker'[j] = worker[j]
  BY DEF SignalInv, Shape
<1>2. worker'[i].at = s
  BY DEF SignalInv, Shape
<1>3. Shape'
  BY DEF SignalInv, Shape
<1>4. \A t \in Importers : Wants(t)' <=> Wants(t)
  BY <1>1, <1>2, Threads DEF Wants, Importers
<1>5. Holder' /\ Served'
  BY <1>4 DEF SignalInv, Holder, Served, WillDrain
<1>6. Waiting'
  BY <1>1, <1>2 DEF SignalInv, Waiting
<1> QED BY <1>3, <1>5, <1>6 DEF SignalInv

(***************************************************************************)
(* The whole loop of a verifier.  set_sync makes the caller an importer    *)
(* that has yet to drain.                                                  *)
(***************************************************************************)
LEMMA VerifyKeepsSignal == ASSUME SignalInv, NEW i \in Verifiers, Verify(i) PROVE SignalInv'
<1> USE DEF At, queues, pool, signals, Keep
<1>1. CASE CheckState(i)
  BY <1>1, VerifierSignals, Zenon DEF CheckState, Verify
<1>2. CASE Enter(i)
  BY <1>2, VerifierSignals, Zenon DEF Enter, WaitForWork, Verify
<1>3. CASE Woken(i)
  BY <1>3, VerifierSignals, Zenon DEF Woken, WaitForWork, Verify
<1>4. CASE Take(i)
  BY <1>4, VerifierSignals, Zenon DEF Take, Verify
<1>5. CASE VerifiedOk(i)
  <2>1. /\ worker[i].at = "verify"
        /\ \/ worker' = [worker EXCEPT ![i] = At("signal")]
           \/ worker' = [worker EXCEPT ![i] = At("check")] /\ verified' = verified
        /\ UNCHANGED <<flusher, active, closing, signalled, messages>>
    BY <1>5, Zenon DEF VerifiedOk
  <2> QED BY <2>1, VerifierSignals DEF Verify
<1>6. CASE VerifiedBad(i)
  BY <1>6, VerifierSignals DEF VerifiedBad, Verify
<1>7. CASE SetSync(i)
  <2>1. \A j \in Verifiers : j # i => worker'[j] = worker[j]
    BY <1>7 DEF SetSync, SignalInv, Shape
  <2>2. Shape'
    BY <1>7 DEF SetSync, Verify, SignalInv, Shape
  <2>3. round.by # i
    BY <1>7, Threads DEF SetSync, SignalInv, Holder, Wants, Importers
  <2>4. \A t \in Importers : Wants(t) => Wants(t)'
    BY <1>7, <2>1, Threads DEF SetSync, Verify, Wants, Importers
  <2>5. Holder'
    BY <1>7, <2>4 DEF Verify, SignalInv, Holder
  <2>6. CASE signalled \/ closing # "no"
    BY <1>7, <2>2, <2>4, <2>5, <2>6 DEF SetSync, Verify, SignalInv, Waiting, Served, WillDrain
  <2>7. CASE ~signalled /\ closing = "no"
    <3>1. Wants(i)' /\ i \in Importers
      BY <1>7, <2>7, Threads DEF SetSync, Wants, Importers, SignalInv, Shape
    <3> QED BY <1>7, <2>2, <2>3, <2>5, <2>7, <3>1
            DEF SetSync, Verify, SignalInv, Waiting, Served, WillDrain
  <2> QED BY <2>6, <2>7
<1> QED BY <1>1, <1>2, <1>3, <1>4, <1>5, <1>6, <1>7 DEF Verify, VerifierStep

(***************************************************************************)
(* A step that wakes verifiers, or none, and leaves the signal alone.      *)
(***************************************************************************)
LEMMA OthersKeepSignal ==
    ASSUME SignalInv,
           DOMAIN worker' = Verifiers,
           \A i \in Verifiers : /\ worker'[i].at = "importing" <=> worker[i].at = "importing"
                                /\ worker'[i].at = "signal" <=> worker[i].at = "signal",
           active' \in Nat,
           verified' # << >> => verified # << >>,
           closing' = "no" => closing = "no",
           flusher' = flusher \/ (flusher # "importing"),
           io' = io, signalled' = signalled, messages' = messages,
           "by" \in DOMAIN round', round'.by = round.by
    PROVE  SignalInv'
<1>1. \A t \in Importers : (t = Caller \/ (Wants(t)' <=> Wants(t))) /\ (Wants(t) => Wants(t)')
  BY Threads DEF Wants, Importers
<1>2. Shape' /\ Holder'
  BY <1>1 DEF SignalInv, Shape, Holder
<1>3. Waiting'
  BY DEF SignalInv, Waiting
<1>4. Served'
  BY <1>1 DEF SignalInv, Served, WillDrain
<1> QED BY <1>2, <1>3, <1>4 DEF SignalInv

(***************************************************************************)
(* A return from import_verified_blocks by the thread that held the lock,  *)
(* or by one that found nothing to drain.                                  *)
(***************************************************************************)
LEMMA ReturnKeepsOthers ==
    ASSUME SignalInv, NEW t \in Importers, Wants(t), Return(t)
    PROVE  /\ DOMAIN worker' = Verifiers
           /\ \A u \in Importers : u # t /\ Wants(u) => Wants(u)'
           /\ \A i \in Verifiers : worker[i].at = "signal" => worker'[i].at = "signal"
BY Threads DEF Return, Wants, Importers, SignalInv, Shape, At

(***************************************************************************)
(* Draining: either everything is taken, or the signal is set again and a  *)
(* message, or the verifier that set it first, answers for the rest.       *)
(***************************************************************************)
LEMMA BeginKeepsSignal == ASSUME SignalInv, NEW t \in Importers, Begin(t) PROVE SignalInv'
<1>1. Wants(t) /\ round.by = Nobody
  BY DEF Begin
<1>2. CASE verified = << >>
  <2>1. /\ signalled' = FALSE /\ verified' = << >> /\ Return(t)
        /\ UNCHANGED <<active, messages, round>>
    BY <1>2 DEF Begin, queues, pool
  <2>2. Shape' /\ Holder'
    BY <2>1, <1>1, ReturnKeepsOthers, Threads DEF SignalInv, Shape, Holder
  <2> QED BY <2>1, <2>2 DEF SignalInv, Waiting, Served
<1>3. CASE verified # << >>
  <2>1. /\ Drain(MaxRound)
        /\ round' = [by |-> t, todo |-> Batch(MaxRound), good |-> {}, invalid |-> {}]
        /\ UNCHANGED <<active, closing, flusher, io>>
    BY <1>3, Zenon DEF Begin, pool, Idle
  <2>2. "by" \in DOMAIN round' /\ round'.by = t
    BY <2>1
  <2>3. CASE DrainAll
    <3>1. Wants(t)'
      BY <1>1, <2>1, <2>3 DEF DrainAll, Wants
    <3> QED BY <2>1, <2>2, <2>3, <3>1 DEF DrainAll, SignalInv, Shape, Holder, Waiting, Served
  <2>4. CASE signalled' = TRUE /\ messages' = messages + 1 /\ UNCHANGED worker
    <3>1. Wants(t)'
      BY <1>1, <2>1, <2>4 DEF Wants
    <3>2. messages' \in Nat /\ messages' > 0
      BY <2>4 DEF SignalInv, Shape
    <3> QED BY <2>1, <2>2, <2>4, <3>1, <3>2 DEF SignalInv, Shape, Holder, Waiting, Served, WillDrain
  <2>5. ASSUME NEW i \in Verifiers, worker[i].at = "signal", signalled' = TRUE,
               worker' = [worker EXCEPT ![i] = At("importing")], UNCHANGED messages
        PROVE  SignalInv'
    <3>1. DOMAIN worker' = Verifiers /\ worker'[i].at = "importing"
      BY <2>5 DEF SignalInv, Shape, At
    <3>2. i # t
      BY <1>1, <2>5, Threads DEF Wants
    <3>3. Wants(t)'
      BY <1>1, <2>1, <2>5, <3>2, Threads DEF Wants, SignalInv, Shape, Importers
    <3>4. i \in Importers /\ Wants(i)'
      BY <3>1, Threads DEF Wants, Importers
    <3> QED BY <2>1, <2>2, <2>5, <3>1, <3>2, <3>3, <3>4
            DEF SignalInv, Shape, Holder, Waiting, Served, WillDrain
  <2> QED BY <2>1, <2>3, <2>4, <2>5, Zenon DEF Drain
<1> QED BY <1>2, <1>3

(***************************************************************************)
(* The end of a round gives back a lock nobody who will drain had.         *)
(***************************************************************************)
LEMMA MarkGoodKeepsSignal == ASSUME SignalInv, MarkGood PROVE SignalInv'
<1> DEFINE t == round.by
<1>1. /\ t \in Importers /\ Wants(t) /\ Return(t)
      /\ round' = Idle
      /\ UNCHANGED <<verified, active, closing, signalled, messages>>
  BY DEF MarkGood, SignalInv, Shape, Holder, queues, pool, signals
<1>2. /\ DOMAIN worker' = Verifiers
      /\ \A u \in Importers : u # t /\ Wants(u) => Wants(u)'
      /\ \A i \in Verifiers : worker[i].at = "signal" => worker'[i].at = "signal"
  BY <1>1, ReturnKeepsOthers
<1>3. "by" \in DOMAIN round' /\ round'.by = Nobody
  BY <1>1 DEF Idle
<1>4. Shape' /\ Holder'
  BY <1>1, <1>2, <1>3, Threads DEF SignalInv, Shape, Holder
<1>5. Waiting'
  BY <1>1, <1>2 DEF SignalInv, Waiting
<1>6. Served'
  BY <1>1, <1>2, <1>3, Threads DEF SignalInv, Served, WillDrain
<1> QED BY <1>4, <1>5, <1>6 DEF SignalInv

(***************************************************************************)
(* The io thread is about to drain once it has taken the message.          *)
(***************************************************************************)
LEMMA MessageKeepsSignal == ASSUME SignalInv, Message PROVE SignalInv'
<1>1. /\ io = "idle" /\ io' = "importing" /\ messages > 0 /\ messages' = messages - 1
      /\ UNCHANGED <<verified, active, closing, signalled, worker, flusher, round>>
  BY DEF Message, queues, pool
<1>2. \A u \in Importers : Wants(u) => Wants(u)'
  BY <1>1 DEF Wants
<1>3. IoThread \in Importers /\ Wants(IoThread)' /\ round.by # IoThread
  <2>1. IoThread \in Importers /\ Wants(IoThread)' /\ ~Wants(IoThread)
    BY <1>1, Threads DEF Wants, Importers
  <2> QED BY <2>1 DEF SignalInv, Holder
<1>4. Shape' /\ Holder' /\ Waiting'
  BY <1>1, <1>2 DEF SignalInv, Shape, Holder, Waiting
<1>5. Served'
  BY <1>1, <1>3 DEF Served, WillDrain
<1> QED BY <1>4, <1>5 DEF SignalInv

(***************************************************************************)
(* Every step keeps the invariant.                                         *)
(***************************************************************************)
LEMMA SignalStep == SignalInv /\ [Next]_vars => SignalInv'
<1> SUFFICES ASSUME SignalInv, [Next]_vars PROVE SignalInv'
  OBVIOUS
<1>w. ASSUME NEW x, NEW y, Wake(x, y), x \notin {"importing", "signal"}, y \notin {"importing", "signal"}
      PROVE  /\ DOMAIN worker' = Verifiers
             /\ \A i \in Verifiers : /\ worker'[i].at = "importing" <=> worker[i].at = "importing"
                                     /\ worker'[i].at = "signal" <=> worker[i].at = "signal"
  BY <1>w DEF Wake, At
<1> USE DEF queues, pool, signals, Keep
<1>0. CASE UNCHANGED vars
  BY <1>0, OthersKeepSignal DEF vars, queueVars, SignalInv, Shape
<1>1. CASE \E b \in Blocks : ImportBlock(b)
  BY <1>1, OthersKeepSignal DEF ImportBlock, SignalInv, Shape
<1>2. CASE Send
  <2>1. CASE Push
    BY <1>2, <2>1, <1>w, OthersKeepSignal DEF Push, Send, SignalInv, Shape
  <2>2. CASE Refused \/ Created \/ Register \/ CreateFails
    BY <1>2, <2>2, OthersKeepSignal
       DEF Refused, Created, Register, CreateFails, Send, SignalInv, Shape
  <2> QED BY <1>2, <2>1, <2>2 DEF Send, SenderStep
<1>3. CASE \E i \in Verifiers : Verify(i)
  BY <1>3, VerifyKeepsSignal
<1>4. CASE \E t \in Importers : Begin(t)
  BY <1>4, BeginKeepsSignal
<1>5. CASE Enact
  BY <1>5, OthersKeepSignal, Zenon DEF Enact, EnactOk, EnactFails, queueVars, SignalInv, Shape
<1>6. CASE MarkBad
  <2>1. verified' # << >> => verified # << >>
    BY <1>6, Zenon DEF MarkBad, MarkAsBad, Sift
  <2> QED BY <1>6, <2>1, OthersKeepSignal DEF MarkBad, SignalInv, Shape
<1>7. CASE MarkGood
  BY <1>7, MarkGoodKeepsSignal
<1>8. CASE Message
  BY <1>8, MessageKeepsSignal
<1>9. CASE FlushQueue \/ FlushLoop \/ (Flush /\ Keep)
  BY <1>9, OthersKeepSignal DEF FlushQueue, FlushLoop, Flush, SignalInv, Shape
<1>10. CASE ScaleVerifiers /\ Keep
  <2>1. active' \in Nat
    BY <1>10 DEF ScaleVerifiers, Clipped, SignalInv, Shape
  <2> QED BY <1>10, <2>1, <1>w, OthersKeepSignal DEF ScaleVerifiers, SignalInv, Shape
<1>11. CASE DropClears /\ io = "idle" /\ Keep
  BY <1>11, OthersKeepSignal DEF DropClears, Clear, SignalInv, Shape
<1>12. CASE DropStep /\ Keep
  BY <1>12, <1>w, OthersKeepSignal DEF DropStep, DropStops, DropNotifies, SignalInv, Shape
<1> QED BY <1>0, <1>1, <1>2, <1>3, <1>4, <1>5, <1>6, <1>7, <1>8, <1>9, <1>10, <1>11, <1>12
        DEF Next, ImporterStep

(***************************************************************************)
(* QueueSignal loses no block: verified blocks always have a signal, and a *)
(* signal always has a thread or a message that will drain them.           *)
(***************************************************************************)
THEOREM SignalTheorem == Spec => []SignalNotLost
<1>1. SignalInv => SignalNotLost
  BY DEF SignalInv, Waiting, Served, SignalNotLost
<1> QED BY <1>1, SignalInit, SignalStep, PTL DEF Spec

-----------------------------------------------------------------------------
(***************************************************************************)
(* The wake-ups.  Between the first and the second notification of drop    *)
(* the state is Exit, so no verifier starts to wait any more.              *)
(***************************************************************************)
WakeInv ==
    /\ DOMAIN worker = Verifiers
    /\ active \in Nat
    /\ closing \in {"exit", "joining"} <=> active = 0
    /\ NoLostWakeup

(***************************************************************************)
(* All verifiers start awake.                                              *)
(***************************************************************************)
LEMMA WakeInit == Init => WakeInv
BY DEF Init, QueueInit, WakeInv, NoLostWakeup, At

(***************************************************************************)
(* A step that moves one verifier; if it goes to wait or to sleep, it had  *)
(* reason to.                                                              *)
(***************************************************************************)
LEMMA OneMoves ==
    ASSUME WakeInv, NEW i \in Verifiers, NEW s, NEW blk,
           worker' = [worker EXCEPT ![i] = [at |-> s, block |-> blk]],
           s = "waiting" => unverified = << >> /\ active # 0,
           s = "asleep" => active # 0 /\ i >= active,
           unverified = << >> => unverified' = << >>,
           UNCHANGED <<active, closing>>
    PROVE  WakeInv'
<1>1. \A j \in Verifiers : worker'[j] = IF j = i THEN [at |-> s, block |-> blk] ELSE worker[j]
  BY DEF WakeInv
<1> QED BY <1>1 DEF WakeInv, NoLostWakeup

(***************************************************************************)
(* A step that leaves the verifiers alone and adds no work.                *)
(***************************************************************************)
LEMMA NobodyMoves ==
    ASSUME WakeInv, UNCHANGED <<worker, active, closing>>, unverified = << >> => unverified' = << >>
    PROVE  WakeInv'
BY DEF WakeInv, NoLostWakeup

(***************************************************************************)
(* Every step keeps the invariant.                                         *)
(***************************************************************************)
LEMMA WakeStep == WakeInv /\ [Next]_vars => WakeInv'
<1> SUFFICES ASSUME WakeInv, [Next]_vars PROVE WakeInv'
  OBVIOUS
<1> USE DEF queues, pool, signals, Keep
<1>0. CASE UNCHANGED vars
  BY <1>0, NobodyMoves DEF vars, queueVars
<1>1. CASE \E b \in Blocks : ImportBlock(b)
  BY <1>1, NobodyMoves DEF ImportBlock
<1>2. CASE Send
  <2>1. CASE Push
    <3>1. UNCHANGED <<active, closing>>
      BY <2>1 DEF Push
    <3>2. DOMAIN worker' = Verifiers /\ \A i \in Verifiers : worker'[i].at # "waiting"
      BY <2>1 DEF Push, Wake, At
    <3>3. \A i \in Verifiers : worker'[i].at = "asleep" => worker[i].at = "asleep"
      BY <2>1 DEF Push, Wake, At
    <3> QED BY <3>1, <3>2, <3>3 DEF WakeInv, NoLostWakeup
  <2>2. CASE Refused \/ Created \/ Register \/ CreateFails
    BY <1>2, <2>2, NobodyMoves DEF Refused, Created, Register, CreateFails, Send
  <2> QED BY <1>2, <2>1, <2>2 DEF Send, SenderStep
<1>3. ASSUME NEW i \in Verifiers, Verify(i) PROVE WakeInv'
  <2> USE DEF At
  <2>1. CASE CheckState(i)
    <3>1. i \in Nat /\ active \in Nat
      BY Threads DEF WakeInv
    <3>2. PICK s \in {"exited", "enter", "asleep"} :
            worker' = [worker EXCEPT ![i] = At(s)] /\ (s = "asleep" => active # 0 /\ ~(i < active))
      BY <2>1, Zenon DEF CheckState
    <3>3. UNCHANGED <<unverified, active, closing>>
      BY <2>1 DEF CheckState
    <3>4. s # "waiting" /\ (s = "asleep" => active # 0 /\ i >= active)
      BY <3>1, <3>2
    <3> QED BY <3>2, <3>3, <3>4, OneMoves, Zenon
  <2>2. CASE Enter(i) \/ Woken(i)
    BY <2>2, OneMoves, Zenon DEF Enter, Woken, WaitForWork
  <2>3. CASE Take(i)
    BY <2>3, OneMoves, Zenon DEF Take
  <2>4. CASE VerifiedOk(i)
    <3>1. /\ \/ worker' = [worker EXCEPT ![i] = At("signal")]
             \/ worker' = [worker EXCEPT ![i] = At("check")]
          /\ UNCHANGED <<unverified, active, closing>>
      BY <2>4, Zenon DEF VerifiedOk
    <3> QED BY <3>1, OneMoves, Zenon
  <2>5. CASE VerifiedBad(i)
    BY <2>5, OneMoves DEF VerifiedBad
  <2>6. CASE SetSync(i)
    BY <2>6, OneMoves, Zenon DEF SetSync
  <2> QED BY <1>3, <2>1, <2>2, <2>3, <2>4, <2>5, <2>6 DEF Verify, VerifierStep
<1>r. ASSUME NEW t, Return(t), UNCHANGED <<unverified, active, closing>> PROVE WakeInv'
  BY <1>r, OneMoves, NobodyMoves, Zenon DEF Return, At
<1>4. ASSUME NEW t \in Importers, Begin(t) PROVE WakeInv'
  <2>1. CASE verified = << >>
    BY <1>4, <2>1, <1>r DEF Begin
  <2>2. CASE verified # << >>
    BY <1>4, <2>2, OneMoves, NobodyMoves, Zenon DEF Begin, Drain, DrainAll, At
  <2> QED BY <2>1, <2>2
<1>5. CASE Enact \/ MarkBad \/ Message
  BY <1>5, NobodyMoves DEF Enact, EnactOk, EnactFails, MarkBad, Message, queueVars
<1>6. CASE MarkGood
  BY <1>6, <1>r DEF MarkGood
<1>7. CASE FlushQueue \/ FlushLoop \/ (Flush /\ Keep)
  BY <1>7, NobodyMoves DEF FlushQueue, FlushLoop, Flush
<1>8. CASE ScaleVerifiers /\ Keep
  <2>1. active' \in Nat \ {0} /\ UNCHANGED <<unverified, closing>>
    BY <1>8 DEF ScaleVerifiers, Clipped, WakeInv
  <2>2. /\ DOMAIN worker' = Verifiers
        /\ \A i \in Verifiers : /\ worker'[i].at # "asleep"
                                /\ worker'[i].at = "waiting" => worker[i].at = "waiting"
    BY <1>8 DEF ScaleVerifiers, Wake, At
  <2>3. closing = "no"
    BY <1>8 DEF ScaleVerifiers
  <2> QED BY <2>1, <2>2, <2>3 DEF WakeInv, NoLostWakeup
<1>9. CASE DropClears /\ io = "idle" /\ Keep
  <2>1. /\ closing = "no" /\ closing' = "deleting" /\ unverified' = << >>
        /\ UNCHANGED <<active, worker>>
    BY <1>9 DEF DropClears, Clear
  <2> QED BY <2>1 DEF WakeInv, NoLostWakeup
<1>10. CASE DropStops
  <2>1. active' = 0 /\ closing' = "exit" /\ UNCHANGED unverified
    BY <1>10 DEF DropStops
  <2>2. /\ DOMAIN worker' = Verifiers
        /\ \A i \in Verifiers : /\ worker'[i].at # "asleep"
                                /\ worker'[i].at = "waiting" => worker[i].at = "waiting"
    BY <1>10 DEF DropStops, Wake, At
  <2> QED BY <2>1, <2>2 DEF WakeInv, NoLostWakeup
<1>11. CASE DropNotifies
  <2>1. closing = "exit" /\ closing' = "joining" /\ UNCHANGED <<unverified, active>>
    BY <1>11 DEF DropNotifies
  <2>2. /\ DOMAIN worker' = Verifiers
        /\ \A i \in Verifiers : /\ worker'[i].at # "waiting"
                                /\ worker'[i].at = "asleep" => worker[i].at = "asleep"
    BY <1>11 DEF DropNotifies, Wake, At
  <2> QED BY <2>1, <2>2 DEF WakeInv, NoLostWakeup
<1> QED BY <1>0, <1>1, <1>2, <1>3, <1>4, <1>5, <1>6, <1>7, <1>8, <1>9, <1>10, <1>11
        DEF Next, ImporterStep, DropStep

(***************************************************************************)
(* Neither condition variable of the queue loses a wake-up, up to and      *)
(* including the exit of the verifiers.                                    *)
(***************************************************************************)
THEOREM WakeupTheorem == Spec => []NoLostWakeup
<1>1. WakeInv => NoLostWakeup
  BY DEF WakeInv
<1> QED BY <1>1, WakeInit, WakeStep, PTL DEF Spec
=============================================================================
