---------------------------- MODULE WindowProofs ----------------------------
(***************************************************************************)
(* What is proved of EntitlementWindow, for every number of slots,         *)
(* reservations, flushes, events, top-ups, denials and faults, and every   *)
(* set of costs and times.                                                 *)
(*                                                                         *)
(* The proof reads every action in one of a few forms.  An event, an       *)
(* answer that ends an operation, or an alarm handles a row: it is spent   *)
(* from, and a capture may be sent (Handles).  Otherwise the wallet        *)
(* answers (Hears), an operation calls the wallet again (Calls), or the    *)
(* object is restarted (Restarts).  The first part shows that each action  *)
(* has its form, the rest uses the forms only.                             *)
(*                                                                         *)
(* Types hold in every behaviour.  The rest holds of a window that is      *)
(* calm: no alarm closes it and nobody asked for its deletion.  In a calm  *)
(* window any number of calls fail or lose their answer, or else, until    *)
(* one does, the object is evicted once.  Corrections are included where a *)
(* theorem does not say otherwise.                                         *)
(***************************************************************************)
EXTENDS EntitlementWindow, TLAPS

-----------------------------------------------------------------------------
(* The invariant.                                                          *)

\* What a task is: its command fits its kind, a command about a reservation names
\* one, and a create that went well names the reservation.
Shaped(k) ==
  /\ (k.kind = "none") = (k.call = "none")
  /\ k.kind = "none" => k.reply = "none"
  /\ (k.kind = "boot") = (k.call = "create")
  /\ k.call = "extend" => k.kind = "flush"
  /\ k.call = "release" => k.kind = "close"
  /\ k.kind = "close" => k.reason \in Reasons
  /\ k.call \in {"capture", "extend", "release"} => k.snap.res \in Reservations /\ k.seq \in Seqs
  /\ (k.call = "create" /\ k.reply \in {"ok", "reused"}) => k.value \in Reservations
TasksAreShaped == \A t \in Slots : Shaped(task[t])

\* The wallet captures no more than a reservation was given, a released one is over,
\* and the environment spends its bounds.
WalletIsSound ==
  /\ \A r \in Reservations : rsv[r].captured <= rsv[r].alloc
  /\ \A p \in releases : rsv[p[1]].status = "reconciled"
LeftIsBounded ==
  left.crashes <= MaxCrashes /\ left.deletions <= MaxDeletions /\ left.faults <= MaxFaults

TypeInv == TypeOK /\ TasksAreShaped /\ WalletIsSound /\ LeftIsBounded

-----------------------------------------------------------------------------
(* What an event, a flush or a close does with a row x: x changes to y in  *)
(* what is consumed, and either that is all, or a capture is sent.         *)

\* Rows that differ in what is consumed, or in what is pending and in flight.
SameBesides(x, y) ==
  /\ y.res = x.res /\ y.alloc = x.alloc /\ y.flushed = x.flushed
  /\ y.seq = x.seq /\ y.deleting = x.deleting /\ y.recovery = x.recovery

CostsAreNat == Costs \subseteq Nat
Spends(x, y) ==
  /\ SameBesides(x, y) /\ y.pend = x.pend /\ y.inFlight = x.inFlight
  /\ y.consumed <= x.consumed \/ y.consumed <= x.alloc \/ y.consumed <= x.flushed
  /\ CostsAreNat => y.consumed >= x.consumed /\ spent' >= spent
  /\ spent' \in Int /\ spent' >= spent + (y.consumed - x.consumed)

\* The same number is sent again as it is pending, or the next with all that is
\* unflushed; over a number that is pending only a flush with no refill is planned so,
\* unless what is pending is final.
Sends(y, z, k, recover) ==
  /\ Open(y) /\ SameBesides(y, z) /\ z.consumed = y.consumed /\ z.inFlight
  /\ \/ /\ y.seq < MaxSeq /\ z.pend.seq = y.seq + 1 /\ z.pend.amount = Unflushed(y) /\ ~k.recovering
        /\ SeqPending(y) => y.recovery \/ y.pend.final \/ (z.pend.refill = 0 /\ ~z.pend.final)
     \/ /\ SeqPending(y) /\ z.pend.seq = y.pend.seq /\ z.pend.amount = y.pend.amount
        /\ z.pend.final = y.pend.final /\ (z.pend.final => recover)
        /\ ~z.pend.final => z.pend.refill = y.pend.refill
  /\ k.call = "capture" /\ k.reply = "none" /\ k.value = 0 /\ k.snap = z
  /\ k.seq = z.pend.seq /\ k.amount = z.pend.amount
  /\ k.kind = IF z.pend.final THEN "close" ELSE "flush"
  /\ k.kind = "close" => k.reason \in Reasons
  /\ k.kind = "flush" => k.refill = z.pend.refill
  /\ ~recover => ~y.inFlight /\ ~k.recovering /\ k.reason # "deletion_requested"

Turns(t, y, z, k, recover) ==
  /\ w' = z /\ task' = [task EXCEPT ![t] = k]
  /\ (z = y /\ k = NoTask) \/ Sends(y, z, k, recover)

Handles(t, x, recover) ==
  \E y \in Row, z \in Row, k \in Task : Spends(x, y) /\ Turns(t, y, z, k, recover)

LEMMA EmptyTypes == EmptyRow \in Row /\ NoTask \in Task /\ NoTask.kind = "none" /\ Shaped(NoTask)
<1>1. EmptyRow \in Row
  BY BoundsAssumption DEF EmptyRow, NoFlush, NoReservation, Row, Flush
<1>2. NoTask \in Task
  BY <1>1, BoundsAssumption DEF NoTask, Task
<1> QED
  BY <1>1, <1>2 DEF NoTask, Shaped

LEMMA FlushTaskTypes ==
  ASSUME NEW x \in Row, NEW at \in Times \cup {0}, NEW cost \in Costs \cup {0}
  PROVE  LET k == FlushTask(x, at, cost)
         IN  /\ k \in Task /\ k.kind = "flush" /\ k.call = "capture" /\ k.reply = "none"
             /\ k.value = 0 /\ k.snap = x /\ k.seq = x.pend.seq /\ k.amount = x.pend.amount
             /\ k.refill = x.pend.refill /\ k.recovering = FALSE /\ k.reason = "none"
  BY EmptyTypes DEF FlushTask, NoTask, Task, Row, Flush

LEMMA CloseTaskTypes ==
  ASSUME NEW x \in Row, NEW reason \in Reasons, NEW recovering \in BOOLEAN
  PROVE  LET k == CloseTask(x, reason, recovering)
         IN  /\ k \in Task /\ k.kind = "close" /\ k.call = "capture" /\ k.reply = "none"
             /\ k.value = 0 /\ k.snap = x /\ k.seq = x.pend.seq /\ k.amount = x.pend.amount
             /\ k.recovering = recovering /\ k.reason = reason
  BY EmptyTypes DEF CloseTask, NoTask, Task, Row, Flush

LEMMA RowTypes ==
  ASSUME NEW x \in Row
  PROVE  /\ x.row \in BOOLEAN /\ x.res \in 0 .. MaxReservations /\ x.alloc \in Nat
         /\ x.consumed \in Nat /\ x.flushed \in Nat /\ x.seq \in 0 .. MaxSeq
         /\ x.pend \in Flush /\ x.inFlight \in BOOLEAN /\ x.recovery \in BOOLEAN
         /\ x.deleting \in BOOLEAN /\ x.pend.seq \in 0 .. MaxSeq /\ x.pend.amount \in Nat
         /\ x.pend.refill \in 0 .. MaxOutstanding /\ x.pend.final \in BOOLEAN
         /\ Unflushed(x) \in Nat /\ Remaining(x) \in Nat
  BY DEF Row, Flush, Unflushed, Remaining, Greatest

\* A flush of all that is unflushed under the next number.
LEMMA FlushNowTurns ==
  ASSUME NEW t \in Slots, NEW x \in Row, NEW refill \in 0 .. MaxOutstanding,
         NEW at \in Times \cup {0}, NEW cost \in Costs \cup {0}, Open(x), ~x.inFlight,
         FlushNow(t, x, refill, at, cost), SeqPending(x) => x.pend.final \/ refill = 0
  PROVE  \E z \in Row, k \in Task : Turns(t, x, z, k, FALSE)
<1> DEFINE z == WithIntent(x, x.seq + 1, Unflushed(x), refill, FALSE)
<1> DEFINE k == FlushTask(z, at, cost)
<1>1. w' = z /\ task' = [task EXCEPT ![t] = k] /\ x.seq < MaxSeq
  BY DEF FlushNow, Start
<1>2. x.seq + 1 \in 0 .. MaxSeq /\ Unflushed(x) \in Nat
  BY <1>1, RowTypes, BoundsAssumption
<1>3. /\ z \in Row /\ SameBesides(x, z) /\ z.consumed = x.consumed /\ z.inFlight
      /\ z.pend.seq = x.seq + 1 /\ z.pend.amount = Unflushed(x) /\ z.pend.final = FALSE
      /\ z.pend.refill = refill
  <2>1. PICK q \in 0 .. MaxSeq, a \in Nat : q = x.seq + 1 /\ a = Unflushed(x)
    BY <1>2
  <2>2. z = WithIntent(x, q, a, refill, FALSE)
    BY <2>1
  <2> HIDE DEF z
  <2>3. z = [x EXCEPT !.inFlight = TRUE,
                      !.pend = [seq |-> q, amount |-> a, refill |-> refill, final |-> FALSE]]
    BY <2>2 DEF WithIntent
  <2> QED
    BY <2>1, <2>3 DEF Row, Flush, SameBesides
<1> HIDE DEF z
<1>4. /\ k \in Task /\ k.kind = "flush" /\ k.call = "capture" /\ k.reply = "none"
      /\ k.value = 0 /\ k.snap = z /\ k.seq = z.pend.seq /\ k.amount = z.pend.amount
      /\ k.refill = z.pend.refill /\ k.recovering = FALSE /\ k.reason = "none"
  <2>1. z \in Row
    BY <1>3
  <2> QED
    BY <2>1, FlushTaskTypes
<1> HIDE DEF k
<1>5. Sends(x, z, k, FALSE)
  BY <1>1, <1>3, <1>4 DEF Sends
<1> QED
  BY <1>1, <1>3, <1>4, <1>5 DEF Turns

\* A close, of what is unflushed or of a final flush that is pending already.
LEMMA StartCloseTurns ==
  ASSUME NEW t \in Slots, NEW x \in Row, NEW reason \in Reasons, NEW recover \in BOOLEAN,
         StartClose(t, x, reason, recover), recover \/ reason # "deletion_requested"
  PROVE  \E z \in Row, k \in Task : Turns(t, x, z, k, recover)
<1>1. CASE ~MayClose(x, reason, recover)
  BY <1>1, EmptyTypes DEF StartClose, Turns, Finish, Start
<1>2. CASE MayClose(x, reason, recover)
  <2> DEFINE again == RecoveringFinal(x, recover)
  <2> DEFINE z == IF again THEN WithIntent(x, x.pend.seq, x.pend.amount, 0, TRUE)
                  ELSE WithIntent(x, x.seq + 1, Unflushed(x), 0, TRUE)
  <2> DEFINE k == CloseTask(z, reason, again)
  <2>1. w' = z /\ task' = [task EXCEPT ![t] = k] /\ x.seq < MaxSeq
    BY <1>2 DEF StartClose, Start
  <2>2. Open(x) /\ (HasPendingFlush(x) => again)
    BY <1>2 DEF MayClose
  <2>3. again \in BOOLEAN /\ (again => recover /\ x.pend.final /\ SeqPending(x))
    BY RowTypes DEF RecoveringFinal, SeqPending
  <2> HIDE DEF again
  <2>4. 0 \in 0 .. MaxOutstanding /\ x.seq + 1 \in 0 .. MaxSeq
    BY <2>1, RowTypes, BoundsAssumption
  <2>5. /\ z \in Row /\ SameBesides(x, z) /\ z.consumed = x.consumed /\ z.inFlight
        /\ z.pend.seq = IF again THEN x.pend.seq ELSE x.seq + 1
        /\ z.pend.amount = IF again THEN x.pend.amount ELSE Unflushed(x)
        /\ z.pend.final = TRUE
    <3>1. PICK q \in 0 .. MaxSeq, a \in Nat :
            /\ q = IF again THEN x.pend.seq ELSE x.seq + 1
            /\ a = IF again THEN x.pend.amount ELSE Unflushed(x)
      BY <2>4, <2>3, RowTypes
    <3>2. z = WithIntent(x, q, a, 0, TRUE)
      BY <3>1, <2>3
    <3> QED
      BY <3>1, <3>2, <2>4 DEF WithIntent, Row, Flush, SameBesides
  <2> HIDE DEF z
  <2>6. /\ k \in Task /\ k.kind = "close" /\ k.call = "capture" /\ k.reply = "none"
        /\ k.value = 0 /\ k.snap = z /\ k.seq = z.pend.seq /\ k.amount = z.pend.amount
        /\ k.recovering = again /\ k.reason = reason
    BY <2>5, <2>3, CloseTaskTypes
  <2> HIDE DEF k
  <2>7. Sends(x, z, k, recover)
    BY <2>1, <2>2, <2>3, <2>5, <2>6, RowTypes DEF Sends, HasPendingFlush
  <2> QED
    BY <2>1, <2>5, <2>6, <2>7 DEF Turns
<1> QED
  BY <1>1, <1>2

LEMMA SpendTypes ==
  ASSUME NEW x \in Row, NEW cost \in Costs \cup {0}
  PROVE  LET eff == EffectiveCost(x, cost)
             y == Spend(x, eff)
         IN  /\ eff \in Int /\ y \in Row /\ SameBesides(x, y)
             /\ y.pend = x.pend /\ y.inFlight = x.inFlight /\ y.consumed = x.consumed + eff
             /\ eff >= 0 \/ x.consumed + eff <= x.consumed
             /\ (cost < 0) => (x.consumed + eff <= x.consumed \/ x.consumed + eff <= x.flushed)
             /\ CostsAreNat => eff >= 0
<1> DEFINE eff == EffectiveCost(x, cost)
<1>1. cost \in Int /\ x.consumed \in Nat /\ x.flushed \in Nat
  <2>1. cost \in Int
    BY BoundsAssumption
  <2> QED
    BY <2>1, RowTypes
<1>2. eff \in Int /\ x.consumed + eff \in Nat
  BY <1>1 DEF EffectiveCost, Greatest
<1>3. (cost < 0) => (x.consumed + eff <= x.consumed \/ x.consumed + eff <= x.flushed)
  BY <1>1 DEF EffectiveCost, Greatest
<1>4. CostsAreNat => eff >= 0
  BY <1>1 DEF EffectiveCost, CostsAreNat
<1> HIDE DEF eff
<1>5. /\ Spend(x, eff) \in Row /\ SameBesides(x, Spend(x, eff))
      /\ Spend(x, eff).pend = x.pend /\ Spend(x, eff).inFlight = x.inFlight
      /\ Spend(x, eff).consumed = x.consumed + eff
  BY <1>2 DEF Spend, Row, SameBesides
<1> QED
  BY <1>1, <1>2, <1>3, <1>4, <1>5 DEF eff

LEMMA SameIsSpent ==
  ASSUME NEW x \in Row, spent \in Int, spent' \in Int, spent' >= spent
  PROVE  Spends(x, x)
  BY RowTypes DEF Spends, SameBesides

LEMMA AcceptUnreservedHandles ==
  ASSUME NEW t \in Slots, NEW x \in Row, NEW cost \in Costs \cup {0}, spent \in Int,
         AcceptUnreserved(t, x, cost)
  PROVE  Handles(t, x, FALSE)
<1>1. spent' \in Int /\ spent' >= spent
  BY BoundsAssumption DEF AcceptUnreserved, Greatest
<1>2. Turns(t, x, x, NoTask, FALSE)
  BY DEF AcceptUnreserved, Turns, Finish, Start
<1> QED
  BY <1>1, <1>2, SameIsSpent, EmptyTypes DEF Handles

LEMMA AcceptFundedHandles ==
  ASSUME NEW t \in Slots, NEW x \in Row, NEW cost \in Costs \cup {0}, NEW at \in Times \cup {0},
         spent \in Int, AcceptFunded(t, x, cost, at)
  PROVE  Handles(t, x, FALSE)
<1> DEFINE eff == EffectiveCost(x, cost)
<1> DEFINE y == Spend(x, eff)
<1> DEFINE retry == SeqPending(y) /\ ~y.pend.final
<1>1. /\ eff \in Int /\ y \in Row /\ SameBesides(x, y)
      /\ y.pend = x.pend /\ y.inFlight = x.inFlight /\ y.consumed = x.consumed + eff
      /\ eff >= 0 \/ x.consumed + eff <= x.consumed
      /\ (cost < 0) => (x.consumed + eff <= x.consumed \/ x.consumed + eff <= x.flushed)
      /\ CostsAreNat => eff >= 0
  BY SpendTypes
<1>2. Open(x) /\ eff <= Remaining(x) /\ spent' = spent + eff
  BY DEF AcceptFunded
<1>3. \/ w' = y /\ Finish(t)
      \/ /\ ~y.inFlight /\ retry
         /\ LET z == WithIntent(y, y.pend.seq, y.pend.amount, y.pend.refill, FALSE)
            IN  w' = z /\ Start(t, FlushTask(z, at, 0))
      \/ /\ ~y.inFlight
         /\ ~retry /\ \E refill \in Refills(y) : FlushNow(t, y, refill, at, 0)
  BY DEF AcceptFunded
<1> HIDE DEF y, eff
<1>4. Spends(x, y)
  <2>1. y.consumed <= x.consumed \/ y.consumed <= x.alloc \/ y.consumed <= x.flushed
    BY <1>1, <1>2, RowTypes DEF Remaining, Greatest
  <2> QED
    BY <1>1, <1>2, <2>1, RowTypes DEF Spends
<1>5. Open(y)
  BY <1>1, <1>2 DEF Open, SameBesides
<1>6. \E z \in Row, k \in Task : Turns(t, y, z, k, FALSE)
  <2>1. CASE w' = y /\ Finish(t)
    BY <2>1, <1>1, EmptyTypes DEF Turns, Finish, Start
  <2>2. CASE /\ ~y.inFlight /\ retry
             /\ LET z == WithIntent(y, y.pend.seq, y.pend.amount, y.pend.refill, FALSE)
                IN  w' = z /\ Start(t, FlushTask(z, at, 0))
    <3> DEFINE z == WithIntent(y, y.pend.seq, y.pend.amount, y.pend.refill, FALSE)
    <3> DEFINE k == FlushTask(z, at, 0)
    <3>1. w' = z /\ task' = [task EXCEPT ![t] = k]
      BY <2>2 DEF Start
    <3>2. /\ z \in Row /\ SameBesides(y, z) /\ z.consumed = y.consumed /\ z.inFlight
          /\ z.pend.seq = y.pend.seq /\ z.pend.amount = y.pend.amount /\ z.pend.final = FALSE
          /\ z.pend.refill = y.pend.refill
      BY <1>1, RowTypes DEF WithIntent, Row, Flush, SameBesides
    <3> HIDE DEF z
    <3>3. /\ k \in Task /\ k.kind = "flush" /\ k.call = "capture" /\ k.reply = "none"
          /\ k.value = 0 /\ k.snap = z /\ k.seq = z.pend.seq /\ k.amount = z.pend.amount
          /\ k.refill = z.pend.refill /\ k.recovering = FALSE /\ k.reason = "none"
      BY <3>2, RowTypes, EmptyTypes DEF FlushTask, NoTask, Task
    <3> HIDE DEF k
    <3>4. Sends(y, z, k, FALSE)
      BY <1>5, <2>2, <3>2, <3>3, <1>1, RowTypes DEF Sends
    <3> QED
      BY <3>1, <3>2, <3>3, <3>4 DEF Turns
  <2>3. CASE /\ ~y.inFlight
             /\ ~retry /\ \E refill \in Refills(y) : FlushNow(t, y, refill, at, 0)
    <3>1. PICK refill \in Refills(y) : FlushNow(t, y, refill, at, 0)
      BY <2>3
    <3>2. refill \in 0 .. MaxOutstanding
      BY <1>1, RowTypes, BoundsAssumption DEF Refills
    <3> QED
      BY <3>1, <3>2, <2>3, <1>1, <1>5, FlushNowTurns
  <2> QED
    BY <1>3, <2>1, <2>2, <2>3
<1> QED
  BY <1>1, <1>4, <1>6 DEF Handles

LEMMA GrowFirstHandles ==
  ASSUME NEW t \in Slots, NEW x \in Row, NEW cost \in Costs \cup {0}, NEW at \in Times \cup {0},
         spent \in Int, GrowFirst(t, x, cost, at)
  PROVE  Handles(t, x, FALSE)
<1>1. PICK refill \in Refills(x) : FlushNow(t, x, refill, at, cost)
  BY DEF GrowFirst
<1>2. Open(x) /\ ~x.inFlight /\ ~SeqPending(x) /\ spent' = spent
  BY DEF GrowFirst, MayGrow
<1>3. refill \in 0 .. MaxOutstanding
  BY RowTypes, BoundsAssumption DEF Refills
<1>4. \E z \in Row, k \in Task : Turns(t, x, z, k, FALSE)
  BY <1>1, <1>2, <1>3, FlushNowTurns
<1>5. Spends(x, x)
  BY <1>2, SameIsSpent
<1> QED
  BY <1>4, <1>5 DEF Handles

LEMMA CloseHandles ==
  ASSUME NEW t \in Slots, NEW x \in Row, NEW reason \in Reasons, NEW recover \in BOOLEAN,
         StartClose(t, x, reason, recover), recover \/ reason # "deletion_requested",
         spent \in Int, spent' = spent
  PROVE  Handles(t, x, recover)
<1>1. \E z \in Row, k \in Task : Turns(t, x, z, k, recover)
  BY StartCloseTurns
<1> QED
  BY <1>1, SameIsSpent DEF Handles

LEMMA CommitHandles ==
  ASSUME NEW t \in Slots, NEW x \in Row, NEW cost \in Costs \cup {0}, NEW at \in Times \cup {0},
         spent \in Int, Commit(t, x, cost, at) \/ CommitAfterGrowth(t, x, cost, at)
  PROVE  Handles(t, x, FALSE)
<1>1. CASE DenyUnfunded(t, x, cost)
  <2>1. StartClose(t, x, "wallet_empty", FALSE) /\ spent' = spent
    BY <1>1 DEF DenyUnfunded
  <2>2. "wallet_empty" \in Reasons
    BY DEF Reasons
  <2> QED
    BY <2>1, <2>2, CloseHandles
<1> QED
  BY <1>1, AcceptUnreservedHandles, AcceptFundedHandles, GrowFirstHandles
  DEF Commit, CommitAfterGrowth

\* A flush is over: the row is left, or the waiting event handled.
LEMMA AfterFlushHandles ==
  ASSUME NEW t \in Slots, NEW x \in Row, TypeOK, AfterFlush(t, x)
  PROVE  Handles(t, x, FALSE)
<1>1. CASE task[t].cost = 0
  <2>1. Turns(t, x, x, NoTask, FALSE) /\ spent' = spent /\ spent \in Int
    BY <1>1 DEF AfterFlush, Turns, Finish, Start, TypeOK
  <2>2. Spends(x, x)
    BY <2>1, SameIsSpent
  <2> QED
    BY <2>1, <2>2, EmptyTypes DEF Handles
<1>2. CASE task[t].cost # 0
  <2>1. task[t].cost \in Costs \cup {0} /\ task[t].at \in Times \cup {0} /\ spent \in Int
    BY DEF TypeOK, Task
  <2>2. CommitAfterGrowth(t, x, task[t].cost, task[t].at)
    BY <1>2 DEF AfterFlush
  <2> QED
    BY <2>1, <2>2, CommitHandles
<1> QED
  BY <1>1, <1>2

-----------------------------------------------------------------------------
(* The forms a step can take.                                              *)

\* The bounds on the environment only shrink.
Shrinks ==
  /\ left' \in Bounds /\ left'.crashes <= left.crashes
  /\ left'.deletions <= left.deletions /\ left'.faults <= left.faults

\* Task t becomes k; nothing else is under way.
Becomes(t, k) == task' = [task EXCEPT ![t] = k]
\* The same operation, further on.
SameJob(j, k) ==
  /\ k.kind = j.kind /\ k.snap = j.snap /\ k.seq = j.seq /\ k.amount = j.amount
  /\ k.refill = j.refill /\ k.at = j.at /\ k.recovering = j.recovering /\ k.reason = j.reason

\* Slot t handles the row x; the wallet is not involved.
Resumes(t, x) == Handles(t, x, FALSE) /\ UNCHANGED walletVars

Arrives(t) == Idle(t) /\ Resumes(t, w)
Boots(t) ==
  /\ Idle(t) /\ ~Open(w) /\ \A u \in Slots : task[u].kind # "boot"
  /\ UNCHANGED <<walletVars, w, spent>>
  /\ \E k \in Task : Becomes(t, k) /\ k.kind = "boot" /\ k.call = "create" /\ k.reply = "none"

Hears(t, reply, value) ==
  /\ Waiting(t) /\ UNCHANGED <<w, spent>>
  /\ \E k \in Task : Becomes(t, k) /\ SameJob(task[t], k) /\ k.call = task[t].call
                     /\ k.reply = reply /\ k.value = value
Calls(t, call) ==
  /\ UNCHANGED <<walletVars, w, spent>>
  /\ \E k \in Task : Becomes(t, k) /\ SameJob(task[t], k) /\ k.call = call
                     /\ k.reply = "none" /\ k.value = 0

LEMMA AnswerHears ==
  ASSUME NEW t \in Slots, NEW reply \in Replies \cup {"failed"}, NEW value \in Values, TypeOK,
         Waiting(t), Answer(t, reply, value), UNCHANGED <<w, spent>>
  PROVE  Hears(t, reply, value)
<1>1. task \in [Slots -> Task] /\ value \in Nat
  BY BoundsAssumption DEF TypeOK, Values, Greatest
<1>2. task[t] \in Task
  BY <1>1
<1>3. PICK j \in Task : j = task[t]
  BY <1>2
<1> DEFINE k == [j EXCEPT !.reply = reply, !.value = value]
<1>4. k \in Task /\ k.reply = reply /\ k.value = value /\ k.call = j.call /\ SameJob(j, k)
  <2>1. reply \in {"none", "ok", "reused"} \cup Errors
    BY DEF Replies, Errors
  <2> QED
    BY <1>1, <2>1 DEF Task, SameJob
<1>5. task' = [task EXCEPT ![t] = k]
  BY <1>1, <1>3 DEF Answer
<1> HIDE DEF k
<1> QED
  BY <1>3, <1>4, <1>5 DEF Hears, Becomes

LEMMA CallNextCalls ==
  ASSUME NEW t \in Slots, NEW call \in {"extend", "release"}, TypeOK,
         CallNext(t, call), UNCHANGED <<walletVars, w, spent>>
  PROVE  Calls(t, call)
<1>1. task \in [Slots -> Task]
  BY DEF TypeOK
<1>2. task[t] \in Task
  BY <1>1
<1>3. PICK j \in Task : j = task[t]
  BY <1>2
<1> DEFINE k == [j EXCEPT !.call = call, !.reply = "none", !.value = 0]
<1>4. k \in Task /\ k.reply = "none" /\ k.value = 0 /\ k.call = call /\ SameJob(j, k)
  BY <1>3 DEF Task, SameJob
<1>5. task' = [task EXCEPT ![t] = k]
  BY <1>1, <1>3 DEF CallNext
<1> HIDE DEF k
<1> QED
  BY <1>3, <1>4, <1>5 DEF Calls, Becomes

LEMMA DeliverForms ==
  ASSUME NEW t \in Slots, NEW cost \in Costs, NEW at \in Times, TypeOK, Deliver(t, cost, at)
  PROVE  (Arrives(t) \/ Boots(t)) /\ Shrinks
<1>1. Shrinks
  <2>1. left' = [left EXCEPT !.events = @ - 1] /\ left.events > 0 /\ left \in Bounds
    BY DEF Deliver, TypeOK
  <2> QED
    BY <2>1 DEF Shrinks, Bounds
<1>2. Idle(t) /\ UNCHANGED walletVars
  BY DEF Deliver
<1>0. cost \in Costs \cup {0} /\ at \in Times \cup {0}
  OBVIOUS
<1>3. CASE Commit(t, w, cost, at)
  BY <1>1, <1>2, <1>3, <1>0, CommitHandles DEF Arrives, Resumes, TypeOK
<1>4. CASE /\ ~Open(w) /\ \A u \in Slots : task[u].kind # "boot"
           /\ \E request \in 1 .. MaxOutstanding :
                Start(t, [NoTask EXCEPT !.kind = "boot", !.call = "create",
                                        !.amount = request, !.cost = cost, !.at = at])
           /\ UNCHANGED <<w, spent>>
  <2>1. PICK request \in 1 .. MaxOutstanding :
          Start(t, [NoTask EXCEPT !.kind = "boot", !.call = "create",
                                  !.amount = request, !.cost = cost, !.at = at])
    BY <1>4
  <2> DEFINE k == [NoTask EXCEPT !.kind = "boot", !.call = "create",
                                 !.amount = request, !.cost = cost, !.at = at]
  <2>2. k \in Task /\ k.kind = "boot" /\ k.call = "create" /\ k.reply = "none"
    <3>1. PICK j \in Task : j = NoTask /\ j.reply = "none"
      BY EmptyTypes DEF NoTask
    <3>2. k = [j EXCEPT !.kind = "boot", !.call = "create",
                        !.amount = request, !.cost = cost, !.at = at]
      BY <3>1
    <3>3. request \in Nat /\ cost \in Costs \cup {0} /\ at \in Times \cup {0}
      BY BoundsAssumption
    <3> QED
      BY <3>1, <3>2, <3>3 DEF Task
  <2>3. Becomes(t, k)
    BY <2>1 DEF Start, Becomes
  <2> HIDE DEF k
  <2> QED
    BY <1>1, <1>2, <1>4, <2>2, <2>3 DEF Boots
<1> QED
  BY <1>3, <1>4 DEF Deliver

LEMMA DeniedForms ==
  ASSUME NEW t \in Slots, TypeOK, DeliverOverLimit(t)
  PROVE  Arrives(t) /\ Shrinks
<1>1. Shrinks
  BY DEF DeliverOverLimit, Shrinks, TypeOK, Bounds
<1>2. Idle(t) /\ UNCHANGED walletVars /\ StartClose(t, w, "limit_reached", FALSE)
      /\ "limit_reached" \in Reasons /\ w \in Row /\ spent \in Int /\ spent' = spent
  BY DEF DeliverOverLimit, Reasons, TypeOK
<1>3. Handles(t, w, FALSE)
  BY <1>2, CloseHandles
<1> QED
  BY <1>1, <1>2, <1>3 DEF Arrives, Resumes

LEMMA FlushForms ==
  ASSUME NEW t \in Slots, NEW at \in Times, TypeOK,
         AlarmFlushes(t, at) \/ FlushForInvoicing(t, at)
  PROVE  Arrives(t) /\ Shrinks
<1>1. Shrinks
  BY DEF AlarmFlushes, FlushForInvoicing, Shrinks, TypeOK, Bounds
<1>2. /\ Idle(t) /\ UNCHANGED walletVars /\ FlushNow(t, w, 0, at, 0)
      /\ Open(w) /\ ~w.inFlight /\ w \in Row /\ spent \in Int /\ spent' = spent
  BY DEF AlarmFlushes, FlushForInvoicing, TypeOK, HasPendingFlush
<1>3. PICK refill \in 0 .. MaxOutstanding, cost \in Costs \cup {0} : refill = 0 /\ cost = 0
  BY BoundsAssumption
<1>4. \E z \in Row, k \in Task : Turns(t, w, z, k, FALSE)
  <2>1. FlushNow(t, w, refill, at, cost)
    BY <1>2, <1>3
  <2> QED
    BY <1>2, <1>3, <2>1, FlushNowTurns
<1>5. Spends(w, w)
  BY <1>2, SameIsSpent
<1> QED
  BY <1>1, <1>2, <1>4, <1>5 DEF Arrives, Resumes, Handles

LEMMA AlarmCloseForms ==
  ASSUME NEW t \in Slots, NEW reason \in AlarmReasons \cup {"deletion_requested"}, TypeOK,
         AlarmCloses(t, reason)
  PROVE  /\ Handles(t, w, TRUE) /\ UNCHANGED walletVars /\ Shrinks
         /\ AlarmReasons # {} \/ w.deleting
<1>1. Shrinks
  BY DEF AlarmCloses, Shrinks, TypeOK, Bounds
<1>2. /\ UNCHANGED walletVars /\ StartClose(t, w, reason, TRUE) /\ reason \in Reasons
      /\ w \in Row /\ spent \in Int /\ spent' = spent
      /\ reason = "deletion_requested" <=> w.deleting
  BY DEF AlarmCloses, Reasons, TypeOK
<1>3. Handles(t, w, TRUE)
  BY <1>2, CloseHandles
<1> QED
  BY <1>1, <1>2, <1>3

\* The row without its flush in flight, for an operator if that was a close; booked;
\* opened; and without a reservation.
Grounded(x, k) ==
  /\ x.res = w.res /\ x.alloc = w.alloc /\ x.flushed = w.flushed /\ x.seq = w.seq
  /\ x.deleting = w.deleting /\ x.consumed = w.consumed /\ x.pend = w.pend /\ ~x.inFlight
  /\ x.recovery = (w.recovery \/ k.kind = "close")
Booked(x, k) ==
  /\ x.res = w.res /\ x.deleting = w.deleting /\ x.consumed = w.consumed
  /\ x.flushed = k.snap.flushed + k.amount /\ x.alloc = k.snap.alloc + k.value
  /\ x.seq = k.seq /\ x.pend = NoFlush /\ ~x.inFlight /\ x.recovery = w.recovery
Opens(x, k) ==
  /\ x.res = k.value /\ x.alloc = rsv[k.value].alloc /\ x.deleting = w.deleting
  /\ IF k.reply = "reused"
     THEN /\ x.consumed = w.consumed /\ x.flushed = w.flushed /\ x.seq = w.seq
          /\ x.pend = w.pend /\ x.inFlight = w.inFlight
     ELSE x.consumed = 0 /\ x.flushed = 0 /\ x.seq = 0 /\ x.pend = NoFlush /\ ~x.inFlight
Shuts(x, k) ==
  /\ x.res = NoReservation /\ x.deleting = w.deleting /\ x.consumed = w.consumed
  /\ x.flushed = IF k.reply \in Errors THEN Greatest(k.snap.flushed, k.snap.consumed)
                 ELSE k.snap.flushed + k.amount
  /\ x.seq = k.seq /\ x.pend = NoFlush /\ ~x.inFlight

\* Going on with an answer.
Goes(t) ==
  LET k == task[t]
  IN  \/ /\ k.kind = "boot" /\ k.reply \in Errors
         /\ Resumes(t, w)
      \/ /\ k.kind = "boot" /\ k.reply \in {"ok", "reused"}
         /\ \E x \in Row : Opens(x, k) /\ Resumes(t, x)
      \/ /\ k.kind \in {"flush", "close"} /\ k.reply \in Errors
         /\ \E x \in Row : Grounded(x, k) /\ Resumes(t, x)
      \/ /\ k.kind = "flush" /\ k.call \in {"capture", "extend"} /\ k.reply \in {"ok", "reused"}
         /\ \E x \in Row : Booked(x, k) /\ Resumes(t, x)
      \/ /\ k.kind = "close"
         /\ (k.call = "release" /\ k.reply \in {"ok", "reused"}) \/ k.reply = "reconciled"
         /\ \E x \in Row : (Shuts(x, k) \/ (x = EmptyRow /\ k.reason = "deletion_requested"))
                           /\ Resumes(t, x)
      \/ /\ k.kind = "flush" /\ k.call = "capture" /\ k.reply \in {"ok", "reused"}
         /\ k.refill > 0 /\ Calls(t, "extend")
      \/ /\ k.kind = "close" /\ k.call = "capture" /\ k.reply \in {"ok", "reused"}
         /\ Calls(t, "release")

LEMMA RowKept ==
  ASSUME NEW t \in Slots, NEW x \in Row, TypeOK, w' = x, Finish(t), UNCHANGED <<walletVars, spent>>
  PROVE  Resumes(t, x)
<1>1. Turns(t, x, x, NoTask, FALSE)
  BY DEF Turns, Finish, Start
<1>2. Spends(x, x)
  BY SameIsSpent DEF TypeOK
<1> QED
  BY <1>1, <1>2, EmptyTypes DEF Resumes, Handles

LEMMA TaskTypes ==
  ASSUME NEW t \in Slots, TypeOK
  PROVE  /\ task[t] \in Task /\ task[t].value \in Nat /\ task[t].snap \in Row
         /\ task[t].seq \in 0 .. MaxSeq /\ task[t].amount \in Nat
         /\ task[t].reply \in {"none", "ok", "reused"} \cup Errors
         /\ task[t].cost \in Costs \cup {0} /\ task[t].at \in Times \cup {0}
         /\ task[t].kind \in {"none", "boot", "flush", "close"}
         /\ task[t].recovering \in BOOLEAN
  BY DEF TypeOK, Task

LEMMA EndBootForms ==
  ASSUME NEW t \in Slots, TypeOK, TasksAreShaped, EndBoot(t)
  PROVE  Goes(t)
<1> DEFINE k == task[t]
<1>1. /\ k.kind = "boot" /\ k.call = "create" /\ k.reply # "none"
      /\ UNCHANGED walletVars /\ w \in Row
  BY DEF EndBoot, Answered, TypeOK
<1>2. CASE Failed(t)
  <2>1. CASE Finish(t) /\ UNCHANGED <<w, spent>>
    <3>1. Resumes(t, w)
      BY <1>1, <2>1, RowKept
    <3> QED
      BY <1>1, <1>2, <3>1 DEF Goes, Failed
  <2> QED
    BY <1>2, <2>1 DEF EndBoot
<1>3. CASE ~Failed(t)
  <2> DEFINE x == Bootstrapped(w, k)
  <2>1. k.reply \in {"ok", "reused"}
    BY <1>1, <1>3, TaskTypes DEF Failed
  <2>2. PICK r \in Reservations : r = k.value
    BY <1>1, <2>1 DEF TasksAreShaped, Shaped
  <2>3. PICK a \in Nat : a = rsv[r].alloc
    BY DEF TypeOK, Reservation
  <2>4. r \in 0 .. MaxReservations /\ 0 \in 0 .. MaxSeq /\ 0 \in 0 .. MaxOutstanding
    BY BoundsAssumption DEF Reservations
  <2>5. x \in Row /\ Opens(x, k)
    <3> DEFINE y == [w EXCEPT !.row = TRUE, !.res = r, !.alloc = a]
    <3>1. x = IF k.reply = "reused" THEN y
              ELSE [y EXCEPT !.consumed = 0, !.flushed = 0, !.seq = 0,
                             !.pend = NoFlush, !.inFlight = FALSE]
      BY <2>2, <2>3 DEF Bootstrapped
    <3>2. /\ y \in Row /\ y.res = r /\ y.alloc = a /\ y.deleting = w.deleting
          /\ y.consumed = w.consumed /\ y.flushed = w.flushed /\ y.seq = w.seq
          /\ y.pend = w.pend /\ y.inFlight = w.inFlight
      BY <1>1, <2>4 DEF Row
    <3> HIDE DEF y, x
    <3>3. CASE k.reply = "reused"
      BY <3>1, <3>2, <3>3, <2>2, <2>3 DEF Opens
    <3>4. CASE k.reply # "reused"
      <4>1. /\ x \in Row /\ x.res = r /\ x.alloc = a /\ x.deleting = w.deleting
            /\ x.consumed = 0 /\ x.flushed = 0 /\ x.seq = 0 /\ x.pend = NoFlush
            /\ x.inFlight = FALSE
        BY <3>1, <3>2, <3>4, <2>4 DEF Row, Flush, NoFlush
      <4> QED
        BY <4>1, <3>4, <2>2, <2>3 DEF Opens
    <3> QED
      BY <3>3, <3>4
  <2>6. \/ w' = x /\ Finish(t) /\ UNCHANGED spent
        \/ Commit(t, x, k.cost, k.at)
    BY <1>3 DEF EndBoot
  <2> HIDE DEF x
  <2>7. Resumes(t, x)
    <3>1. CASE w' = x /\ Finish(t) /\ UNCHANGED spent
      BY <3>1, <1>1, <2>5, RowKept
    <3>2. CASE Commit(t, x, k.cost, k.at)
      BY <3>2, <1>1, <2>5, TaskTypes, CommitHandles DEF Resumes, TypeOK
    <3> QED
      BY <2>6, <3>1, <3>2
  <2> QED
    BY <1>1, <2>1, <2>5, <2>7 DEF Goes
<1> QED
  BY <1>2, <1>3

LEMMA FlushFailsForms ==
  ASSUME NEW t \in Slots, TypeOK, FlushFails(t)
  PROVE  Goes(t)
<1> DEFINE x == [w EXCEPT !.inFlight = FALSE]
<1>1. /\ task[t].kind = "flush" /\ task[t].reply \in Errors /\ w \in Row
      /\ UNCHANGED walletVars /\ AfterFlush(t, x)
  BY DEF FlushFails, Answered, Failed, TypeOK
<1>2. x \in Row /\ Grounded(x, task[t])
  BY <1>1 DEF Row, Grounded
<1> HIDE DEF x
<1>3. Resumes(t, x)
  BY <1>1, <1>2, AfterFlushHandles DEF Resumes
<1> QED
  BY <1>1, <1>2, <1>3 DEF Goes

LEMMA EndFlushForms ==
  ASSUME NEW t \in Slots, TypeOK, EndFlush(t)
  PROVE  Goes(t)
<1> DEFINE k == task[t]
<1> DEFINE x == [Settled(w, k.seq, k.snap.flushed + k.amount) EXCEPT !.alloc = k.snap.alloc + k.value]
<1>1. /\ k.kind = "flush" /\ k.call \in {"capture", "extend"} /\ k.reply # "none"
      /\ k.reply \notin Errors /\ w \in Row /\ UNCHANGED walletVars /\ AfterFlush(t, x)
  BY DEF EndFlush, Answered, Failed, TypeOK
<1>2. PICK f, a \in Nat : f = k.snap.flushed + k.amount /\ a = k.snap.alloc + k.value
  <2>1. k.snap \in Row /\ k.amount \in Nat /\ k.value \in Nat
    BY TaskTypes
  <2>2. k.snap.flushed \in Nat /\ k.snap.alloc \in Nat
    BY <2>1, RowTypes
  <2> QED
    BY <2>1, <2>2
<1>3. x = [Settled(w, k.seq, f) EXCEPT !.alloc = a]
  BY <1>2
<1>4. /\ x \in Row /\ x.res = w.res /\ x.deleting = w.deleting /\ x.consumed = w.consumed
      /\ x.flushed = f /\ x.alloc = a /\ x.seq = k.seq /\ x.pend = NoFlush /\ x.inFlight = FALSE
      /\ x.recovery = w.recovery
  <2>1. PICK q \in 0 .. MaxSeq : q = k.seq
    BY TaskTypes
  <2>2. x = [Settled(w, q, f) EXCEPT !.alloc = a]
    BY <1>3, <2>1
  <2>3. NoFlush \in Flush
    BY BoundsAssumption DEF NoFlush, Flush
  <2> QED
    BY <1>1, <2>1, <2>2, <2>3 DEF Settled, Row
<1> HIDE DEF x
<1>5. Resumes(t, x)
  BY <1>1, <1>4, AfterFlushHandles DEF Resumes
<1>6. Booked(x, k) /\ k.reply \in {"ok", "reused"}
  BY <1>1, <1>2, <1>4, TaskTypes DEF Booked
<1> QED
  BY <1>1, <1>4, <1>5, <1>6 DEF Goes

LEMMA NextCallForms ==
  ASSUME NEW t \in Slots, TypeOK, FlushExtends(t) \/ CloseReleases(t)
  PROVE  Goes(t)
<1>1. task[t].reply # "none" /\ task[t].reply \notin Errors
  BY DEF FlushExtends, CloseReleases, Answered, Failed
<1>2. task[t].reply \in {"ok", "reused"}
  BY <1>1, TaskTypes
<1>3. CASE FlushExtends(t)
  <2>1. /\ task[t].kind = "flush" /\ task[t].call = "capture" /\ task[t].refill > 0
        /\ Calls(t, "extend")
    BY <1>3, CallNextCalls DEF FlushExtends, Answered
  <2> QED
    BY <1>2, <2>1 DEF Goes
<1>4. CASE CloseReleases(t)
  <2>1. task[t].kind = "close" /\ task[t].call = "capture" /\ Calls(t, "release")
    BY <1>4, CallNextCalls DEF CloseReleases, Answered
  <2> QED
    BY <1>2, <2>1 DEF Goes
<1> QED
  BY <1>3, <1>4

LEMMA CloseFailsForms ==
  ASSUME NEW t \in Slots, TypeOK, CloseFails(t)
  PROVE  Goes(t)
<1> DEFINE x == [w EXCEPT !.recovery = TRUE, !.inFlight = FALSE]
<1>1. /\ task[t].kind = "close" /\ task[t].reply \in Errors /\ w \in Row
      /\ UNCHANGED <<walletVars, spent>> /\ w' = x /\ Finish(t)
  BY DEF CloseFails, AnsweredClose, Answered, Failed, TypeOK
<1>2. x \in Row /\ Grounded(x, task[t])
  BY <1>1 DEF Row, Grounded
<1> HIDE DEF x
<1>3. Resumes(t, x)
  BY <1>1, <1>2, RowKept
<1> QED
  BY <1>1, <1>2, <1>3 DEF Goes

LEMMA EndCloseForms ==
  ASSUME NEW t \in Slots, TypeOK, EndClose(t)
  PROVE  Goes(t)
<1> DEFINE k == task[t]
<1> DEFINE flushed == IF k.reply \in Errors THEN Greatest(k.snap.flushed, k.snap.consumed)
                      ELSE k.snap.flushed + k.amount
<1> DEFINE y == [Settled(w, k.seq, flushed) EXCEPT !.res = NoReservation]
<1>1. /\ k.kind = "close" /\ w \in Row /\ UNCHANGED <<walletVars, spent>> /\ Finish(t)
      /\ w' = AfterClose(k, y)
  BY DEF EndClose, AnsweredClose, Answered, Failed, TypeOK
<1>2. (k.call = "release" /\ k.reply \in {"ok", "reused"}) \/ k.reply = "reconciled"
  BY TaskTypes DEF EndClose, Answered, Failed, FoundReconciled
<1>3. PICK f \in Nat, q \in 0 .. MaxSeq : f = flushed /\ q = k.seq
  <2>1. flushed \in Nat
    BY TaskTypes, RowTypes DEF Greatest
  <2> QED
    BY <2>1, TaskTypes
<1>4. /\ y \in Row /\ y.res = NoReservation /\ y.deleting = w.deleting /\ y.consumed = w.consumed
      /\ y.flushed = f /\ y.seq = q /\ y.pend = NoFlush /\ y.inFlight = FALSE
  <2>1. y = [Settled(w, q, f) EXCEPT !.res = NoReservation]
    BY <1>3
  <2>2. NoFlush \in Flush /\ NoReservation \in 0 .. MaxReservations
    BY BoundsAssumption DEF NoFlush, Flush, NoReservation
  <2> QED
    BY <1>1, <2>1, <2>2 DEF Settled, Row
<1>5. Shuts(y, k)
  BY <1>3, <1>4 DEF Shuts
<1> HIDE DEF y, flushed
<1>6. PICK x \in Row : w' = x /\ (x = y \/ (x = EmptyRow /\ k.reason = "deletion_requested"))
  BY <1>1, <1>4, EmptyTypes DEF AfterClose
<1>7. Resumes(t, x)
  BY <1>1, <1>6, RowKept
<1> QED
  BY <1>1, <1>2, <1>5, <1>6, <1>7 DEF Goes

LEMMA ContinueForms ==
  ASSUME NEW t \in Slots, TypeOK, TasksAreShaped, Continue(t)
  PROVE  Goes(t) /\ UNCHANGED left
<1>1. Goes(t)
  BY EndBootForms, FlushFailsForms, EndFlushForms, NextCallForms, CloseFailsForms,
     EndCloseForms DEF Continue
<1> QED
  BY <1>1 DEF Continue, EndBoot, FlushExtends, FlushFails, EndFlush, CloseReleases, CloseFails,
              EndClose

LEMMA AnswerForms ==
  ASSUME NEW t \in Slots, TypeOK, WalletAnswers(t)
  PROVE  /\ \E reply \in Replies, value \in Values :
              WalletCommand(t, reply, value) /\ Hears(t, reply, value)
         /\ UNCHANGED left
<1>1. PICK reply \in Replies, value \in Values :
        WalletCommand(t, reply, value) /\ Answer(t, reply, value)
  BY DEF WalletAnswers
<1>2. Waiting(t) /\ UNCHANGED <<w, spent, left>>
  BY DEF WalletAnswers
<1>3. Hears(t, reply, value)
  BY <1>1, <1>2, AnswerHears
<1> QED
  BY <1>1, <1>2, <1>3

LEMMA FaultForms ==
  ASSUME NEW t \in Slots, TypeOK, WalletFails(t) \/ AnswerLost(t)
  PROVE  /\ \/ UNCHANGED walletVars
            \/ \E reply \in Replies, value \in Values : WalletCommand(t, reply, value)
         /\ Hears(t, "failed", 0) /\ Shrinks /\ left'.faults < left.faults
<1>1. /\ left' = [left EXCEPT !.faults = @ - 1] /\ left.faults > 0 /\ left \in Bounds
      /\ Waiting(t) /\ Answer(t, "failed", 0) /\ UNCHANGED <<w, spent>>
  BY DEF WalletFails, AnswerLost, TypeOK
<1>2. Shrinks /\ left'.faults < left.faults
  BY <1>1 DEF Shrinks, Bounds
<1>3. Hears(t, "failed", 0)
  <2>1. PICK v \in Values : v = 0
    BY BoundsAssumption DEF Values, Greatest
  <2>2. "failed" \in Replies \cup {"failed"}
    OBVIOUS
  <2>3. Hears(t, "failed", v)
    BY <1>1, <2>1, <2>2, AnswerHears
  <2> QED
    BY <2>1, <2>3
<1>4. \/ UNCHANGED walletVars
      \/ \E reply \in Replies, value \in Values : WalletCommand(t, reply, value)
  <2>1. CASE WalletFails(t)
    BY <2>1 DEF WalletFails
  <2>2. CASE AnswerLost(t)
    <3>1. PICK reply \in {"ok", "reused"}, value \in Values : WalletCommand(t, reply, value)
      BY <2>2 DEF AnswerLost
    <3>2. reply \in Replies
      BY DEF Replies
    <3> QED
      BY <3>1, <3>2
  <2> QED
    BY <2>1, <2>2
<1> QED
  BY <1>2, <1>3, <1>4

\* What is pending in the row x is sent again by k: as it was, and a final flush as the
\* close's.
Replays(x, y, k) ==
  /\ SameBesides(x, y) /\ y.consumed = x.consumed /\ y.pend.seq = x.pend.seq
  /\ y.pend.amount = x.pend.amount /\ y.pend.final = x.pend.final
  /\ y.pend.refill = IF x.pend.final THEN 0 ELSE x.pend.refill
  /\ y.inFlight = (x.inFlight \/ x.pend.final)
  /\ k.call = "capture" /\ k.reply = "none" /\ k.value = 0 /\ k.snap = x
  /\ k.seq = x.pend.seq /\ k.amount = x.pend.amount /\ k.reason # "deletion_requested"
  /\ k.kind = IF x.pend.final THEN "close" ELSE "flush"
  /\ k.kind = "close" => k.reason \in Reasons
  /\ k.kind = "flush" => k.refill = y.pend.refill

\* An instance is evicted and the next one starts.
Restarts ==
  /\ w' \in Row /\ task' \in [Slots -> Task] /\ TasksAreShaped'
  /\ Shrinks /\ left'.crashes = left.crashes - 1 /\ left'.faults = left.faults
  /\ UNCHANGED <<walletVars, spent>>
  /\ \E t \in Slots, k \in Task :
       /\ task' = [u \in Slots |-> IF u = t THEN k ELSE NoTask]
       /\ IF MustRecover THEN Replays(w, w', k) ELSE w' = w /\ k = NoTask

LEMMA EvictForms ==
  ASSUME NEW t \in Slots, NEW at \in Times, TypeOK, Evict(t, at)
  PROVE  Restarts
<1>1. /\ left' = [left EXCEPT !.crashes = @ - 1] /\ left.crashes > 0 /\ left \in Bounds
      /\ w \in Row /\ UNCHANGED <<walletVars, spent>>
  BY DEF Evict, TypeOK
<1>2. Shrinks /\ left'.crashes = left.crashes - 1 /\ left'.faults = left.faults
  BY <1>1 DEF Shrinks, Bounds
<1> DEFINE k == IF ~MustRecover THEN NoTask
                ELSE IF w.pend.final THEN CloseTask(w, "manual", TRUE)
                ELSE FlushTask(w, at, 0)
<1>3. task' = [u \in Slots |-> IF u # t \/ ~MustRecover THEN NoTask
                               ELSE IF w.pend.final THEN CloseTask(w, "manual", TRUE)
                               ELSE FlushTask(w, at, 0)]
  BY DEF Evict
<1>4. task' = [u \in Slots |-> IF u = t THEN k ELSE NoTask]
  BY <1>3
<1>5. w' \in Row /\ k \in Task /\ IF MustRecover THEN Replays(w, w', k) ELSE w' = w /\ k = NoTask
  <2>1. CASE ~MustRecover
    BY <1>1, <2>1, EmptyTypes DEF Evict
  <2>2. CASE MustRecover /\ w.pend.final
    <3>1. PICK reason \in Reasons, recovering \in BOOLEAN : reason = "manual" /\ recovering
      BY DEF Reasons
    <3>2. k = CloseTask(w, reason, recovering)
      BY <2>2, <3>1
    <3> HIDE DEF k
    <3>3. /\ k \in Task /\ k.kind = "close" /\ k.call = "capture" /\ k.reply = "none"
          /\ k.value = 0 /\ k.snap = w /\ k.seq = w.pend.seq /\ k.amount = w.pend.amount
          /\ k.reason = "manual"
      <4>1. w \in Row
        BY <1>1
      <4>2. LET j == CloseTask(w, reason, recovering)
            IN  /\ j \in Task /\ j.kind = "close" /\ j.call = "capture" /\ j.reply = "none"
                /\ j.value = 0 /\ j.snap = w /\ j.seq = w.pend.seq /\ j.amount = w.pend.amount
                /\ j.recovering = recovering /\ j.reason = reason
        BY <4>1, CloseTaskTypes
      <4> QED
        BY <3>1, <3>2, <4>2
    <3>4. w' = WithIntent(w, w.pend.seq, w.pend.amount, 0, TRUE)
      BY <2>2 DEF Evict
    <3>5. /\ w' \in Row /\ SameBesides(w, w') /\ w'.consumed = w.consumed /\ w'.inFlight = TRUE
          /\ w'.pend.seq = w.pend.seq /\ w'.pend.amount = w.pend.amount
          /\ w'.pend.refill = 0 /\ w'.pend.final = TRUE
      <4>1. PICK q \in 0 .. MaxSeq, a \in Nat : q = w.pend.seq /\ a = w.pend.amount
        BY <1>1, RowTypes
      <4>2. w' = [w EXCEPT !.inFlight = TRUE,
                          !.pend = [seq |-> q, amount |-> a, refill |-> 0, final |-> TRUE]]
        BY <3>4, <4>1 DEF WithIntent
      <4>3. w \in Row /\ 0 \in 0 .. MaxOutstanding
        BY <1>1, BoundsAssumption
      <4> QED
        BY <4>1, <4>2, <4>3 DEF Row, Flush, SameBesides
    <3> QED
      BY <1>1, <2>2, <3>1, <3>3, <3>5, RowTypes DEF Replays
  <2>3. CASE MustRecover /\ ~w.pend.final
    <3>1. PICK c \in Costs \cup {0}, a \in Times \cup {0} : c = 0 /\ a = at
      OBVIOUS
    <3>2. k = FlushTask(w, a, c) /\ w' = w
      BY <2>3, <3>1 DEF Evict
    <3> HIDE DEF k
    <3>3. /\ k \in Task /\ k.kind = "flush" /\ k.call = "capture" /\ k.reply = "none"
          /\ k.value = 0 /\ k.snap = w /\ k.seq = w.pend.seq /\ k.amount = w.pend.amount
          /\ k.refill = w.pend.refill /\ k.reason = "none"
      <4>1. w \in Row
        BY <1>1
      <4>2. LET j == FlushTask(w, a, c)
            IN  /\ j \in Task /\ j.kind = "flush" /\ j.call = "capture" /\ j.reply = "none"
                /\ j.value = 0 /\ j.snap = w /\ j.seq = w.pend.seq /\ j.amount = w.pend.amount
                /\ j.refill = w.pend.refill /\ j.recovering = FALSE /\ j.reason = "none"
        BY <4>1, FlushTaskTypes
      <4> QED
        BY <3>2, <4>2
    <3> QED
      BY <1>1, <2>3, <3>2, <3>3, RowTypes DEF Replays, SameBesides
  <2> QED
    BY <2>1, <2>2, <2>3
<1> HIDE DEF k
<1>6. Shaped(k)
  <2>1. CASE MustRecover
    BY <1>1, <1>5, <2>1, RowTypes
    DEF Replays, Shaped, MustRecover, Open, SeqPending, NoReservation, Reservations, Seqs
  <2> QED
    BY <1>5, <2>1, EmptyTypes
<1>7. task' \in [Slots -> Task] /\ TasksAreShaped'
  BY <1>4, <1>5, <1>6, EmptyTypes DEF TasksAreShaped
<1> QED
  BY <1>1, <1>2, <1>4, <1>5, <1>7 DEF Restarts

LEMMA DeletionForms ==
  ASSUME TypeOK, RequestDeletion
  PROVE  /\ w' \in Row /\ Shrinks /\ left'.deletions < left.deletions
         /\ UNCHANGED <<walletVars, task, spent>>
<1>1. /\ left' = [left EXCEPT !.deletions = @ - 1] /\ left.deletions > 0 /\ left \in Bounds
      /\ w \in Row /\ w' = [w EXCEPT !.deleting = TRUE] /\ UNCHANGED <<walletVars, task, spent>>
  BY DEF RequestDeletion, TypeOK
<1>2. Shrinks /\ left'.deletions < left.deletions
  BY <1>1 DEF Shrinks, Bounds
<1>3. w' \in Row
  BY <1>1 DEF Row
<1> QED
  BY <1>1, <1>2, <1>3

LEMMA TopUpForms ==
  ASSUME TypeOK, TopUp
  PROVE  /\ funds' = funds + 1 /\ Shrinks
         /\ UNCHANGED <<w, task, rsv, captures, extends, releases, spent, charged>>
<1>1. left' = [left EXCEPT !.topUps = @ - 1] /\ left.topUps > 0 /\ left \in Bounds
  BY DEF TopUp, TypeOK
<1>2. Shrinks
  BY <1>1 DEF Shrinks, Bounds
<1> QED
  BY <1>2 DEF TopUp

-----------------------------------------------------------------------------
(* Types.                                                                  *)

LEMMA HandlesTypes ==
  ASSUME NEW t \in Slots, NEW x \in Row, NEW recover \in BOOLEAN, TypeOK, TasksAreShaped,
         Handles(t, x, recover)
  PROVE  w' \in Row /\ task' \in [Slots -> Task] /\ TasksAreShaped' /\ spent' \in Int
<1>1. PICK y \in Row, z \in Row, k \in Task : Spends(x, y) /\ Turns(t, y, z, k, recover)
  BY DEF Handles
<1>2. w' = z /\ task' = [task EXCEPT ![t] = k] /\ ((z = y /\ k = NoTask) \/ Sends(y, z, k, recover))
  BY <1>1 DEF Turns
<1>3. Shaped(k)
  <2>1. CASE k = NoTask
    BY <2>1, EmptyTypes
  <2>2. CASE Sends(y, z, k, recover)
    <3>1. /\ z.res = y.res /\ y.res # 0 /\ k.call = "capture" /\ k.reply = "none"
          /\ k.snap = z /\ k.seq = z.pend.seq /\ k.kind \in {"flush", "close"}
          /\ k.kind = "close" => k.reason \in Reasons
      BY <2>2 DEF Sends, SameBesides, Open, NoReservation
    <3>2. z.pend.seq > y.seq
      BY <2>2, RowTypes DEF Sends, SeqPending
    <3> QED
      BY <3>1, <3>2, RowTypes DEF Shaped, Reservations, Seqs
  <2> QED
    BY <1>2, <2>1, <2>2
<1>4. task' \in [Slots -> Task] /\ TasksAreShaped'
  BY <1>2, <1>3 DEF TypeOK, TasksAreShaped
<1> QED
  BY <1>1, <1>2, <1>4 DEF Spends

LEMMA HearsTypes ==
  ASSUME NEW t \in Slots, NEW reply, NEW value, TypeOK, TasksAreShaped, Hears(t, reply, value),
         (task[t].call = "create" /\ reply \in {"ok", "reused"}) => value \in Reservations
  PROVE  task' \in [Slots -> Task] /\ TasksAreShaped'
<1>1. PICK k \in Task : /\ task' = [task EXCEPT ![t] = k] /\ SameJob(task[t], k)
                        /\ k.call = task[t].call /\ k.reply = reply /\ k.value = value
  BY DEF Hears, Becomes
<1>2. Shaped(k)
  BY <1>1 DEF TasksAreShaped, Shaped, SameJob, Hears, Waiting
<1> QED
  BY <1>1, <1>2 DEF TypeOK, TasksAreShaped

LEMMA CallsTypes ==
  ASSUME NEW t \in Slots, NEW call, TypeOK, TasksAreShaped, Calls(t, call),
         \/ call = "extend" /\ task[t].kind = "flush"
         \/ call = "release" /\ task[t].kind = "close",
         task[t].call = "capture"
  PROVE  task' \in [Slots -> Task] /\ TasksAreShaped'
<1>1. PICK k \in Task : /\ task' = [task EXCEPT ![t] = k] /\ SameJob(task[t], k)
                        /\ k.call = call /\ k.reply = "none"
  BY DEF Calls, Becomes
<1>2. Shaped(k)
  BY <1>1 DEF TasksAreShaped, Shaped, SameJob
<1> QED
  BY <1>1, <1>2 DEF TypeOK, TasksAreShaped

LEMMA GoesTypes ==
  ASSUME NEW t \in Slots, TypeOK, TasksAreShaped, Goes(t)
  PROVE  /\ w' \in Row /\ task' \in [Slots -> Task] /\ TasksAreShaped' /\ spent' \in Int
         /\ UNCHANGED walletVars
<1>1. CASE \E x \in Row : Resumes(t, x)
  BY <1>1, HandlesTypes DEF Resumes
<1>2. CASE task[t].kind = "flush" /\ task[t].call = "capture" /\ Calls(t, "extend")
  BY <1>2, CallsTypes DEF Calls, TypeOK
<1>3. CASE task[t].kind = "close" /\ task[t].call = "capture" /\ Calls(t, "release")
  BY <1>3, CallsTypes DEF Calls, TypeOK
<1> QED
  BY <1>1, <1>2, <1>3 DEF Goes, TypeOK

WalletTypes ==
  /\ funds \in Nat /\ rsv \in [Reservations -> Reservation]
  /\ captures \in [Reservations -> [Seqs -> Nat \cup {NotRecorded}]]
  /\ extends \in [Reservations -> [Seqs -> Extension]]
  /\ releases \subseteq Reservations \X Reasons
  /\ charged \in Nat

LEMMA HeldTypes ==
  ASSUME WalletTypes, WalletIsSound, NEW r \in Reservations
  PROVE  /\ rsv[r] \in Reservation /\ rsv[r].alloc \in Nat /\ rsv[r].captured \in Nat
         /\ rsv[r].status \in {"none", "active", "reconciled"} /\ HeldBy(r) \in Nat
  BY DEF WalletTypes, WalletIsSound, Reservation, HeldBy

LEMMA CreateTypes ==
  ASSUME NEW requested \in Nat, NEW reply, NEW r \in Reservations,
         WalletTypes, WalletIsSound, WalletCreate(requested, reply, r)
  PROVE  WalletTypes' /\ WalletIsSound'
<1>1. CASE UNCHANGED walletVars
  BY <1>1 DEF walletVars, WalletTypes, WalletIsSound
<1>2. CASE ~UNCHANGED walletVars
  <2>1. PICK given \in Nat : given = Least(requested, funds) /\ funds - given \in Nat
    BY DEF Least, WalletTypes
  <2>2. /\ rsv[r].status = "none"
        /\ rsv' = [rsv EXCEPT ![r] = [status |-> "active", alloc |-> given, captured |-> 0]]
        /\ funds' = funds - given
    BY <1>2, <2>1 DEF WalletCreate
  <2>3. UNCHANGED <<captures, extends, releases, charged>>
    BY <1>2 DEF WalletCreate
  <2> DEFINE new == [status |-> "active", alloc |-> given, captured |-> 0]
  <2>4. new \in Reservation /\ new.captured <= new.alloc
    BY DEF Reservation
  <2>5. rsv' = [rsv EXCEPT ![r] = new]
    BY <2>2
  <2> HIDE DEF new
  <2>6. WalletTypes'
    <3>1. funds' \in Nat
      BY <2>1, <2>2
    <3> QED
      BY <3>1, <2>3, <2>4, <2>5 DEF WalletTypes
  <2>7. \A s \in Reservations : rsv'[s].captured <= rsv'[s].alloc
    BY <2>4, <2>5 DEF WalletTypes, WalletIsSound
  <2>8. \A p \in releases' : rsv'[p[1]].status = "reconciled"
    <3>1. \A p \in releases : p[1] \in Reservations /\ p[1] # r
      BY <2>2 DEF WalletTypes, WalletIsSound
    <3> QED
      BY <2>3, <2>5, <3>1 DEF WalletTypes, WalletIsSound
  <2> QED
    BY <2>6, <2>7, <2>8 DEF WalletIsSound
<1> QED
  BY <1>1, <1>2

LEMMA CaptureTypes ==
  ASSUME NEW amount \in Nat, NEW reply, NEW r \in Reservations, NEW q \in Seqs,
         WalletTypes, WalletIsSound, WalletCapture(r, q, amount, reply)
  PROVE  WalletTypes' /\ WalletIsSound'
<1>1. CASE UNCHANGED walletVars
  BY <1>1 DEF walletVars, WalletTypes, WalletIsSound
<1>2. CASE ~UNCHANGED walletVars
  <2>1. /\ amount <= HeldBy(r) /\ charged' = charged + amount
        /\ captures' = [captures EXCEPT ![r][q] = amount]
    BY <1>2 DEF WalletCapture
  <2>2. rsv' = [rsv EXCEPT ![r].captured = @ + amount]
    BY <1>2 DEF WalletCapture
  <2>3. UNCHANGED <<funds, extends, releases>>
    BY <1>2 DEF WalletCapture
  <2>4. PICK old \in Reservation : old = rsv[r]
    BY HeldTypes
  <2> DEFINE new == [old EXCEPT !.captured = @ + amount]
  <2>5. rsv' = [rsv EXCEPT ![r] = new]
    BY <2>2, <2>4 DEF WalletTypes
  <2>6. new \in Reservation /\ new.captured <= new.alloc /\ new.status = old.status
    <3>1. old.alloc \in Nat /\ old.captured \in Nat /\ amount <= old.alloc - old.captured
      BY <2>1, <2>4, HeldTypes DEF HeldBy
    <3> QED
      BY <3>1 DEF Reservation
  <2> HIDE DEF new
  <2>7. captures' \in [Reservations -> [Seqs -> Nat \cup {NotRecorded}]]
    BY <2>1 DEF WalletTypes
  <2>8. WalletTypes'
    BY <2>1, <2>3, <2>5, <2>6, <2>7 DEF WalletTypes
  <2>9. WalletIsSound'
    BY <2>3, <2>4, <2>5, <2>6 DEF WalletTypes, WalletIsSound
  <2> QED
    BY <2>8, <2>9
<1> QED
  BY <1>1, <1>2

LEMMA ExtendTypes ==
  ASSUME NEW amount \in 0 .. MaxOutstanding, NEW at \in Times \cup {0}, NEW reply, NEW granted,
         NEW r \in Reservations, NEW q \in Seqs,
         WalletTypes, WalletIsSound, WalletExtend(r, q, amount, at, reply, granted)
  PROVE  WalletTypes' /\ WalletIsSound'
<1>1. CASE UNCHANGED walletVars
  BY <1>1 DEF walletVars, WalletTypes, WalletIsSound
<1>2. CASE ~UNCHANGED walletVars
  <2>1. /\ granted = Least(amount, funds) /\ funds' = funds - granted
        /\ extends' = [extends EXCEPT ![r][q] = [amount |-> amount, at |-> at, granted |-> granted]]
    BY <1>2 DEF WalletExtend
  <2>2. rsv' = [rsv EXCEPT ![r].alloc = @ + granted]
    BY <1>2 DEF WalletExtend
  <2>3. UNCHANGED <<captures, releases, charged>>
    BY <1>2 DEF WalletExtend
  <2>4. granted \in Nat /\ funds - granted \in Nat
    BY <2>1, BoundsAssumption DEF Least, WalletTypes
  <2>5. PICK old \in Reservation : old = rsv[r]
    BY HeldTypes
  <2> DEFINE new == [old EXCEPT !.alloc = @ + granted]
  <2>6. rsv' = [rsv EXCEPT ![r] = new]
    BY <2>2, <2>5 DEF WalletTypes
  <2>7. new \in Reservation /\ new.captured <= new.alloc /\ new.status = old.status
    <3>1. old.alloc \in Nat /\ old.captured \in Nat /\ old.captured <= old.alloc
      BY <2>5, HeldTypes DEF WalletIsSound
    <3> QED
      BY <2>4, <3>1 DEF Reservation
  <2> HIDE DEF new
  <2>8. extends' \in [Reservations -> [Seqs -> Extension]]
    <3>1. PICK ext \in Extension : ext = [amount |-> amount, at |-> at, granted |-> granted]
      BY <2>4 DEF Extension
    <3>2. extends' = [extends EXCEPT ![r][q] = ext]
      BY <2>1, <3>1
    <3> QED
      BY <3>2 DEF WalletTypes
  <2>9. WalletTypes'
    BY <2>1, <2>3, <2>4, <2>6, <2>7, <2>8 DEF WalletTypes
  <2>10. WalletIsSound'
    BY <2>3, <2>5, <2>6, <2>7 DEF WalletTypes, WalletIsSound
  <2> QED
    BY <2>9, <2>10
<1> QED
  BY <1>1, <1>2

LEMMA ReleaseTypes ==
  ASSUME NEW reason \in Reasons, NEW reply, NEW r \in Reservations,
         WalletTypes, WalletIsSound, WalletRelease(r, reason, reply)
  PROVE  WalletTypes' /\ WalletIsSound'
<1>1. CASE UNCHANGED walletVars
  BY <1>1 DEF walletVars, WalletTypes, WalletIsSound
<1>2. CASE ~UNCHANGED walletVars
  <2>1. funds' = funds + HeldBy(r) /\ releases' = releases \cup {<<r, reason>>}
    BY <1>2 DEF WalletRelease
  <2>2. rsv' = [rsv EXCEPT ![r].status = "reconciled"]
    BY <1>2 DEF WalletRelease
  <2>3. UNCHANGED <<captures, extends, charged>>
    BY <1>2 DEF WalletRelease
  <2>4. PICK old \in Reservation : old = rsv[r] /\ old.captured <= old.alloc
    BY HeldTypes DEF WalletIsSound
  <2> DEFINE new == [old EXCEPT !.status = "reconciled"]
  <2>5. rsv' = [rsv EXCEPT ![r] = new]
    BY <2>2, <2>4 DEF WalletTypes
  <2>6. new \in Reservation /\ new.captured <= new.alloc /\ new.status = "reconciled"
    BY <2>4 DEF Reservation
  <2> HIDE DEF new
  <2>7. WalletTypes'
    BY <2>1, <2>3, <2>5, <2>6, HeldTypes DEF WalletTypes
  <2>8. \A s \in Reservations : rsv'[s].captured <= rsv'[s].alloc
    BY <2>5, <2>6 DEF WalletTypes, WalletIsSound
  <2>9. \A p \in releases' : rsv'[p[1]].status = "reconciled"
    <3>1. \A p \in releases : p[1] \in Reservations
      BY DEF WalletTypes
    <3>2. \A s \in Reservations : s = r \/ rsv[s].status = "reconciled" => rsv'[s].status = "reconciled"
      BY <2>5, <2>6 DEF WalletTypes
    <3> QED
      BY <2>1, <3>1, <3>2 DEF WalletIsSound
  <2> QED
    BY <2>7, <2>8, <2>9 DEF WalletIsSound
<1> QED
  BY <1>1, <1>2

LEMMA CommandTypes ==
  ASSUME NEW t \in Slots, NEW reply, NEW value, TypeOK, TasksAreShaped, WalletIsSound,
         WalletCommand(t, reply, value)
  PROVE  WalletTypes' /\ WalletIsSound'
<1>1. WalletTypes
  BY DEF WalletTypes, TypeOK
<1>2. Shaped(task[t])
  BY DEF TasksAreShaped
<1>3. CASE task[t].call = "create" /\ value \in Reservations /\ WalletCreate(task[t].amount, reply, value)
  BY <1>1, <1>3, TaskTypes, CreateTypes
<1>4. CASE task[t].call = "capture" /\ WalletCapture(task[t].snap.res, task[t].seq, task[t].amount, reply)
  BY <1>1, <1>2, <1>4, TaskTypes, CaptureTypes DEF Shaped
<1>5. CASE task[t].call = "extend"
           /\ WalletExtend(task[t].snap.res, task[t].seq, task[t].refill, task[t].at, reply, value)
  <2>1. task[t].refill \in 0 .. MaxOutstanding
    BY DEF TypeOK, Task
  <2> QED
    BY <1>1, <1>2, <1>5, <2>1, TaskTypes, ExtendTypes DEF Shaped
<1>6. CASE task[t].call = "release" /\ WalletRelease(task[t].snap.res, task[t].reason, reply)
  BY <1>1, <1>2, <1>6, TaskTypes, ReleaseTypes DEF Shaped
<1> QED
  BY <1>3, <1>4, <1>5, <1>6 DEF WalletCommand

LEMMA HeardTypes ==
  ASSUME NEW t \in Slots, TypeOK, TasksAreShaped, WalletIsSound,
         WalletAnswers(t) \/ WalletFails(t) \/ AnswerLost(t)
  PROVE  WalletTypes' /\ WalletIsSound' /\ task' \in [Slots -> Task] /\ TasksAreShaped'
         /\ UNCHANGED <<w, spent>>
<1>0. WalletTypes
  BY DEF WalletTypes, TypeOK
<1>1. CASE WalletAnswers(t)
  <2>1. PICK reply \in Replies, value \in Values :
          WalletCommand(t, reply, value) /\ Hears(t, reply, value)
    BY <1>1, AnswerForms
  <2>2. task[t].call = "create" => value \in Reservations
    BY <2>1 DEF WalletCommand
  <2> QED
    BY <2>1, <2>2, CommandTypes, HearsTypes DEF Hears
<1>2. CASE WalletFails(t) \/ AnswerLost(t)
  <2>1. Hears(t, "failed", 0)
    BY <1>2, FaultForms
  <2>2. WalletTypes' /\ WalletIsSound'
    <3>1. CASE UNCHANGED walletVars
      BY <1>0, <3>1 DEF walletVars, WalletTypes, WalletIsSound
    <3>2. CASE ~UNCHANGED walletVars
      <4>1. PICK reply \in Replies, value \in Values : WalletCommand(t, reply, value)
        BY <1>2, <3>2, FaultForms
      <4> QED
        BY <4>1, CommandTypes
    <3> QED
      BY <3>1, <3>2
  <2> QED
    BY <2>1, <2>2, HearsTypes DEF Hears
<1> QED
  BY <1>1, <1>2

LEMMA ShrinksBounds ==
  ASSUME TypeOK, LeftIsBounded, Shrinks
  PROVE  LeftIsBounded' /\ left' \in Bounds
  BY BoundsAssumption DEF TypeOK, LeftIsBounded, Shrinks, Bounds

LEMMA TypesFollow ==
  ASSUME TypeOK, WalletTypes', w' \in Row, task' \in [Slots -> Task], spent' \in Int,
         left' \in Bounds
  PROVE  TypeOK'
  BY DEF TypeOK, WalletTypes

LEMMA WalletKept ==
  ASSUME TypeOK, WalletIsSound, UNCHANGED walletVars
  PROVE  WalletTypes' /\ WalletIsSound'
  BY DEF TypeOK, WalletTypes, WalletIsSound, walletVars

LEMMA SetsOut ==
  ASSUME NEW t \in Slots, TypeOK, TasksAreShaped, Step(t)
  PROVE  /\ w' \in Row /\ task' \in [Slots -> Task] /\ TasksAreShaped' /\ spent' \in Int
         /\ UNCHANGED walletVars /\ Shrinks
<1>1. CASE Arrives(t) /\ Shrinks
  <2>1. Handles(t, w, FALSE) /\ UNCHANGED walletVars /\ w \in Row
    BY <1>1 DEF Arrives, Resumes, TypeOK
  <2> QED
    BY <1>1, <2>1, HandlesTypes
<1>2. CASE Boots(t) /\ Shrinks
  <2>1. PICK k \in Task : /\ task' = [task EXCEPT ![t] = k]
                          /\ k.kind = "boot" /\ k.call = "create" /\ k.reply = "none"
    BY <1>2 DEF Boots, Becomes
  <2>2. Shaped(k)
    BY <2>1 DEF Shaped
  <2>3. UNCHANGED <<walletVars, w, spent>>
    BY <1>2 DEF Boots
  <2> QED
    BY <1>2, <2>1, <2>2, <2>3 DEF TypeOK, TasksAreShaped
<1>3. CASE \E reason \in AlarmReasons \cup {"deletion_requested"} : AlarmCloses(t, reason)
  <2>1. Handles(t, w, TRUE) /\ UNCHANGED walletVars /\ Shrinks /\ w \in Row
    BY <1>3, AlarmCloseForms DEF TypeOK
  <2> QED
    BY <2>1, HandlesTypes
<1>4. CASE Restarts
  BY <1>4 DEF Restarts, TypeOK
<1> QED
  BY <1>1, <1>2, <1>3, <1>4, DeliverForms, DeniedForms, FlushForms, EvictForms DEF Step

\* The model is well typed, a task waits for a command that fits it, and the wallet
\* never captures more from a reservation than it was given.
THEOREM TypeInvHolds == Spec => []TypeInv
<1>1. Init => TypeInv
  <2> SUFFICES ASSUME Init PROVE TypeInv
    OBVIOUS
  <2>1. w \in Row /\ task \in [Slots -> Task] /\ TasksAreShaped
    BY EmptyTypes DEF Init, TasksAreShaped
  <2>2. WalletTypes
    <3>0. NoExtension \in Extension
      BY BoundsAssumption DEF NoExtension, Extension
    <3>1. PICK e \in Extension : e = NoExtension
      BY <3>0
    <3>2. [r \in Reservations |-> [q \in Seqs |-> e]] \in [Reservations -> [Seqs -> Extension]]
      OBVIOUS
    <3> QED
      BY <3>1, <3>2, BoundsAssumption DEF Init, WalletTypes, Reservation
  <2>3. WalletIsSound /\ LeftIsBounded /\ left \in Bounds /\ spent \in Int
    BY BoundsAssumption DEF Init, WalletIsSound, LeftIsBounded, Bounds
  <2> QED
    BY <2>1, <2>2, <2>3 DEF TypeInv, TypeOK, WalletTypes
<1>2. TypeInv /\ [Next]_vars => TypeInv'
  <2> SUFFICES ASSUME TypeInv, [Next]_vars PROVE TypeInv'
    OBVIOUS
  <2> USE DEF TypeInv
  <2>1. ASSUME NEW t \in Slots, Step(t) PROVE TypeInv'
    BY <2>1, SetsOut, WalletKept, ShrinksBounds, TypesFollow
  <2>2. ASSUME NEW t \in Slots, Continue(t) PROVE TypeInv'
    <3>1. left' \in Bounds /\ LeftIsBounded'
      BY <2>2, ContinueForms DEF TypeOK, LeftIsBounded
    <3> QED
      BY <2>2, <3>1, ContinueForms, GoesTypes, WalletKept, TypesFollow
  <2>3. ASSUME NEW t \in Slots, WalletAnswers(t) \/ WalletFails(t) \/ AnswerLost(t)
        PROVE  TypeInv'
    <3>1. left' \in Bounds /\ LeftIsBounded'
      BY <2>3, AnswerForms, FaultForms, ShrinksBounds DEF TypeOK, LeftIsBounded
    <3>2. WalletTypes' /\ WalletIsSound' /\ task' \in [Slots -> Task] /\ TasksAreShaped'
          /\ UNCHANGED <<w, spent>>
      BY <2>3, HeardTypes
    <3>3. w' \in Row /\ spent' \in Int
      BY <3>2 DEF TypeOK
    <3> QED
      BY <3>1, <3>2, <3>3, TypesFollow
  <2>4. ASSUME TopUp PROVE TypeInv'
    <3>1. /\ funds' = funds + 1 /\ Shrinks
          /\ UNCHANGED <<w, task, rsv, captures, extends, releases, spent, charged>>
      BY <2>4, TopUpForms
    <3>2. WalletTypes' /\ WalletIsSound' /\ TasksAreShaped'
      BY <3>1 DEF TypeOK, WalletTypes, WalletIsSound, TasksAreShaped
    <3> QED
      BY <3>1, <3>2, ShrinksBounds DEF TypeOK, WalletTypes
  <2>5. ASSUME RequestDeletion PROVE TypeInv'
    <3>1. /\ w' \in Row /\ Shrinks /\ UNCHANGED <<walletVars, task, spent>>
      BY <2>5, DeletionForms
    <3>2. task' \in [Slots -> Task] /\ TasksAreShaped' /\ spent' \in Int
      BY <3>1 DEF TypeOK, TasksAreShaped
    <3> QED
      BY <3>1, <3>2, WalletKept, ShrinksBounds, TypesFollow
  <2>6. CASE UNCHANGED vars
    BY <2>6 DEF vars, TypeOK, TasksAreShaped, WalletIsSound, LeftIsBounded
  <2> QED
    BY <2>1, <2>2, <2>3, <2>4, <2>5, <2>6 DEF Next
<1> QED
  BY <1>1, <1>2, PTL DEF Spec

\* Whatever the bounds and the costs, every state is of the declared types: amounts
\* captured, granted and released never go below zero.
THEOREM TypesHold == Spec => []TypeOK
<1>1. TypeInv => TypeOK
  BY DEF TypeInv
<1> QED
  BY <1>1, TypeInvHolds, PTL

-----------------------------------------------------------------------------
(* A window that no alarm closes and whose deletion nobody asked for: any  *)
(* number of calls fail or lose their answer, or else, until one does, the *)
(* object is evicted once.                                                 *)

Calm == AlarmReasons = {} /\ NoDeletionYet /\ FaultsOrOneEviction

\* Nothing has gone wrong yet.
Clean == NoFaultYet /\ NoEvictionYet

Recorded(r, q) == captures[r][q] # NotRecorded
Unextended(r, q) == extends[r][q].granted = NotRecorded
Blank(r, q) == ~Recorded(r, q) /\ Unextended(r, q)

\* Row x: what is pending has the next number, the wallet has no record under a later
\* one, and none at all of a reservation the row does not hold, unless it is released.
RowIsNext(x) ==
  /\ ~x.deleting
  /\ ~Open(x) => ~x.inFlight /\ ~SeqPending(x)
  /\ SeqPending(x) => x.pend.seq = x.seq + 1
  /\ Open(x) => rsv[x.res].status # "none"
  /\ Open(x) => \A q \in Seqs : q > x.seq + 1 => Blank(x.res, q)
  /\ \A r \in Reservations : r # x.res /\ rsv[r].status # "reconciled" =>
       \A q \in Seqs : Blank(r, q)

\* What the wallet found under the key of k is not what k carries.
FoundOther(k) ==
  LET captured == captures[k.snap.res][k.seq]
      extended == extends[k.snap.res][k.seq]
  IN  \/ k.call = "capture" /\ captured \notin {NotRecorded, k.amount}
      \/ /\ k.call = "extend" /\ extended.granted # NotRecorded
         /\ extended.amount # k.refill \/ extended.at # k.at

\* Flush or close k is in flight over row x, and has read what x still says.
InFlight(x, k) ==
  /\ Open(x) /\ x.inFlight
  /\ k.snap.res = x.res /\ k.snap.flushed = x.flushed /\ k.snap.alloc = x.alloc
  /\ k.seq = x.seq + 1 /\ x.pend.seq = k.seq /\ x.pend.amount = k.amount
  /\ k.reason # "deletion_requested" /\ k.reply # "reused"
  /\ k.call \in {"extend", "release"} \/ k.reply = "ok" => captures[x.res][k.seq] = k.amount
  /\ (k.kind = "close") = x.pend.final
  /\ k.kind = "flush" => k.refill = x.pend.refill
  /\ k.call = "extend" => k.refill > 0
  /\ k.reply = "reconciled" \/ (k.call = "release" /\ k.reply = "ok")
       => rsv[x.res].status = "reconciled"
  /\ k.reply = "reconciled" /\ k.call = "capture" => captures[x.res][k.seq] = NotRecorded
  /\ k.reply = "conflict" => FoundOther(k)

\* Row x while k is the one operation that waits for the wallet, or none does.
Fits(x, k) ==
  /\ RowIsNext(x)
  /\ k.kind = "none" => ~x.inFlight \/ x.recovery
  /\ k.kind = "boot" => ~Open(x) /\ k.reply # "conflict"
  /\ k.kind = "boot" /\ k.reply \in {"ok", "reused"} => rsv[k.value].status = "active"
  /\ k.kind \in {"flush", "close"} => InFlight(x, k)

\* What the wallet has captured under the number that comes next.
Ahead(x) == IF Open(x) /\ x.seq < MaxSeq THEN Greatest(0, captures[x.res][x.seq + 1]) ELSE 0

\* What is captured, and what is pending, is usage accepted: s is all of that.
Pays(x, s) ==
  /\ x.flushed + Ahead(x) <= x.consumed
  /\ SeqPending(x) => x.flushed + x.pend.amount <= x.consumed
  /\ charged + (x.consumed - x.flushed - Ahead(x)) <= s

\* A close had read all that it captures.
Seen(x, k) ==
  k.kind = "close" =>
    k.snap.consumed <= x.consumed /\ x.flushed + k.amount <= k.snap.consumed

\* What the wallet has recorded under the next number is what is pending, or less where
\* a flush with no refill is pending; when nothing is pending, it has nothing.
FitsKey(x, q) ==
  /\ x.pend.final => x.inFlight
  /\ \/ captures[x.res][q] \in {NotRecorded, x.pend.amount}
     \/ x.pend.refill = 0 /\ ~x.pend.final /\ captures[x.res][q] < x.pend.amount
  /\ \/ Unextended(x.res, q) \/ x.pend.refill = 0
     \/ extends[x.res][q].amount = x.pend.refill
Keyed(x) ==
  Open(x) /\ ~x.recovery =>
    \A q \in Seqs : q = x.seq + 1 =>
      IF SeqPending(x) THEN FitsKey(x, q) ELSE Blank(x.res, q)

\* Until something goes wrong, besides: the row's reservation is the one that is
\* active, and holds what the row says when nothing waits for the wallet.
RowIsBacked(x) == Open(x) => x.consumed <= x.alloc /\ x.flushed <= x.alloc
OnlyActive(res) == \A r \in Reservations : rsv[r].status = "active" => r = res
RestIsBacked(x) ==
  Open(x) =>
    /\ rsv[x.res].status = "active"
    /\ rsv[x.res].alloc = x.alloc /\ rsv[x.res].captured = x.flushed
    /\ \A q \in Seqs : q > x.seq => Unextended(x.res, q)
    /\ \A q \in Seqs : q = x.seq + 1 /\ Recorded(x.res, q) => captures[x.res][q] = 0 /\ x.alloc = 0
    /\ SeqPending(x) => x.pend.final /\ x.recovery
BootIsBacked(k) ==
  \/ k.reply = "none" /\ OnlyActive(NoReservation)
  \/ /\ k.reply = "ok" /\ OnlyActive(k.value)
     /\ rsv[k.value].captured = 0
FlightIsBacked(x, k) ==
  /\ x.flushed + k.amount <= x.alloc
  /\ IF k.call = "release" /\ k.reply = "ok" THEN TRUE ELSE rsv[x.res].status = "active"
  /\ IF k.call = "capture" /\ k.reply = "none"
     THEN /\ rsv[x.res].captured = x.flushed
          /\ Recorded(x.res, k.seq) => captures[x.res][k.seq] = 0 /\ k.amount = 0
     ELSE rsv[x.res].captured = x.flushed + k.amount
  /\ IF k.call = "extend" /\ k.reply = "ok"
     THEN rsv[x.res].alloc = x.alloc + k.value
     ELSE rsv[x.res].alloc = x.alloc /\ k.value = 0 /\ Unextended(x.res, k.seq)
  /\ \/ k.reply \in {"none", "ok"}
     \/ k.call = "release" /\ k.reply = "refused" /\ x.alloc = 0
Backed(x, k) ==
  /\ RowIsBacked(x)
  /\ k.kind = "none" => OnlyActive(x.res) /\ RestIsBacked(x)
  /\ k.kind = "boot" => BootIsBacked(k)
  /\ k.kind \in {"flush", "close"} => OnlyActive(x.res) /\ FlightIsBacked(x, k)

\* One operation at a time waits for the wallet, and the row fits it.
Alone(t) == \A u \in Slots : u # t => Idle(u)
OneAtATime == \A t, u \in Slots : t # u => Idle(t) \/ Idle(u)
Sound(x, k, s) ==
  /\ Fits(x, k)
  /\ CostsAreNat => Pays(x, s) /\ Seen(x, k) /\ Keyed(x)
  /\ Clean => Backed(x, k)
CalmInv == OneAtATime /\ \A t \in Slots : Alone(t) => Sound(w, task[t], spent)
WindowInv == Calm => CalmInv

-----------------------------------------------------------------------------
(* The row changes, the wallet does not.                                   *)

LEMMA SpendsFits ==
  ASSUME NEW x \in Row, NEW y \in Row, NEW k, Spends(x, y), Fits(x, k)
  PROVE  Fits(y, k)
<1>1. /\ y.res = x.res /\ y.alloc = x.alloc /\ y.flushed = x.flushed /\ y.seq = x.seq
      /\ y.deleting = x.deleting /\ y.pend = x.pend /\ y.inFlight = x.inFlight
      /\ y.recovery = x.recovery
  BY DEF Spends, SameBesides
<1>2. RowIsNext(y)
  BY <1>1 DEF Fits, RowIsNext, Open, SeqPending
<1>3. k.kind \in {"flush", "close"} => InFlight(y, k)
  BY <1>1 DEF Fits, InFlight, Open
<1> QED
  BY <1>1, <1>2, <1>3 DEF Fits, Open

LEMMA AheadTypes ==
  ASSUME TypeOK, NEW x \in Row
  PROVE  Ahead(x) \in Nat
<1>1. CASE Open(x) /\ x.seq < MaxSeq
  <2>1. x.res \in Reservations /\ x.seq + 1 \in Seqs
    BY <1>1, RowTypes, BoundsAssumption DEF Open, NoReservation, Reservations, Seqs
  <2>2. captures[x.res][x.seq + 1] \in Nat \cup {NotRecorded}
    BY <2>1 DEF TypeOK
  <2> QED
    BY <1>1, <2>2 DEF Ahead, Greatest, NotRecorded
<1> QED
  BY <1>1 DEF Ahead

LEMMA SpendsPays ==
  ASSUME NEW x \in Row, NEW y \in Row, TypeOK, CostsAreNat, Spends(x, y), Pays(x, spent)
  PROVE  Pays(y, spent')
<1>1. /\ y.res = x.res /\ y.flushed = x.flushed /\ y.seq = x.seq /\ y.pend = x.pend
      /\ y.consumed >= x.consumed /\ spent' \in Int
      /\ spent' >= spent + (y.consumed - x.consumed)
  BY DEF Spends, SameBesides
<1>2. Ahead(y) = Ahead(x)
  BY <1>1 DEF Ahead, Open
<1>3. PICK a \in Nat : a = Ahead(x)
  BY AheadTypes
<1>4. x.flushed + a <= y.consumed /\ charged + (y.consumed - x.flushed - a) <= spent'
  BY <1>1, <1>3, RowTypes DEF Pays, TypeOK
<1>5. SeqPending(y) => y.flushed + y.pend.amount <= y.consumed
  BY <1>1, RowTypes DEF Pays, SeqPending
<1> QED
  BY <1>1, <1>2, <1>3, <1>4, <1>5 DEF Pays

LEMMA SpendsKeyed ==
  ASSUME NEW x \in Row, NEW y \in Row, NEW k \in Task, CostsAreNat, Spends(x, y),
         Seen(x, k), Keyed(x)
  PROVE  Seen(y, k) /\ Keyed(y)
<1>1. /\ y.res = x.res /\ y.flushed = x.flushed /\ y.seq = x.seq /\ y.pend = x.pend
      /\ y.inFlight = x.inFlight /\ y.recovery = x.recovery /\ y.consumed >= x.consumed
  BY DEF Spends, SameBesides
<1>2. Seen(y, k)
  <2>1. k.snap.consumed \in Nat
    BY DEF Task, Row
  <2> QED
    BY <1>1, <2>1, RowTypes DEF Seen
<1>3. Keyed(y)
  BY <1>1 DEF Keyed, FitsKey, SeqPending, Open
<1> QED
  BY <1>2, <1>3

LEMMA SpendsBacked ==
  ASSUME NEW x \in Row, NEW y \in Row, NEW k, Spends(x, y), Backed(x, k)
  PROVE  Backed(y, k)
<1>1. /\ y.res = x.res /\ y.alloc = x.alloc /\ y.flushed = x.flushed /\ y.seq = x.seq
      /\ y.pend = x.pend /\ y.recovery = x.recovery
      /\ y.consumed <= x.consumed \/ y.consumed <= x.alloc \/ y.consumed <= x.flushed
  BY DEF Spends, SameBesides
<1>2. RowIsBacked(y)
  BY <1>1, RowTypes DEF Backed, RowIsBacked, Open
<1>3. k.kind = "none" => RestIsBacked(y)
  BY <1>1 DEF Backed, RestIsBacked, Open, SeqPending
<1>4. k.kind \in {"flush", "close"} => FlightIsBacked(y, k)
  BY <1>1 DEF Backed, FlightIsBacked
<1> QED
  BY <1>1, <1>2, <1>3, <1>4 DEF Backed

LEMMA SendsFits ==
  ASSUME NEW y \in Row, NEW z \in Row, NEW k \in Task, NEW idle,
         Sends(y, z, k, FALSE), Fits(y, idle)
  PROVE  Fits(z, k)
<1>1. /\ z.res = y.res /\ z.alloc = y.alloc /\ z.flushed = y.flushed /\ z.seq = y.seq
      /\ z.deleting = y.deleting /\ z.inFlight /\ Open(y)
      /\ z.pend.final \in BOOLEAN
  BY RowTypes DEF Sends, SameBesides
<1>2. z.pend.seq = y.seq + 1
  BY DEF Sends, Fits, RowIsNext
<1>3. RowIsNext(z)
  BY <1>1, <1>2 DEF Fits, RowIsNext, Open, SeqPending
<1>4. InFlight(z, k)
  BY <1>1, <1>2 DEF Sends, InFlight, Open
<1>5. k.kind \in {"flush", "close"}
  BY DEF Sends
<1> QED
  BY <1>1, <1>3, <1>4, <1>5 DEF Fits

LEMMA SendsPays ==
  ASSUME NEW y \in Row, NEW z \in Row, NEW k, NEW s, TypeOK, Sends(y, z, k, FALSE), Pays(y, s)
  PROVE  Pays(z, s)
<1>1. /\ z.res = y.res /\ z.flushed = y.flushed /\ z.seq = y.seq /\ z.consumed = y.consumed
      /\ z.pend.amount = Unflushed(y) \/ (SeqPending(y) /\ z.pend.amount = y.pend.amount)
  BY DEF Sends, SameBesides
<1>2. Ahead(z) = Ahead(y)
  BY <1>1 DEF Ahead, Open
<1>3. PICK a \in Nat : a = Ahead(y)
  BY AheadTypes
<1>4. y.flushed <= y.consumed
  BY <1>3, RowTypes DEF Pays
<1>5. z.flushed + z.pend.amount <= z.consumed
  BY <1>1, <1>4, RowTypes DEF Pays, Unflushed, Greatest
<1> QED
  BY <1>1, <1>2, <1>5 DEF Pays

LEMMA SendsKeyed ==
  ASSUME NEW y \in Row, NEW z \in Row, NEW k \in Task, NEW idle, NEW s, TypeOK,
         Sends(y, z, k, FALSE), Fits(y, idle), Pays(y, s), Keyed(y)
  PROVE  Seen(z, k) /\ Keyed(z)
<1>1. /\ z.res = y.res /\ z.flushed = y.flushed /\ z.seq = y.seq /\ z.consumed = y.consumed
      /\ z.recovery = y.recovery /\ z.inFlight /\ Open(y) /\ ~y.inFlight
      /\ k.snap = z /\ k.amount = z.pend.amount
  BY DEF Sends, SameBesides
<1>2. z.pend.seq = y.seq + 1 /\ SeqPending(z)
  BY <1>1, RowTypes DEF Sends, Fits, RowIsNext, SeqPending
<1>3. Seen(z, k)
  <2>1. Pays(z, s)
    BY SendsPays
  <2> QED
    BY <1>1, <1>2, <2>1, RowTypes DEF Seen, Pays
<1>4. ASSUME ~z.recovery, NEW q \in Seqs, q = z.seq + 1
      PROVE  FitsKey(z, q)
  <2>1. PICK r \in Reservations : r = y.res
    BY <1>1, RowTypes, BoundsAssumption DEF Open, NoReservation, Reservations
  <2>2. PICK c \in Nat \cup {-1} : c = captures[r][q]
    BY DEF TypeOK, NotRecorded
  <2>3. IF SeqPending(y) THEN FitsKey(y, q) ELSE Blank(r, q)
    BY <1>1, <1>4, <2>1 DEF Keyed
  <2>4. CASE ~SeqPending(y)
    BY <1>1, <2>1, <2>3, <2>4 DEF FitsKey, Blank, Recorded
  <2>5. CASE SeqPending(y)
    <3>1. FitsKey(y, q) /\ ~y.pend.final
      BY <1>1, <2>3, <2>5 DEF FitsKey
    <3>2. CASE z.pend.amount = y.pend.amount /\ z.pend.final = y.pend.final
               /\ z.pend.refill = y.pend.refill
      BY <1>1, <3>1, <3>2 DEF FitsKey
    <3>3. CASE z.pend.amount = Unflushed(y) /\ z.pend.refill = 0 /\ ~z.pend.final
      <4>1. y.pend.amount <= z.pend.amount
        <5>1. y.flushed + y.pend.amount <= y.consumed
          BY <2>5 DEF Pays
        <5> QED
          BY <3>3, <5>1, RowTypes DEF Unflushed, Greatest
      <4>2. c = -1 \/ c = z.pend.amount \/ c < z.pend.amount
        BY <2>1, <2>2, <3>1, <4>1, RowTypes DEF FitsKey, NotRecorded
      <4> QED
        BY <1>1, <2>1, <2>2, <3>3, <4>2 DEF FitsKey, NotRecorded
    <3> QED
      BY <1>1, <1>4, <2>5, <3>1, <3>2, <3>3 DEF Sends
  <2> QED
    BY <2>4, <2>5
<1> QED
  BY <1>2, <1>3, <1>4 DEF Keyed

LEMMA SendsBacked ==
  ASSUME NEW y \in Row, NEW z \in Row, NEW k \in Task, NEW idle, idle.kind = "none",
         Sends(y, z, k, FALSE), Fits(y, idle), Backed(y, idle), TypeOK
  PROVE  Backed(z, k)
<1>1. /\ z.res = y.res /\ z.alloc = y.alloc /\ z.flushed = y.flushed /\ z.seq = y.seq
      /\ z.consumed = y.consumed /\ Open(y)
  BY DEF Sends, SameBesides
<1>2. RowIsBacked(y) /\ OnlyActive(y.res) /\ RestIsBacked(y)
  BY DEF Backed
<1>3. RowIsBacked(z)
  BY <1>1, <1>2 DEF RowIsBacked, Open
<1>4. k.seq = y.seq + 1 /\ y.seq < MaxSeq
  <2>1. z.pend.seq = y.seq + 1 /\ z.pend.seq <= MaxSeq
    BY RowTypes DEF Sends, Fits, RowIsNext
  <2> QED
    BY <2>1, RowTypes, BoundsAssumption DEF Sends
<1>5. k.seq \in Seqs
  BY <1>4, RowTypes, BoundsAssumption DEF Seqs
<1>6. /\ k.call = "capture" /\ k.reply = "none" /\ k.value = 0 /\ k.kind \in {"flush", "close"}
  BY DEF Sends
<1>7. y.consumed <= y.alloc /\ y.flushed <= y.alloc
  BY <1>1, <1>2 DEF RowIsBacked
<1>8. CASE k.amount = Unflushed(y)
  <2>1. y.flushed + k.amount <= y.alloc
    BY <1>7, <1>8, RowTypes DEF Unflushed, Greatest
  <2>2. Recorded(y.res, k.seq) => captures[y.res][k.seq] = 0 /\ y.alloc = 0
    BY <1>1, <1>2, <1>4, <1>5 DEF RestIsBacked
  <2>3. y.alloc = 0 => k.amount = 0
    BY <1>7, <1>8, RowTypes DEF Unflushed, Greatest
  <2>4. Unextended(y.res, k.seq)
    BY <1>1, <1>2, <1>4, <1>5, RowTypes DEF RestIsBacked
  <2>5. FlightIsBacked(z, k)
    BY <1>1, <1>2, <1>6, <2>1, <2>2, <2>3, <2>4 DEF FlightIsBacked, RestIsBacked
  <2> QED
    BY <1>1, <1>2, <1>3, <1>6, <2>5 DEF Backed
<1>9. CASE k.amount # Unflushed(y)
  <2>1. SeqPending(y) /\ z.pend.final = y.pend.final /\ (z.pend.final => FALSE)
    BY <1>9 DEF Sends
  <2> QED
    BY <1>1, <1>2, <2>1 DEF RestIsBacked
<1> QED
  BY <1>8, <1>9

LEMMA IdleSound ==
  ASSUME NEW j, NEW k, j.kind = "none", k.kind = "none", Sound(w, k, spent)'
  PROVE  Sound(w, j, spent)'
BY DEF Sound, Fits, Seen, Backed

\* The one operation under way is t, and it becomes k.
LEMMA SoloCalm ==
  ASSUME NEW t \in Slots, NEW k \in Task, TypeOK, Alone(t), Becomes(t, k), Sound(w, k, spent)'
  PROVE  CalmInv'
<1>1. task' = [task EXCEPT ![t] = k] /\ task \in [Slots -> Task]
  BY DEF Becomes, TypeOK
<1>2. \A u \in Slots : u # t => task'[u] = task[u] /\ task[u].kind = "none"
  BY <1>1 DEF Alone, Idle
<1>3. task'[t] = k
  BY <1>1
<1>4. OneAtATime'
  BY <1>2 DEF OneAtATime, Idle
<1>5. ASSUME NEW v \in Slots, Alone(v)' PROVE Sound(w, task[v], spent)'
  <2>1. CASE v = t
    BY <1>3, <2>1
  <2>2. CASE v # t
    <3>1. k.kind = "none"
      BY <1>3, <1>5, <2>2 DEF Alone, Idle
    <3>2. PICK j : j = task'[v] /\ j.kind = "none"
      BY <1>2, <2>2
    <3>3. Sound(w, j, spent)'
      BY <3>1, <3>2, IdleSound
    <3> QED
      BY <3>2, <3>3
  <2> QED
    BY <2>1, <2>2
<1> QED
  BY <1>4, <1>5 DEF CalmInv

LEMMA SoundKept ==
  ASSUME NEW x, NEW k, w' = x, UNCHANGED walletVars, Clean' => Clean,
         Sound(x, k, spent')
  PROVE  Sound(w, k, spent)'
<1>1. UNCHANGED <<rsv, captures, extends, releases, charged>>
  BY DEF walletVars
<1>2. Fits(w, k)'
  BY <1>1 DEF Sound, Fits, RowIsNext, InFlight, FoundOther, Blank, Recorded, Unextended
<1>3. CostsAreNat => (Pays(w, spent) /\ Seen(w, k) /\ Keyed(w))'
  BY <1>1 DEF Sound, Pays, Ahead, Seen, Keyed, FitsKey, Blank, Recorded, Unextended
<1>4. Clean' => Backed(w, k)'
  BY <1>1 DEF Sound, Backed, RowIsBacked, OnlyActive, RestIsBacked, BootIsBacked, FlightIsBacked,
              Unextended, Recorded
<1> QED
  BY <1>2, <1>3, <1>4 DEF Sound

\* Handling a row keeps the invariant, if the row was sound with nothing under way.
LEMMA HandlesCalm ==
  ASSUME NEW t \in Slots, NEW x \in Row, TypeOK, Alone(t), Resumes(t, x),
         Clean' => Clean, Sound(x, NoTask, spent)
  PROVE  CalmInv'
<1>1. PICK y \in Row, z \in Row, k \in Task : Spends(x, y) /\ Turns(t, y, z, k, FALSE)
  BY DEF Resumes, Handles
<1>2. w' = z /\ Becomes(t, k) /\ ((z = y /\ k = NoTask) \/ Sends(y, z, k, FALSE))
  BY <1>1 DEF Turns, Becomes
<1>3. Sound(y, NoTask, spent')
  BY <1>1, EmptyTypes, SpendsFits, SpendsPays, SpendsKeyed, SpendsBacked DEF Sound
<1>4. Sound(z, k, spent')
  <2>1. CASE z = y /\ k = NoTask
    BY <1>3, <2>1
  <2>2. CASE Sends(y, z, k, FALSE)
    <3>1. PICK idle : idle = NoTask /\ idle.kind = "none"
      BY EmptyTypes
    <3>2. Sound(y, idle, spent')
      BY <1>3, <3>1
    <3>3. Fits(z, k)
      BY <2>2, <3>2, SendsFits DEF Sound
    <3>4. CostsAreNat => Pays(z, spent') /\ Seen(z, k) /\ Keyed(z)
      BY <2>2, <3>2, SendsPays, SendsKeyed DEF Sound
    <3>5. Clean => Backed(z, k)
      BY <2>2, <3>1, <3>2, SendsBacked DEF Sound
    <3> QED
      BY <3>3, <3>4, <3>5 DEF Sound
  <2> QED
    BY <1>2, <2>1, <2>2
<1>5. Sound(w, k, spent)'
  BY <1>2, <1>4, SoundKept DEF Resumes
<1> QED
  BY <1>2, <1>5, SoloCalm

\* An event, or a flush for another reason, while another operation is under way.
LEMMA BusyArrives ==
  ASSUME NEW t \in Slots, TypeOK, CalmInv, Arrives(t), ~Alone(t), Clean' => Clean
  PROVE  CalmInv'
<1>0. w \in Row /\ task \in [Slots -> Task]
  BY DEF TypeOK
<1>1. PICK y \in Row, z \in Row, k \in Task : Spends(w, y) /\ Turns(t, y, z, k, FALSE)
  BY DEF Arrives, Resumes, Handles
<1>2. /\ w' = z /\ task' = [task EXCEPT ![t] = k] /\ ((z = y /\ k = NoTask) \/ Sends(y, z, k, FALSE))
      /\ UNCHANGED walletVars /\ Idle(t)
  BY <1>1 DEF Turns, Arrives, Resumes
<1>3. PICK u \in Slots : u # t /\ ~Idle(u)
  BY DEF Alone
<1>4. Alone(u)
  BY <1>3 DEF CalmInv, OneAtATime, Alone
<1>5. Sound(w, task[u], spent)
  BY <1>4 DEF CalmInv
<1>6. task[u] \in Task /\ task[u].kind \in {"boot", "flush", "close"}
  BY <1>3, TaskTypes DEF Idle
<1>7. Open(w) => w.inFlight
  BY <1>5, <1>6 DEF Sound, Fits, InFlight
<1>8. z = y /\ k = NoTask
  <2>1. y.res = w.res /\ y.inFlight = w.inFlight
    BY <1>1 DEF Spends, SameBesides
  <2>2. ~Sends(y, z, k, FALSE)
    BY <1>7, <2>1 DEF Sends, Open
  <2> QED
    BY <1>2, <2>2
<1>9. Sound(w, task[u], spent)'
  <2>1. PICK j \in Task : j = task[u]
    BY <1>6
  <2>2. Sound(y, j, spent')
    BY <1>0, <1>1, <1>5, <2>1, SpendsFits, SpendsPays, SpendsKeyed, SpendsBacked DEF Sound
  <2>3. Sound(w, j, spent)'
    BY <1>2, <1>8, <2>2, SoundKept
  <2>4. task'[u] = j
    BY <1>0, <1>2, <1>3, <2>1
  <2> QED
    BY <2>3, <2>4
<1>10. \A v \in Slots : v # t => task'[v] = task[v]
  BY <1>0, <1>2
<1>11. task'[t].kind = "none"
  BY <1>0, <1>2, <1>8, EmptyTypes
<1>12. OneAtATime'
  BY <1>10, <1>11 DEF CalmInv, OneAtATime, Idle
<1>13. \A v \in Slots : Alone(v)' => v = u
  BY <1>3, <1>10 DEF Alone, Idle
<1> QED
  BY <1>9, <1>12, <1>13 DEF CalmInv

-----------------------------------------------------------------------------
(* Going on with an answer leaves a row that is sound with nothing under   *)
(* way.                                                                    *)

LEMMA BootFailedSound ==
  ASSUME NEW k, NEW idle, idle.kind = "none", k.kind = "boot", k.reply \in Errors,
         Sound(w, k, spent)
  PROVE  Sound(w, idle, spent)
<1>1. Fits(w, idle)
  BY DEF Sound, Fits, RowIsNext
<1>2. ~Clean
  BY DEF Sound, Backed, BootIsBacked, Errors
<1> QED
  BY <1>1, <1>2 DEF Sound, Seen

LEMMA OpensFits ==
  ASSUME NEW x \in Row, NEW k \in Task, NEW idle, idle.kind = "none", TypeOK,
         k.kind = "boot", k.reply \in {"ok", "reused"}, k.value \in Reservations,
         Opens(x, k), Fits(w, k)
  PROVE  Fits(x, idle)
<1>1. /\ rsv[k.value].status = "active" /\ ~Open(w) /\ ~w.inFlight /\ ~SeqPending(w) /\ ~w.deleting
      /\ k.value # w.res
  BY BoundsAssumption DEF Fits, RowIsNext, Open, NoReservation, Reservations
<1>2. /\ x.res = k.value /\ x.deleting = w.deleting /\ ~x.inFlight
      /\ \/ x.seq = w.seq /\ x.pend = w.pend
         \/ x.seq = 0 /\ x.pend = NoFlush
  BY <1>1 DEF Opens
<1>3. ~SeqPending(x)
  BY <1>1, <1>2 DEF SeqPending, NoFlush
<1>4. \A r \in Reservations : r # w.res /\ rsv[r].status # "reconciled" =>
        \A q \in Seqs : Blank(r, q)
  BY DEF Fits, RowIsNext
<1>5. \A q \in Seqs : Blank(x.res, q)
  BY <1>1, <1>2, <1>4
<1>6. \A r \in Reservations : r # w.res
  BY <1>1, BoundsAssumption DEF Open, NoReservation, Reservations
<1> QED
  BY <1>1, <1>2, <1>3, <1>4, <1>5, <1>6 DEF Fits, RowIsNext

LEMMA NothingAhead ==
  ASSUME NEW x \in Row, \A q \in Seqs : q > x.seq => ~Recorded(x.res, q)
  PROVE  Ahead(x) = 0
<1>1. CASE Open(x) /\ x.seq < MaxSeq
  <2>1. x.seq + 1 \in Seqs /\ x.seq + 1 > x.seq
    BY <1>1, RowTypes, BoundsAssumption DEF Seqs
  <2>2. captures[x.res][x.seq + 1] = -1
    BY <2>1 DEF Recorded, NotRecorded
  <2> QED
    BY <2>2 DEF Ahead, Greatest
<1> QED
  BY <1>1 DEF Ahead

LEMMA OpensPays ==
  ASSUME NEW x \in Row, NEW k \in Task, TypeOK,
         k.kind = "boot", k.reply \in {"ok", "reused"}, k.value \in Reservations,
         Opens(x, k), Fits(w, k), Pays(w, spent)
  PROVE  Pays(x, spent)
<1>1. /\ rsv[k.value].status = "active" /\ ~Open(w) /\ ~SeqPending(w) /\ k.value # w.res
  BY BoundsAssumption DEF Fits, RowIsNext, Open, NoReservation, Reservations
<1>2. Ahead(x) = 0
  <2>1. \A q \in Seqs : ~Recorded(k.value, q)
    BY <1>1 DEF Fits, RowIsNext, Blank
  <2>2. x.res = k.value
    BY DEF Opens
  <2> QED
    BY <2>1, <2>2, NothingAhead
<1>3. Ahead(w) = 0
  BY <1>1 DEF Ahead
<1>4. w \in Row /\ charged \in Nat /\ spent \in Int
  BY DEF TypeOK
<1>5. w.flushed <= w.consumed /\ charged + (w.consumed - w.flushed) <= spent
  BY <1>3, <1>4, RowTypes DEF Pays
<1>6. /\ \/ x.consumed = w.consumed /\ x.flushed = w.flushed /\ x.seq = w.seq /\ x.pend = w.pend
         \/ x.consumed = 0 /\ x.flushed = 0 /\ x.seq = 0 /\ x.pend = NoFlush
  BY DEF Opens
<1>7. ~SeqPending(x)
  BY <1>1, <1>6 DEF SeqPending, NoFlush
<1> QED
  BY <1>2, <1>4, <1>5, <1>6, <1>7, RowTypes DEF Pays

LEMMA OpensKeyed ==
  ASSUME NEW x \in Row, NEW k \in Task, NEW idle, idle.kind = "none", TypeOK,
         k.kind = "boot", k.reply \in {"ok", "reused"}, k.value \in Reservations,
         Opens(x, k), Fits(w, k)
  PROVE  Seen(x, idle) /\ Keyed(x)
<1>1. rsv[k.value].status = "active" /\ ~SeqPending(w) /\ k.value # w.res
  BY BoundsAssumption DEF Fits, RowIsNext, Open, NoReservation, Reservations
<1>2. \A q \in Seqs : Blank(x.res, q)
  BY <1>1 DEF Fits, RowIsNext, Opens
<1>3. ~SeqPending(x)
  BY <1>1 DEF Opens, SeqPending, NoFlush
<1> QED
  BY <1>2, <1>3 DEF Seen, Keyed

LEMMA OpensBacked ==
  ASSUME NEW x \in Row, NEW k \in Task, NEW idle, idle.kind = "none", TypeOK,
         k.kind = "boot", k.reply \in {"ok", "reused"}, k.value \in Reservations,
         Opens(x, k), Fits(w, k), Backed(w, k)
  PROVE  Backed(x, idle)
<1>1. /\ rsv[k.value].status = "active" /\ k.value # w.res
  BY BoundsAssumption DEF Fits, RowIsNext, Open, NoReservation, Reservations
<1>2. \A q \in Seqs : ~Recorded(k.value, q) /\ Unextended(k.value, q)
  BY <1>1 DEF Fits, RowIsNext, Blank
<1>3. k.reply = "ok" /\ OnlyActive(k.value) /\ rsv[k.value].captured = 0
  BY DEF Backed, BootIsBacked
<1>4. /\ x.res = k.value /\ x.alloc = rsv[k.value].alloc
      /\ x.consumed = 0 /\ x.flushed = 0 /\ x.seq = 0 /\ x.pend = NoFlush
  BY <1>3 DEF Opens
<1>5. RowIsBacked(x)
  BY <1>4, RowTypes DEF RowIsBacked
<1>6. RestIsBacked(x)
  BY <1>1, <1>2, <1>3, <1>4 DEF RestIsBacked, SeqPending, NoFlush
<1> QED
  BY <1>3, <1>4, <1>5, <1>6 DEF Backed

LEMMA GroundedSound ==
  ASSUME NEW x \in Row, NEW k \in Task, NEW idle, idle.kind = "none", TypeOK, Shaped(k),
         k.kind \in {"flush", "close"}, k.reply \in Errors, Grounded(x, k), Sound(w, k, spent)
  PROVE  Sound(x, idle, spent)
<1>0. w \in Row
  BY DEF TypeOK
<1>1. /\ x.res = w.res /\ x.alloc = w.alloc /\ x.flushed = w.flushed /\ x.seq = w.seq
      /\ x.deleting = w.deleting /\ x.consumed = w.consumed /\ x.pend = w.pend /\ ~x.inFlight
      /\ x.recovery = (w.recovery \/ k.kind = "close")
  BY DEF Grounded
<1>2. Fits(x, idle)
  BY <1>1 DEF Sound, Fits, RowIsNext, Open, SeqPending
<1>3. CostsAreNat => Pays(x, spent) /\ Seen(x, idle) /\ Keyed(x)
  <2>1. CostsAreNat => Pays(x, spent) /\ Seen(x, idle)
    BY <1>1 DEF Sound, Pays, Ahead, Seen, Open, SeqPending
  <2>2. ASSUME CostsAreNat, ~x.recovery PROVE Keyed(x)
    <3>1. ~w.pend.final /\ ~w.recovery
      BY <1>1, <2>2 DEF Sound, Fits, InFlight
    <3> QED
      BY <1>1, <2>2, <3>1 DEF Sound, Keyed, FitsKey, Open, SeqPending
  <2> QED
    BY <2>1, <2>2 DEF Keyed
<1>4. ASSUME Clean PROVE Backed(x, idle)
  <2>1. InFlight(w, k) /\ RowIsBacked(w) /\ OnlyActive(w.res) /\ FlightIsBacked(w, k)
    BY <1>4 DEF Sound, Fits, Backed
  <2>2. k.call = "release" /\ k.reply = "refused" /\ w.alloc = 0 /\ k.kind = "close"
    BY <2>1 DEF FlightIsBacked, Errors, Shaped
  <2>3. /\ w.flushed = 0 /\ k.amount = 0
    BY <1>0, <2>1, <2>2, RowTypes DEF FlightIsBacked, Task
  <2>4. /\ rsv[w.res].status = "active" /\ rsv[w.res].captured = 0 /\ rsv[w.res].alloc = 0
        /\ Unextended(w.res, k.seq)
    BY <2>1, <2>2, <2>3 DEF FlightIsBacked
  <2>5. /\ w.pend.final /\ k.seq = w.seq + 1 /\ captures[w.res][k.seq] = 0
    BY <2>1, <2>2, <2>3 DEF InFlight
  <2>6. \A q \in Seqs : q > x.seq => Unextended(x.res, q)
    <3>1. \A q \in Seqs : q > w.seq + 1 => Unextended(w.res, q)
      BY <2>1 DEF Sound, Fits, RowIsNext, InFlight, Blank
    <3>2. w.seq \in Nat
      BY <1>0, RowTypes
    <3>3. \A q \in Seqs : q > w.seq => q = w.seq + 1 \/ q > w.seq + 1
      BY <3>2 DEF Seqs
    <3> QED
      BY <1>1, <2>4, <2>5, <3>1, <3>3
  <2>7. RestIsBacked(x)
    BY <1>1, <2>2, <2>3, <2>4, <2>5, <2>6 DEF RestIsBacked
  <2>8. RowIsBacked(x)
    BY <1>1, <2>1 DEF RowIsBacked, Open
  <2> QED
    BY <1>1, <2>1, <2>7, <2>8 DEF Backed
<1> QED
  BY <1>2, <1>3, <1>4 DEF Sound

LEMMA BookedSound ==
  ASSUME NEW x \in Row, NEW k \in Task, NEW idle, idle.kind = "none", TypeOK, Shaped(k),
         k.kind = "flush", k.call \in {"capture", "extend"}, k.reply \in {"ok", "reused"},
         Booked(x, k), Sound(w, k, spent)
  PROVE  Sound(x, idle, spent)
<1>0. w \in Row /\ k.amount \in Nat /\ k.value \in Nat /\ charged \in Nat /\ spent \in Int
  BY DEF TypeOK, Task
<1>1. Fits(w, k) /\ InFlight(w, k) /\ RowIsNext(w)
  BY DEF Sound, Fits
<1>2. /\ x.res = w.res /\ x.alloc = w.alloc + k.value /\ x.flushed = w.flushed + k.amount
      /\ x.seq = w.seq + 1 /\ x.deleting = w.deleting /\ x.consumed = w.consumed
      /\ x.pend = NoFlush /\ ~x.inFlight /\ Open(w) /\ k.seq = w.seq + 1
      /\ captures[w.res][k.seq] = k.amount /\ k.reply = "ok"
  BY <1>1 DEF Booked, InFlight
<1>3. k.seq \in Seqs /\ w.seq < MaxSeq
  BY <1>0, <1>2, RowTypes, BoundsAssumption DEF Shaped, Seqs
<1>4. ~SeqPending(x)
  BY <1>2, RowTypes DEF SeqPending, NoFlush
<1>5. \A q \in Seqs : q > x.seq => Blank(x.res, q) /\ ~Recorded(x.res, q)
  BY <1>1, <1>2 DEF RowIsNext, Blank
<1>6. Fits(x, idle)
  <2>1. \A q \in Seqs : q > x.seq + 1 => q > x.seq
    BY RowTypes DEF Seqs
  <2> QED
    BY <1>1, <1>2, <1>4, <1>5, <2>1 DEF Fits, RowIsNext, Open
<1>7. ASSUME CostsAreNat PROVE Pays(x, spent) /\ Seen(x, idle) /\ Keyed(x)
  <2>1. Ahead(w) = k.amount
    BY <1>0, <1>2, <1>3 DEF Ahead, Greatest
  <2>2. Ahead(x) = 0
    BY <1>5, NothingAhead
  <2>3. w.flushed + k.amount <= w.consumed /\ charged + (w.consumed - w.flushed - k.amount) <= spent
    BY <1>7, <2>1 DEF Sound, Pays
  <2>4. \A q \in Seqs : q = x.seq + 1 => Blank(x.res, q)
    BY <1>5, RowTypes
  <2> QED
    BY <1>0, <1>2, <1>4, <2>2, <2>3, <2>4, RowTypes DEF Pays, Seen, Keyed
<1>8. ASSUME Clean PROVE Backed(x, idle)
  <2>1. RowIsBacked(w) /\ OnlyActive(w.res) /\ FlightIsBacked(w, k)
    BY <1>8 DEF Sound, Backed
  <2>2. rsv[w.res].status = "active" /\ rsv[w.res].captured = w.flushed + k.amount
    BY <1>2, <2>1 DEF FlightIsBacked
  <2>3. rsv[w.res].alloc = w.alloc + k.value
    BY <1>0, <2>1, RowTypes DEF FlightIsBacked
  <2>4. \A q \in Seqs : q > x.seq => Unextended(x.res, q)
    BY <1>5 DEF Blank
  <2>5. RestIsBacked(x)
    BY <1>2, <1>4, <1>5, <2>2, <2>3, <2>4, RowTypes DEF RestIsBacked
  <2>6. RowIsBacked(x)
    <3>1. x.consumed <= x.alloc /\ x.flushed <= x.alloc
      BY <1>0, <1>2, <2>1, RowTypes DEF RowIsBacked, FlightIsBacked
    <3> QED
      BY <3>1 DEF RowIsBacked
  <2> QED
    BY <1>2, <2>1, <2>5, <2>6 DEF Backed
<1> QED
  BY <1>6, <1>7, <1>8 DEF Sound

LEMMA ShutsSound ==
  ASSUME NEW x \in Row, NEW k \in Task, NEW idle, idle.kind = "none", TypeOK, Shaped(k),
         k.kind = "close", (k.call = "release" /\ k.reply = "ok") \/ k.reply = "reconciled",
         Shuts(x, k), Sound(w, k, spent)
  PROVE  Sound(x, idle, spent)
<1>0. w \in Row /\ k.amount \in Nat /\ charged \in Nat /\ spent \in Int /\ k.snap.consumed \in Nat
  BY DEF TypeOK, Task, Row
<1>1. Fits(w, k) /\ InFlight(w, k) /\ RowIsNext(w)
  BY DEF Sound, Fits
<1>2. /\ x.res = NoReservation /\ x.deleting = w.deleting /\ x.consumed = w.consumed
      /\ x.flushed = IF k.reply = "reconciled" THEN Greatest(w.flushed, k.snap.consumed)
                     ELSE w.flushed + k.amount
      /\ x.pend = NoFlush /\ ~x.inFlight /\ Open(w) /\ k.seq = w.seq + 1
      /\ rsv[w.res].status = "reconciled" /\ (k.call = "release" => captures[w.res][k.seq] = k.amount)
  BY <1>1 DEF Shuts, InFlight, Errors
<1>3. ~SeqPending(x) /\ ~Open(x)
  BY <1>2, RowTypes DEF SeqPending, NoFlush, Open
<1>4. Fits(x, idle)
  BY <1>1, <1>2, <1>3 DEF Fits, RowIsNext
<1>5. ASSUME CostsAreNat PROVE Pays(x, spent) /\ Seen(x, idle) /\ Keyed(x)
  <2>0. k.call \in {"capture", "release"}
    BY DEF Shaped, Task
  <2>1. k.seq \in Seqs /\ w.seq < MaxSeq
    <3>1. k.seq \in Seqs
      BY <2>0 DEF Shaped
    <3> QED
      BY <1>0, <1>2, <3>1, RowTypes, BoundsAssumption DEF Seqs
  <2>2. captures[w.res][k.seq] \in {NotRecorded, k.amount}
    <3>1. CASE k.call = "release"
      BY <1>2, <3>1
    <3>2. CASE k.call = "capture"
      <4>1. k.reply = "reconciled"
        BY <3>2
      <4>2. captures[w.res][w.seq + 1] = NotRecorded
        BY <1>1, <1>2, <3>2, <4>1 DEF InFlight
      <4> QED
        BY <1>2, <4>2
    <3> QED
      BY <2>0, <3>1, <3>2
  <2>3. Ahead(w) \in {0, k.amount}
    BY <1>0, <1>2, <2>1, <2>2 DEF Ahead, Greatest, NotRecorded
  <2>4. /\ w.flushed + Ahead(w) <= w.consumed
        /\ charged + (w.consumed - w.flushed - Ahead(w)) <= spent
        /\ k.snap.consumed <= w.consumed /\ w.flushed + k.amount <= k.snap.consumed
    BY <1>5 DEF Sound, Pays, Seen
  <2>5. x.flushed >= w.flushed + Ahead(w) /\ x.flushed <= x.consumed
    BY <1>0, <1>2, <2>3, <2>4, RowTypes DEF Greatest
  <2>6. Ahead(x) = 0
    BY <1>3 DEF Ahead
  <2> QED
    BY <1>0, <1>2, <1>3, <2>3, <2>4, <2>5, <2>6, RowTypes DEF Pays, Seen, Keyed
<1>6. ASSUME Clean PROVE Backed(x, idle)
  <2>1. RowIsBacked(w) /\ OnlyActive(w.res)
    BY <1>6 DEF Sound, Backed
  <2>2. OnlyActive(x.res)
    BY <1>2, <2>1 DEF OnlyActive
  <2> QED
    BY <1>3, <2>1, <2>2 DEF Backed, RowIsBacked, RestIsBacked
<1> QED
  BY <1>4, <1>5, <1>6 DEF Sound

LEMMA CallsSound ==
  ASSUME NEW k \in Task, NEW j \in Task, Shaped(k), SameJob(k, j),
         k.call = "capture", k.reply \in {"ok", "reused"}, j.call \in {"extend", "release"},
         j.reply = "none", j.value = 0, k.kind \in {"flush", "close"},
         j.call = "extend" => k.refill > 0, Sound(w, k, spent)
  PROVE  Sound(w, j, spent)
<1>1. InFlight(w, k) /\ k.reply = "ok"
  BY DEF Sound, Fits, InFlight
<1>2. InFlight(w, j)
  BY <1>1 DEF InFlight, SameJob
<1>3. Fits(w, j)
  BY <1>2 DEF Sound, Fits, SameJob
<1>4. ASSUME Clean PROVE Backed(w, j)
  <2>1. FlightIsBacked(w, j)
    BY <1>1, <1>4 DEF Sound, Backed, FlightIsBacked, SameJob
  <2> QED
    BY <1>4, <2>1 DEF Sound, Backed, SameJob
<1>5. Seen(w, k) => Seen(w, j)
  BY DEF Seen, SameJob
<1> QED
  BY <1>3, <1>4, <1>5 DEF Sound

-----------------------------------------------------------------------------
(* The wallet answers j, or its answer is lost.                            *)

Told(k, j, reply, value) ==
  /\ SameJob(k, j) /\ j.call = k.call
  /\ j.reply = "failed" \/ (j.reply = reply /\ j.value = value)

LEMMA CreateSound ==
  ASSUME TypeOK, NEW k \in Task, NEW j \in Task, NEW reply, NEW r \in Reservations,
         k.kind = "boot", k.reply = "none", Told(k, j, reply, r), Sound(w, k, spent),
         WalletCreate(k.amount, reply, r), UNCHANGED <<w, spent>>,
         Clean' => Clean /\ j.reply # "failed"
  PROVE  Sound(w, j, spent)'
<1>1. j.kind = "boot" /\ ~Open(w) /\ RowIsNext(w)
  BY DEF Told, SameJob, Sound, Fits
<1>2. CASE UNCHANGED walletVars
  <2>1. Fits(w, j)
    <3>1. j.reply \in {"ok", "reused"} => rsv[j.value].status = "active"
      <4>1. CASE reply = "reused" /\ rsv[r].status = "active"
        BY <4>1 DEF Told
      <4>2. CASE rsv' = [rsv EXCEPT ![r] = [status |-> "active", alloc |-> Least(k.amount, funds),
                                            captured |-> 0]] /\ rsv[r].status = "none"
        <5>1. rsv'[r].status = "active"
          BY <4>2 DEF TypeOK
        <5> QED
          BY <1>2, <4>2, <5>1 DEF walletVars
      <4> QED
        BY <4>1, <4>2 DEF WalletCreate
    <3>2. j.reply # "conflict"
      BY DEF Told, WalletCreate
    <3> QED
      BY <1>1, <3>1, <3>2 DEF Fits
  <2>2. Clean' => Backed(w, j)
    <3> SUFFICES ASSUME Clean' PROVE Backed(w, j)
      OBVIOUS
    <3>1. BootIsBacked(k)
      BY DEF Sound, Backed
    <3>2. OnlyActive(NoReservation)
      BY <3>1 DEF BootIsBacked
    <3>3. rsv[r].status # "active"
      BY <3>2, BoundsAssumption DEF OnlyActive, Reservations, NoReservation
    <3>4. rsv' = [rsv EXCEPT ![r] = [status |-> "active", alloc |-> Least(k.amount, funds),
                                     captured |-> 0]]
      BY <3>3 DEF WalletCreate
    <3>5. rsv'[r].status = "active"
      BY <3>4 DEF TypeOK
    <3> QED
      BY <1>2, <3>3, <3>5 DEF walletVars
  <2>3. CostsAreNat => Pays(w, spent) /\ Seen(w, j) /\ Keyed(w)
    BY <1>1 DEF Sound, Seen
  <2>4. UNCHANGED <<rsv, captures, extends, releases, charged>>
    BY <1>2 DEF walletVars
  <2>5. Fits(w, j)'
    BY <2>1, <2>4 DEF Fits, RowIsNext, InFlight, FoundOther, Blank, Recorded, Unextended
  <2>6. CostsAreNat => (Pays(w, spent) /\ Seen(w, j) /\ Keyed(w))'
    BY <2>3, <2>4 DEF Pays, Ahead, Seen, Keyed, FitsKey, Blank, Recorded, Unextended
  <2>7. Clean' => Backed(w, j)'
    BY <2>2, <2>4 DEF Backed, RowIsBacked, OnlyActive, RestIsBacked, BootIsBacked, FlightIsBacked,
                      Unextended, Recorded
  <2> QED
    BY <2>5, <2>6, <2>7 DEF Sound
<1>3. CASE ~UNCHANGED walletVars
  <2> DEFINE new == [status |-> "active", alloc |-> Least(k.amount, funds), captured |-> 0]
  <2>1. new.status = "active" /\ new.captured = 0
    OBVIOUS
  <2>2. /\ rsv[r].status = "none" /\ reply = "ok"
        /\ UNCHANGED <<captures, extends, releases, charged>>
    BY <1>3 DEF WalletCreate
  <2>3. rsv' = [rsv EXCEPT ![r] = new]
    BY <1>3 DEF WalletCreate
  <2> HIDE DEF new
  <2>4. \A q \in Reservations : rsv'[q] = IF q = r THEN new ELSE rsv[q]
    BY <2>3 DEF TypeOK
  <2>5. RowIsNext(w)'
    <3>1. \A q \in Reservations : q # w.res /\ rsv'[q].status # "reconciled" =>
            \A n \in Seqs : Blank(q, n)
      BY <1>1, <2>2, <2>4 DEF RowIsNext
    <3> QED
      BY <1>1, <2>2, <3>1 DEF RowIsNext, Open, SeqPending, Blank, Recorded, Unextended
  <2>6. Fits(w, j)'
    BY <1>1, <2>1, <2>2, <2>4, <2>5 DEF Fits, Open, Told
  <2>7. CostsAreNat => (Pays(w, spent) /\ Seen(w, j) /\ Keyed(w))'
    BY <1>1, <2>2 DEF Sound, Pays, Ahead, Open, SeqPending, Seen, Keyed
  <2>8. ASSUME Clean' PROVE Backed(w, j)'
    <3>1. BootIsBacked(k) /\ RowIsBacked(w)
      BY <2>8 DEF Sound, Backed
    <3>2. OnlyActive(NoReservation)
      BY <3>1 DEF BootIsBacked
    <3>3. \A q \in Reservations : rsv[q].status # "active"
      BY <3>2, BoundsAssumption DEF OnlyActive, Reservations, NoReservation
    <3>4. OnlyActive(r)'
      BY <2>4, <3>3 DEF OnlyActive
    <3>5. j.reply = "ok" /\ j.value = r
      BY <2>2, <2>8 DEF Told
    <3>6. BootIsBacked(j)'
      BY <2>1, <2>2, <2>4, <3>4, <3>5 DEF BootIsBacked
    <3>7. RowIsBacked(w)'
      BY <3>1 DEF RowIsBacked, Open
    <3> QED
      BY <1>1, <3>6, <3>7 DEF Backed
  <2> QED
    BY <2>6, <2>7, <2>8 DEF Sound
<1> QED
  BY <1>2, <1>3

LEMMA WaitingSound ==
  ASSUME TypeOK, NEW k \in Task, NEW j \in Task, NEW reply, k.kind \in {"flush", "close"},
         k.reply = "none", NEW value, Told(k, j, reply, value), Sound(w, k, spent),
         UNCHANGED <<w, spent>>, UNCHANGED walletVars, reply # "reused",
         reply = "reconciled" \/ (reply = "ok" /\ k.call = "release")
           => rsv[w.res].status = "reconciled",
         reply = "reconciled" /\ k.call = "capture" => captures[w.res][k.seq] = NotRecorded,
         reply = "ok" => captures[w.res][k.seq] = k.amount,
         reply = "conflict" => FoundOther(k),
         Clean' => Clean /\ FlightIsBacked(w, j)
  PROVE  Sound(w, j, spent)'
<1>1. Fits(w, k) /\ InFlight(w, k) /\ j.kind = k.kind
  BY DEF Sound, Fits, Told, SameJob
<1>2. InFlight(w, j)
  <2>1. FoundOther(k) => FoundOther(j)
    BY DEF FoundOther, Told, SameJob
  <2> QED
    BY <1>1, <2>1 DEF InFlight, Told, SameJob
<1>3. Fits(w, j)
  BY <1>1, <1>2 DEF Fits
<1>4. Clean' => Backed(w, j)
  BY <1>1 DEF Sound, Backed
<1>5. CostsAreNat => Pays(w, spent) /\ Seen(w, j) /\ Keyed(w)
  BY DEF Sound, Seen, Told, SameJob
<1>6. UNCHANGED <<rsv, captures, extends, releases, charged>>
  BY DEF walletVars
<1>7. Fits(w, j)'
  BY <1>3, <1>6 DEF Fits, RowIsNext, InFlight, FoundOther, Blank, Recorded, Unextended
<1>8. CostsAreNat => (Pays(w, spent) /\ Seen(w, j) /\ Keyed(w))'
  BY <1>5, <1>6 DEF Pays, Ahead, Seen, Keyed, FitsKey, Blank, Recorded, Unextended
<1>9. Clean' => Backed(w, j)'
  BY <1>4, <1>6 DEF Backed, RowIsBacked, OnlyActive, RestIsBacked, BootIsBacked, FlightIsBacked,
                    Unextended, Recorded
<1> QED
  BY <1>7, <1>8, <1>9 DEF Sound

LEMMA CaptureSound ==
  ASSUME TypeOK, NEW k \in Task, NEW j \in Task, NEW reply, k.kind \in {"flush", "close"},
         k.call = "capture", Shaped(k), WalletIsSound,
         k.reply = "none", Told(k, j, reply, 0), Sound(w, k, spent), UNCHANGED <<w, spent>>,
         WalletCapture(k.snap.res, k.seq, k.amount, reply),
         Clean' => Clean /\ j.reply # "failed"
  PROVE  Sound(w, j, spent)'
<1>1. /\ Fits(w, k) /\ InFlight(w, k) /\ RowIsNext(w) /\ j.kind = k.kind /\ j.call = "capture"
      /\ j.seq = k.seq /\ j.amount = k.amount
  BY DEF Sound, Fits, Told, SameJob
<1>2. PICK r \in Reservations, q \in Seqs : r = k.snap.res /\ q = k.seq /\ r = w.res /\ q = w.seq + 1
  BY <1>1 DEF Shaped, InFlight
<1>3. WalletCapture(r, q, k.amount, reply)
  BY <1>2
<1>4. w \in Row /\ k.amount \in Nat /\ charged \in Nat /\ spent \in Int
  BY DEF TypeOK, Task
<1>5. rsv[r].alloc \in Nat /\ rsv[r].captured \in Nat /\ captures[r][q] \in Nat \cup {NotRecorded}
  BY HeldTypes DEF TypeOK, WalletTypes
<1>6. Clean' => /\ FlightIsBacked(w, k) /\ j.reply = reply /\ j.value = 0
                     /\ rsv[r].captured = w.flushed /\ rsv[r].alloc = w.alloc
                     /\ rsv[r].status = "active" /\ k.amount <= HeldBy(r)
  <2>1. SUFFICES ASSUME Clean'
        PROVE  /\ FlightIsBacked(w, k) /\ j.reply = reply /\ j.value = 0
               /\ rsv[r].captured = w.flushed /\ rsv[r].alloc = w.alloc
               /\ rsv[r].status = "active" /\ k.amount <= HeldBy(r)
    OBVIOUS
  <2>2. FlightIsBacked(w, k) /\ j.reply = reply /\ j.value = 0
    BY <2>1 DEF Sound, Backed, Told
  <2>3. rsv[r].captured = w.flushed /\ rsv[r].alloc = w.alloc /\ rsv[r].status = "active"
        /\ w.flushed + k.amount <= w.alloc
    BY <1>2, <2>2 DEF FlightIsBacked
  <2> QED
    BY <1>4, <2>2, <2>3, RowTypes DEF HeldBy
<1>7. CASE UNCHANGED walletVars /\ captures[r][q] # NotRecorded
           /\ reply = IF captures[r][q] = k.amount THEN "ok" ELSE "conflict"
  <2>1. /\ reply # "reused" /\ reply # "reconciled"
        /\ reply = "ok" => captures[w.res][k.seq] = k.amount
        /\ reply = "conflict" => FoundOther(k)
    BY <1>2, <1>7 DEF FoundOther
  <2>2. Clean' => FlightIsBacked(w, j)
    <3> SUFFICES ASSUME Clean' PROVE FlightIsBacked(w, j)
      OBVIOUS
    <3>1. captures[r][q] = 0 /\ k.amount = 0
      BY <1>2, <1>6, <1>7 DEF FlightIsBacked, Recorded
    <3>2. j.reply = "ok"
      BY <1>6, <1>7, <3>1
    <3>3. w.flushed = w.flushed + k.amount
      BY <1>4, <3>1, RowTypes
    <3> QED
      BY <1>1, <1>2, <1>6, <3>2, <3>3 DEF FlightIsBacked
  <2> QED
    BY <1>7, <2>1, <2>2, WaitingSound
<1>8. CASE UNCHANGED walletVars /\ captures[r][q] = NotRecorded
           /\ \/ rsv[r].status = "reconciled" /\ reply = "reconciled"
              \/ rsv[r].status = "active" /\ k.amount > HeldBy(r) /\ reply = "refused"
  <2>1. ~Clean'
    BY <1>4, <1>5, <1>6, <1>8 DEF HeldBy
  <2>2. /\ reply # "reused" /\ reply # "ok" /\ reply # "conflict"
        /\ reply = "reconciled" => rsv[w.res].status = "reconciled"
        /\ captures[w.res][k.seq] = NotRecorded
    BY <1>2, <1>8
  <2> QED
    BY <1>8, <2>1, <2>2, WaitingSound
<1>9. CASE /\ captures[r][q] = NotRecorded /\ reply = "ok"
           /\ captures' = [captures EXCEPT ![r][q] = k.amount]
           /\ rsv' = [rsv EXCEPT ![r].captured = @ + k.amount]
           /\ charged' = charged + k.amount
           /\ UNCHANGED <<funds, extends, releases>>
  <2>1. /\ captures'[r][q] = k.amount
        /\ \A p \in Reservations, n \in Seqs : p # r \/ n # q => captures'[p][n] = captures[p][n]
    BY <1>9 DEF TypeOK
  <2>2. /\ rsv'[r].captured = rsv[r].captured + k.amount /\ rsv'[r].alloc = rsv[r].alloc
        /\ \A p \in Reservations : rsv'[p].status = rsv[p].status
    <3>1. PICK old \in Reservation : old = rsv[r]
      BY HeldTypes DEF TypeOK, WalletTypes
    <3>2. rsv' = [rsv EXCEPT ![r] = [old EXCEPT !.captured = @ + k.amount]]
      BY <1>9, <3>1 DEF TypeOK
    <3>3. rsv'[r] = [old EXCEPT !.captured = @ + k.amount]
      BY <3>2 DEF TypeOK
    <3>4. \A p \in Reservations : p # r => rsv'[p] = rsv[p]
      BY <3>2 DEF TypeOK
    <3> QED
      BY <3>1, <3>3, <3>4 DEF Reservation
  <2>3. charged' = charged + k.amount /\ UNCHANGED <<extends, releases>>
    BY <1>9
  <2>4. RowIsNext(w)'
    <3>1. \A n \in Seqs : n > w.seq + 1 => Blank(w.res, n)'
      BY <1>1, <1>2, <2>1, <2>3, <1>4, RowTypes
      DEF RowIsNext, Blank, Recorded, Unextended, InFlight, Seqs
    <3>2. \A p \in Reservations : p # w.res /\ rsv'[p].status # "reconciled" =>
            \A n \in Seqs : Blank(p, n)'
      BY <1>1, <1>2, <2>1, <2>2, <2>3 DEF RowIsNext, Blank, Recorded, Unextended
    <3>3. Open(w) => rsv'[w.res].status # "none"
      BY <1>1, <1>2, <2>2 DEF RowIsNext
    <3> QED
      BY <1>1, <3>1, <3>2, <3>3 DEF RowIsNext, Open, SeqPending
  <2>5. InFlight(w, j)'
    BY <1>1, <1>2, <2>1, <1>9 DEF InFlight, Open, Told, SameJob
  <2>6. Fits(w, j)'
    BY <1>1, <2>4, <2>5 DEF Fits
  <2>7. ASSUME CostsAreNat PROVE (Pays(w, spent) /\ Seen(w, j) /\ Keyed(w))'
    <3>1. w.seq < MaxSeq
      BY <1>2, <1>4, RowTypes, BoundsAssumption DEF Seqs
    <3>2. Ahead(w) = 0
      BY <1>2, <1>9 DEF Ahead, Greatest, NotRecorded
    <3>3. Ahead(w)' = k.amount
      <4>1. Open(w)
        BY <1>1 DEF InFlight
      <4> QED
        BY <1>2, <1>4, <2>1, <3>1, <4>1 DEF Ahead, Greatest, Open
    <3>4. w.flushed <= w.consumed /\ charged + (w.consumed - w.flushed) <= spent
      BY <1>4, <2>7, <3>2, RowTypes DEF Sound, Pays
    <3>5. w.flushed + k.amount <= w.consumed /\ (SeqPending(w) => w.flushed + w.pend.amount <= w.consumed)
      BY <1>1, <1>4, <2>7, RowTypes DEF Sound, Pays, InFlight, SeqPending
    <3>6. Pays(w, spent)'
      BY <1>4, <2>3, <3>3, <3>4, <3>5, RowTypes DEF Pays, SeqPending
    <3>7. Seen(w, j)'
      BY <1>1, <2>7 DEF Sound, Seen, Told, SameJob
    <3>8. Keyed(w)'
      <4>1. ASSUME ~w.recovery PROVE FitsKey(w, q)'
        <5>1. FitsKey(w, q)
          <6>1. Keyed(w) /\ Open(w)
            BY <1>1, <2>7 DEF Sound, InFlight
          <6>2. SeqPending(w)
            BY <1>1, RowTypes, <1>4 DEF InFlight, SeqPending
          <6> QED
            BY <1>2, <4>1, <6>1, <6>2 DEF Keyed
        <5>2. captures'[w.res][q] = w.pend.amount
          BY <1>1, <1>2, <2>1 DEF InFlight
        <5> QED
          BY <2>3, <5>1, <5>2 DEF FitsKey, Unextended
      <4>2. SeqPending(w)
        BY <1>1, RowTypes, <1>4 DEF InFlight, SeqPending
      <4> QED
        BY <1>2, <4>1, <4>2 DEF Keyed, SeqPending
    <3> QED
      BY <3>6, <3>7, <3>8
  <2>8. ASSUME Clean' PROVE Backed(w, j)'
    <3>1. RowIsBacked(w) /\ OnlyActive(w.res) /\ FlightIsBacked(w, k)
      BY <1>1, <2>8 DEF Sound, Backed
    <3>2. RowIsBacked(w)' /\ OnlyActive(w.res)'
      BY <2>2, <2>3, <3>1 DEF RowIsBacked, OnlyActive, Open, Unextended
    <3>3. rsv'[r].captured = w.flushed + k.amount
      BY <1>6, <2>2, <2>8
    <3>4. w.flushed + k.amount <= w.alloc /\ Unextended(r, q)
      BY <1>2, <1>1, <3>1 DEF FlightIsBacked
    <3>5. FlightIsBacked(w, j)'
      BY <1>1, <1>2, <1>6, <1>9, <2>2, <2>3, <2>8, <3>3, <3>4 DEF FlightIsBacked, Unextended
    <3> QED
      BY <1>1, <3>2, <3>5 DEF Backed
  <2> QED
    BY <2>6, <2>7, <2>8 DEF Sound
<1> QED
  BY <1>3, <1>7, <1>8, <1>9 DEF WalletCapture

LEMMA ExtendSound ==
  ASSUME TypeOK, NEW k \in Task, NEW j \in Task, NEW reply, NEW value, k.kind = "flush",
         k.call = "extend", Shaped(k), WalletIsSound,
         k.reply = "none", Told(k, j, reply, value), Sound(w, k, spent), UNCHANGED <<w, spent>>,
         WalletExtend(k.snap.res, k.seq, k.refill, k.at, reply, value),
         Clean' => Clean /\ j.reply # "failed"
  PROVE  Sound(w, j, spent)'
<1>1. /\ Fits(w, k) /\ InFlight(w, k) /\ RowIsNext(w) /\ j.kind = k.kind /\ j.call = "extend"
      /\ j.seq = k.seq /\ j.amount = k.amount
  BY DEF Sound, Fits, Told, SameJob
<1>2. PICK r \in Reservations, q \in Seqs : r = k.snap.res /\ q = k.seq /\ r = w.res /\ q = w.seq + 1
  BY <1>1 DEF Shaped, InFlight
<1>3. WalletExtend(r, q, k.refill, k.at, reply, value)
  BY <1>2
<1>4. w \in Row /\ k.refill \in 0 .. MaxOutstanding
  BY DEF TypeOK, Task
<1>5. captures[w.res][k.seq] = k.amount
  BY <1>1 DEF InFlight
<1>6. Clean' => /\ FlightIsBacked(w, k) /\ j.reply = reply /\ j.value = value
                     /\ rsv[r].captured = w.flushed + k.amount /\ rsv[r].alloc = w.alloc
                     /\ rsv[r].status = "active" /\ Unextended(r, q)
  <2>1. SUFFICES ASSUME Clean'
        PROVE  /\ FlightIsBacked(w, k) /\ j.reply = reply /\ j.value = value
               /\ rsv[r].captured = w.flushed + k.amount /\ rsv[r].alloc = w.alloc
               /\ rsv[r].status = "active" /\ Unextended(r, q)
    OBVIOUS
  <2>2. FlightIsBacked(w, k) /\ j.reply = reply /\ j.value = value
    BY <2>1, <1>1 DEF Sound, Backed, Told
  <2> QED
    BY <1>2, <2>2 DEF FlightIsBacked
<1>7. CASE UNCHANGED walletVars /\ reply # "reused"
           /\ \/ /\ extends[r][q].granted # NotRecorded
                 /\ IF extends[r][q].amount = k.refill /\ extends[r][q].at = k.at
                    THEN reply = "ok" ELSE reply = "conflict"
              \/ rsv[r].status = "reconciled" /\ reply = "reconciled"
  <2>1. ~Clean'
    BY <1>6, <1>7 DEF Unextended
  <2>2. /\ reply = "reconciled" => rsv[w.res].status = "reconciled"
        /\ reply = "conflict" => FoundOther(k)
    BY <1>2, <1>7 DEF FoundOther
  <2> QED
    BY <1>1, <1>5, <1>7, <2>1, <2>2, WaitingSound
<1>8. CASE /\ rsv[r].status = "active" /\ reply = "ok" /\ value = Least(k.refill, funds)
           /\ extends' = [extends EXCEPT ![r][q] = [amount |-> k.refill, at |-> k.at,
                                                    granted |-> value]]
           /\ rsv' = [rsv EXCEPT ![r].alloc = @ + value]
           /\ UNCHANGED <<captures, releases, charged>>
  <2>1. /\ extends'[r][q].amount = k.refill
        /\ \A p \in Reservations, n \in Seqs : p # r \/ n # q => extends'[p][n] = extends[p][n]
    BY <1>8 DEF TypeOK
  <2>2. /\ rsv'[r].captured = rsv[r].captured /\ rsv'[r].alloc = rsv[r].alloc + value
        /\ \A p \in Reservations : rsv'[p].status = rsv[p].status
    <3>1. PICK old \in Reservation : old = rsv[r]
      BY HeldTypes DEF TypeOK, WalletTypes
    <3>2. rsv' = [rsv EXCEPT ![r] = [old EXCEPT !.alloc = @ + value]]
      BY <1>8, <3>1 DEF TypeOK
    <3>3. rsv'[r] = [old EXCEPT !.alloc = @ + value]
      BY <3>2 DEF TypeOK
    <3>4. \A p \in Reservations : p # r => rsv'[p] = rsv[p]
      BY <3>2 DEF TypeOK
    <3> QED
      BY <3>1, <3>3, <3>4 DEF Reservation
  <2>3. UNCHANGED <<captures, releases, charged>>
    BY <1>8
  <2>4. RowIsNext(w)'
    <3>1. \A p \in Reservations : p # w.res /\ rsv'[p].status # "reconciled" =>
            \A n \in Seqs : Blank(p, n)'
      BY <1>1, <1>2, <2>1, <2>2, <2>3 DEF RowIsNext, Blank, Recorded, Unextended
    <3>2. Open(w) => rsv'[w.res].status # "none"
      BY <1>1, <1>2, <2>2 DEF RowIsNext
    <3>3. \A n \in Seqs : n > w.seq + 1 => Blank(w.res, n)'
      BY <1>1, <1>2, <1>4, <2>1, <2>3, RowTypes
      DEF RowIsNext, Blank, Recorded, Unextended, InFlight, Seqs
    <3> QED
      BY <1>1, <3>1, <3>2, <3>3 DEF RowIsNext, Open, SeqPending
  <2>5. InFlight(w, j)'
    BY <1>1, <1>5, <1>8, <2>3 DEF InFlight, Open, Told, SameJob
  <2>6. Fits(w, j)'
    BY <1>1, <2>4, <2>5 DEF Fits
  <2>7. ASSUME CostsAreNat PROVE (Pays(w, spent) /\ Seen(w, j) /\ Keyed(w))'
    <3>1. Pays(w, spent)'
      BY <2>3, <2>7 DEF Sound, Pays, Ahead, Open, SeqPending
    <3>2. Seen(w, j)'
      BY <1>1 DEF Seen
    <3>3. ASSUME ~w.recovery PROVE FitsKey(w, q)'
      <4>1. FitsKey(w, q)
        <5>1. Keyed(w) /\ Open(w)
          BY <1>1, <2>7 DEF Sound, InFlight
        <5>2. SeqPending(w)
          BY <1>1, RowTypes, <1>4 DEF InFlight, SeqPending
        <5> QED
          BY <1>2, <3>3, <5>1, <5>2 DEF Keyed
      <4>2. w.pend.refill = k.refill
        BY <1>1 DEF InFlight
      <4> QED
        BY <1>2, <2>1, <2>3, <4>1, <4>2 DEF FitsKey
    <3>4. Keyed(w)'
      <4>1. SeqPending(w)
        BY <1>1, RowTypes, <1>4 DEF InFlight, SeqPending
      <4> QED
        BY <1>2, <3>3, <4>1 DEF Keyed, SeqPending
    <3> QED
      BY <3>1, <3>2, <3>4
  <2>8. ASSUME Clean' PROVE Backed(w, j)'
    <3>1. RowIsBacked(w) /\ OnlyActive(w.res) /\ FlightIsBacked(w, k)
      BY <1>1, <2>8 DEF Sound, Backed
    <3>2. OnlyActive(w.res)'
      BY <2>2, <3>1 DEF OnlyActive
    <3>3. RowIsBacked(w)'
      BY <3>1 DEF RowIsBacked, Open
    <3>4. FlightIsBacked(w, j)'
      BY <1>1, <1>2, <1>6, <1>8, <2>2, <2>8, <3>1 DEF FlightIsBacked
    <3> QED
      BY <1>1, <3>2, <3>3, <3>4 DEF Backed
  <2> QED
    BY <2>6, <2>7, <2>8 DEF Sound
<1> QED
  BY <1>3, <1>7, <1>8 DEF WalletExtend

LEMMA ReleaseSound ==
  ASSUME TypeOK, NEW k \in Task, NEW j \in Task, NEW reply, NEW value, k.kind = "close",
         k.call = "release", Shaped(k), WalletIsSound,
         k.reply = "none", Told(k, j, reply, 0), Sound(w, k, spent), UNCHANGED <<w, spent>>,
         WalletRelease(k.snap.res, k.reason, reply),
         Clean' => Clean /\ j.reply # "failed"
  PROVE  Sound(w, j, spent)'
<1>1. /\ Fits(w, k) /\ InFlight(w, k) /\ RowIsNext(w) /\ j.kind = k.kind /\ j.call = "release"
      /\ j.seq = k.seq /\ j.amount = k.amount
  BY DEF Sound, Fits, Told, SameJob
<1>2. PICK r \in Reservations, q \in Seqs : r = k.snap.res /\ q = k.seq /\ r = w.res
  BY <1>1 DEF Shaped, InFlight
<1>3. WalletRelease(r, k.reason, reply)
  BY <1>2
<1>4. captures[w.res][k.seq] = k.amount
  BY <1>1 DEF InFlight
<1>5. Clean' => /\ FlightIsBacked(w, k) /\ j.reply = reply /\ j.value = 0
                     /\ rsv[r].captured = w.flushed + k.amount /\ rsv[r].alloc = w.alloc
                     /\ rsv[r].status = "active" /\ Unextended(r, q)
  <2>1. SUFFICES ASSUME Clean'
        PROVE  /\ FlightIsBacked(w, k) /\ j.reply = reply /\ j.value = 0
               /\ rsv[r].captured = w.flushed + k.amount /\ rsv[r].alloc = w.alloc
               /\ rsv[r].status = "active" /\ Unextended(r, q)
    OBVIOUS
  <2>2. FlightIsBacked(w, k) /\ j.reply = reply /\ j.value = 0
    BY <2>1, <1>1 DEF Sound, Backed, Told
  <2> QED
    BY <1>2, <2>2 DEF FlightIsBacked
<1>6. CASE UNCHANGED walletVars /\ (<<r, k.reason>> \in releases \/ rsv[r].status = "reconciled")
           /\ reply \in {"ok", "reconciled"}
  <2>1. rsv[r].status = "reconciled" /\ reply \in {"ok", "reconciled"}
    BY <1>6 DEF WalletIsSound
  <2>2. ~Clean'
    BY <1>5, <2>1
  <2> QED
    BY <1>1, <1>2, <1>4, <1>6, <2>1, <2>2, WaitingSound
<1>7. CASE UNCHANGED walletVars /\ rsv[r].status = "active" /\ rsv[r].alloc = 0 /\ reply = "refused"
  <2>1. Clean' => FlightIsBacked(w, j)
    BY <1>1, <1>2, <1>5, <1>7 DEF FlightIsBacked
  <2> QED
    BY <1>1, <1>4, <1>7, <2>1, WaitingSound
<1>8. CASE /\ rsv[r].status = "active" /\ reply = "ok"
           /\ rsv' = [rsv EXCEPT ![r].status = "reconciled"]
           /\ UNCHANGED <<captures, extends, charged>>
  <2>1. /\ rsv'[r].captured = rsv[r].captured /\ rsv'[r].alloc = rsv[r].alloc
        /\ rsv'[r].status = "reconciled"
        /\ \A p \in Reservations : p # r => rsv'[p] = rsv[p]
    <3>1. PICK old \in Reservation : old = rsv[r]
      BY HeldTypes DEF TypeOK, WalletTypes
    <3>2. rsv' = [rsv EXCEPT ![r] = [old EXCEPT !.status = "reconciled"]]
      BY <1>8, <3>1 DEF TypeOK
    <3>3. rsv'[r] = [old EXCEPT !.status = "reconciled"]
      BY <3>2 DEF TypeOK
    <3>4. \A p \in Reservations : p # r => rsv'[p] = rsv[p]
      BY <3>2 DEF TypeOK
    <3> QED
      BY <3>1, <3>3, <3>4 DEF Reservation
  <2>2. UNCHANGED <<captures, extends, charged>>
    BY <1>8
  <2>3. RowIsNext(w)'
    <3>1. \A p \in Reservations : p # w.res /\ rsv'[p].status # "reconciled" =>
            \A n \in Seqs : Blank(p, n)
      BY <1>1, <1>2, <2>1 DEF RowIsNext
    <3> QED
      BY <1>1, <1>2, <2>1, <2>2, <3>1
      DEF RowIsNext, Open, SeqPending, Blank, Recorded, Unextended
  <2>4. InFlight(w, j)'
    BY <1>1, <1>2, <1>4, <1>8, <2>1, <2>2 DEF InFlight, Open, Told, SameJob
  <2>5. Fits(w, j)'
    BY <1>1, <2>3, <2>4 DEF Fits
  <2>6. CostsAreNat => (Pays(w, spent) /\ Seen(w, j) /\ Keyed(w))'
    <3>1. Seen(w, k) => Seen(w, j)
      BY DEF Seen, Told, SameJob
    <3> QED
      BY <2>2, <3>1 DEF Sound, Pays, Ahead, Open, SeqPending, Seen, Keyed, FitsKey, Blank, Recorded,
                        Unextended
  <2>7. ASSUME Clean' PROVE Backed(w, j)'
    <3>1. RowIsBacked(w) /\ OnlyActive(w.res) /\ FlightIsBacked(w, k)
      BY <1>1, <2>7 DEF Sound, Backed
    <3>2. OnlyActive(w.res)' /\ RowIsBacked(w)'
      BY <1>2, <2>1, <2>2, <3>1 DEF OnlyActive, RowIsBacked, Open, Unextended
    <3>3. FlightIsBacked(w, j)'
      BY <1>1, <1>2, <1>5, <1>8, <2>1, <2>2, <2>7, <3>1 DEF FlightIsBacked, Unextended
    <3> QED
      BY <1>1, <3>2, <3>3 DEF Backed
  <2> QED
    BY <2>5, <2>6, <2>7 DEF Sound
<1> QED
  BY <1>3, <1>6, <1>7, <1>8 DEF WalletRelease

LEMMA FailedSound ==
  ASSUME NEW k, NEW j, SameJob(k, j), j.call = k.call, j.reply = "failed", Sound(w, k, spent),
         UNCHANGED walletVars, UNCHANGED <<w, spent>>, ~Clean', k.reply = "none"
  PROVE  Sound(w, j, spent)'
<1>1. j.kind = k.kind
  BY DEF SameJob
<1>2. InFlight(w, k) => InFlight(w, j)
  BY DEF InFlight, SameJob
<1>3. Fits(w, j)
  BY <1>1, <1>2 DEF Sound, Fits
<1>4. UNCHANGED <<rsv, captures, extends, releases, charged>>
  BY DEF walletVars
<1>5. Fits(w, j)'
  BY <1>3, <1>4 DEF Fits, RowIsNext, InFlight, FoundOther, Blank, Recorded, Unextended
<1>6. CostsAreNat => (Pays(w, spent) /\ Seen(w, j) /\ Keyed(w))'
  <2>1. Seen(w, k) => Seen(w, j)
    BY DEF Seen, SameJob
  <2> QED
    BY <1>4, <2>1 DEF Sound, Pays, Ahead, Seen, Keyed, FitsKey, Blank, Recorded, Unextended
<1> QED
  BY <1>5, <1>6 DEF Sound

-----------------------------------------------------------------------------
(* The invariant holds of every reachable state.                           *)

LEMMA CommandSound ==
  ASSUME TypeInv, NEW t \in Slots, NEW j \in Task, NEW reply, NEW value, Waiting(t),
         WalletCommand(t, reply, value), Told(task[t], j, reply, value), Sound(w, task[t], spent),
         UNCHANGED <<w, spent>>, Clean' => Clean /\ j.reply # "failed"
  PROVE  Sound(w, j, spent)'
<1>1. PICK k \in Task : k = task[t] /\ Shaped(k)
  BY TaskTypes DEF TypeInv, TasksAreShaped
<1>2. k.reply = "none" /\ Told(k, j, reply, value) /\ Sound(w, k, spent) /\ TypeOK /\ WalletIsSound
  BY <1>1 DEF Waiting, TypeInv
<1>3. CASE k.call = "create" /\ value \in Reservations /\ WalletCreate(k.amount, reply, value)
  BY <1>1, <1>2, <1>3, CreateSound DEF Shaped
<1>4. CASE k.call = "capture" /\ value = 0 /\ WalletCapture(k.snap.res, k.seq, k.amount, reply)
  <2>1. k.kind \in {"flush", "close"}
    BY <1>1, <1>4 DEF Shaped, Task
  <2> QED
    BY <1>1, <1>2, <1>4, <2>1, CaptureSound
<1>5. CASE k.call = "extend" /\ WalletExtend(k.snap.res, k.seq, k.refill, k.at, reply, value)
  BY <1>1, <1>2, <1>5, ExtendSound DEF Shaped
<1>6. CASE k.call = "release" /\ value = 0 /\ WalletRelease(k.snap.res, k.reason, reply)
  BY <1>1, <1>2, <1>6, ReleaseSound DEF Shaped
<1> QED
  BY <1>1, <1>3, <1>4, <1>5, <1>6 DEF WalletCommand

LEMMA BusyIsSound ==
  ASSUME CalmInv, NEW t \in Slots, ~Idle(t)
  PROVE  Alone(t) /\ Sound(w, task[t], spent)
BY DEF CalmInv, OneAtATime, Alone

LEMMA SomeAlone ==
  ASSUME CalmInv
  PROVE  \E t \in Slots : Alone(t) /\ Sound(w, task[t], spent)
<1>1. CASE \A t \in Slots : Idle(t)
  BY <1>1, BoundsAssumption DEF CalmInv, Alone
<1>2. CASE \E t \in Slots : ~Idle(t)
  BY <1>2, BusyIsSound
<1> QED
  BY <1>1, <1>2

LEMMA HearsCalm ==
  ASSUME TypeInv, CalmInv, NEW t \in Slots,
         WalletAnswers(t) \/ WalletFails(t) \/ AnswerLost(t), Clean' => Clean,
         WalletFails(t) \/ AnswerLost(t) => ~Clean'
  PROVE  CalmInv'
<1>0. TypeOK
  BY DEF TypeInv
<1>1. Waiting(t)
  BY DEF WalletAnswers, WalletFails, AnswerLost
<1>2. ~Idle(t)
  BY <1>1 DEF TypeInv, TasksAreShaped, Shaped, Waiting, Idle
<1>3. Alone(t) /\ Sound(w, task[t], spent)
  BY <1>2, BusyIsSound
<1>4. CASE WalletAnswers(t)
  <2>1. PICK reply \in Replies, value \in Values :
          WalletCommand(t, reply, value) /\ Hears(t, reply, value)
    BY <1>0, <1>4, AnswerForms
  <2>2. PICK j \in Task : /\ Becomes(t, j) /\ SameJob(task[t], j) /\ j.call = task[t].call
                          /\ j.reply = reply /\ j.value = value
    BY <2>1 DEF Hears
  <2>3. Told(task[t], j, reply, value) /\ j.reply # "failed" /\ UNCHANGED <<w, spent>>
    BY <2>1, <2>2 DEF Told, Replies, Hears
  <2>4. Sound(w, j, spent)'
    BY <1>1, <1>3, <2>1, <2>3, CommandSound
  <2> QED
    BY <1>0, <1>3, <2>2, <2>4, SoloCalm
<1>5. CASE WalletFails(t) \/ AnswerLost(t)
  <2>1. Hears(t, "failed", 0)
    BY <1>0, <1>5, FaultForms
  <2>2. PICK j \in Task : /\ Becomes(t, j) /\ SameJob(task[t], j) /\ j.call = task[t].call
                          /\ j.reply = "failed"
    BY <2>1 DEF Hears
  <2>3. UNCHANGED <<w, spent>>
    BY <2>1 DEF Hears
  <2>4. Sound(w, j, spent)'
    <3>1. CASE UNCHANGED walletVars
      <4>1. task[t].reply = "none" /\ ~Clean'
        BY <1>1, <1>5 DEF Waiting
      <4>2. PICK k : k = task[t]
        OBVIOUS
      <4> QED
        BY <1>3, <2>2, <2>3, <3>1, <4>1, <4>2, FailedSound
    <3>2. CASE ~UNCHANGED walletVars
      <4>1. PICK reply \in Replies, value \in Values : WalletCommand(t, reply, value)
        BY <1>0, <1>5, <3>2, FaultForms
      <4>2. Told(task[t], j, reply, value)
        BY <2>2 DEF Told
      <4> QED
        BY <1>1, <1>3, <1>5, <2>3, <4>1, <4>2, CommandSound
    <3> QED
      BY <3>1, <3>2
  <2> QED
    BY <1>0, <1>3, <2>2, <2>4, SoloCalm
<1> QED
  BY <1>4, <1>5

LEMMA GoesCalm ==
  ASSUME TypeInv, CalmInv, NEW t \in Slots, Goes(t), Clean' => Clean
  PROVE  CalmInv'
<1>0. TypeOK /\ w \in Row
  BY DEF TypeInv, TypeOK
<1>1. ~Idle(t)
  BY DEF Goes, Idle
<1>2. Alone(t) /\ Sound(w, task[t], spent)
  BY <1>1, BusyIsSound
<1>3. PICK k \in Task : k = task[t] /\ Shaped(k)
  BY <1>0, TaskTypes DEF TypeInv, TasksAreShaped
<1>4. PICK idle : idle = NoTask /\ idle.kind = "none"
  BY EmptyTypes
<1>5. Sound(w, k, spent)
  BY <1>2, <1>3
<1>6. ASSUME NEW x \in Row, Resumes(t, x), Sound(x, idle, spent)
      PROVE  CalmInv'
  BY <1>0, <1>2, <1>4, <1>6, HandlesCalm
<1>7. CASE k.kind = "boot" /\ k.reply \in Errors /\ Resumes(t, w)
  <2>1. Sound(w, idle, spent)
    BY <1>4, <1>5, <1>7, BootFailedSound
  <2> QED
    BY <1>0, <1>6, <1>7, <2>1
<1>8. CASE /\ k.kind = "boot" /\ k.reply \in {"ok", "reused"}
           /\ \E x \in Row : Opens(x, k) /\ Resumes(t, x)
  <2>1. PICK x \in Row : Opens(x, k) /\ Resumes(t, x)
    BY <1>8
  <2>2. k.value \in Reservations
    BY <1>3, <1>8 DEF Shaped
  <2>3. Fits(x, idle)
    BY <1>0, <1>4, <1>5, <1>8, <2>1, <2>2, OpensFits DEF Sound
  <2>4. CostsAreNat => Pays(x, spent) /\ Seen(x, idle) /\ Keyed(x)
    BY <1>0, <1>4, <1>5, <1>8, <2>1, <2>2, OpensPays, OpensKeyed DEF Sound
  <2>5. Clean => Backed(x, idle)
    BY <1>0, <1>4, <1>5, <1>8, <2>1, <2>2, OpensBacked DEF Sound
  <2> QED
    BY <1>6, <2>1, <2>3, <2>4, <2>5 DEF Sound
<1>9. CASE /\ k.kind \in {"flush", "close"} /\ k.reply \in Errors
           /\ \E x \in Row : Grounded(x, k) /\ Resumes(t, x)
  <2>1. PICK x \in Row : Grounded(x, k) /\ Resumes(t, x)
    BY <1>9
  <2>2. Sound(x, idle, spent)
    BY <1>0, <1>3, <1>4, <1>5, <1>9, <2>1, GroundedSound
  <2> QED
    BY <1>6, <2>1, <2>2
<1>10. CASE /\ k.kind = "flush" /\ k.call \in {"capture", "extend"} /\ k.reply \in {"ok", "reused"}
            /\ \E x \in Row : Booked(x, k) /\ Resumes(t, x)
  <2>1. PICK x \in Row : Booked(x, k) /\ Resumes(t, x)
    BY <1>10
  <2>2. Sound(x, idle, spent)
    BY <1>0, <1>3, <1>4, <1>5, <1>10, <2>1, BookedSound
  <2> QED
    BY <1>6, <2>1, <2>2
<1>11. CASE /\ k.kind = "close"
            /\ (k.call = "release" /\ k.reply \in {"ok", "reused"}) \/ k.reply = "reconciled"
            /\ \E x \in Row : /\ Shuts(x, k) \/ (x = EmptyRow /\ k.reason = "deletion_requested")
                              /\ Resumes(t, x)
  <2>1. InFlight(w, k)
    BY <1>5, <1>11 DEF Sound, Fits
  <2>2. (k.call = "release" /\ k.reply = "ok") \/ k.reply = "reconciled"
    BY <1>11, <2>1 DEF InFlight
  <2>3. PICK x \in Row : Shuts(x, k) /\ Resumes(t, x)
    BY <1>11, <2>1 DEF InFlight
  <2>4. Sound(x, idle, spent)
    BY <1>0, <1>3, <1>4, <1>5, <1>11, <2>2, <2>3, ShutsSound
  <2> QED
    BY <1>6, <2>3, <2>4
<1>12. CASE \/ /\ k.kind = "flush" /\ k.call = "capture" /\ k.reply \in {"ok", "reused"}
               /\ k.refill > 0 /\ Calls(t, "extend")
            \/ /\ k.kind = "close" /\ k.call = "capture" /\ k.reply \in {"ok", "reused"}
               /\ Calls(t, "release")
  <2>1. PICK call \in {"extend", "release"} : Calls(t, call) /\ (call = "extend" => k.refill > 0)
    BY <1>12
  <2>2. PICK j \in Task : /\ Becomes(t, j) /\ SameJob(k, j) /\ j.call = call
                          /\ j.reply = "none" /\ j.value = 0
    BY <1>3, <2>1 DEF Calls
  <2>3. Sound(w, j, spent)
    <3>1. /\ k.call = "capture" /\ k.reply \in {"ok", "reused"} /\ k.kind \in {"flush", "close"}
          /\ j.call \in {"extend", "release"} /\ (j.call = "extend" => k.refill > 0)
      BY <1>12, <2>1, <2>2
    <3> QED
      BY <1>3, <1>5, <2>2, <3>1, CallsSound
  <2>4. Sound(w, j, spent)'
    BY <2>1, <2>3, SoundKept DEF Calls
  <2> QED
    BY <1>0, <1>2, <2>2, <2>4, SoloCalm
<1> QED
  BY <1>3, <1>7, <1>8, <1>9, <1>10, <1>11, <1>12 DEF Goes

LEMMA BootsCalm ==
  ASSUME TypeInv, CalmInv, NEW t \in Slots, Boots(t), Clean' => Clean
  PROVE  CalmInv'
<1>0. TypeOK /\ w \in Row
  BY DEF TypeInv, TypeOK
<1>1. PICK j \in Task : Becomes(t, j) /\ j.kind = "boot" /\ j.call = "create" /\ j.reply = "none"
  BY DEF Boots
<1>2. ~Open(w) /\ UNCHANGED <<walletVars, w, spent>>
  BY DEF Boots
<1>3. ASSUME NEW u \in Slots, u # t, ~Idle(u) PROVE FALSE
  <2>1. Sound(w, task[u], spent)
    BY <1>3, BusyIsSound
  <2>2. task[u].kind \in {"flush", "close"}
    BY <1>0, <1>3, TaskTypes DEF Boots, Idle
  <2> QED
    BY <1>2, <2>1, <2>2 DEF Sound, Fits, InFlight
<1>4. Alone(t) /\ Sound(w, task[t], spent) /\ Idle(t)
  BY <1>3 DEF Alone, CalmInv, Boots
<1>5. Sound(w, j, spent)
  <2>1. Fits(w, j)
    BY <1>1, <1>2, <1>4 DEF Sound, Fits
  <2>3. Seen(w, j)
    BY <1>1 DEF Seen
  <2>2. Clean => Backed(w, j)
    <3>1. w.res = NoReservation
      BY <1>2 DEF Open
    <3> QED
      BY <1>1, <1>4, <3>1 DEF Sound, Backed, BootIsBacked, Idle
  <2> QED
    BY <1>4, <2>1, <2>2, <2>3 DEF Sound
<1>6. Sound(w, j, spent)'
  BY <1>2, <1>5, SoundKept
<1> QED
  BY <1>0, <1>1, <1>4, <1>6, SoloCalm

LEMMA ArrivesCalm ==
  ASSUME TypeInv, CalmInv, NEW t \in Slots, Arrives(t), Clean' => Clean
  PROVE  CalmInv'
<1>0. TypeOK /\ w \in Row
  BY DEF TypeInv, TypeOK
<1>1. CASE Alone(t)
  <2>1. Sound(w, task[t], spent) /\ Idle(t) /\ Resumes(t, w)
    BY <1>1 DEF CalmInv, Arrives
  <2>2. Sound(w, NoTask, spent)
    BY <2>1, EmptyTypes DEF Sound, Fits, Seen, Backed, Idle
  <2> QED
    BY <1>0, <1>1, <2>1, <2>2, HandlesCalm
<1> QED
  BY <1>0, <1>1, BusyArrives

LEMMA StillCalm ==
  ASSUME TypeInv, Calm', Shrinks
  PROVE  /\ Calm /\ left'.deletions = left.deletions /\ (Clean' => Clean)
         /\ left'.faults < left.faults => ~Clean'
<1>1. left \in Bounds /\ left' \in Bounds
  BY DEF TypeInv, TypeOK, Shrinks
<1>2. /\ left.crashes \in Int /\ left.deletions \in Int /\ left.faults \in Int
      /\ left'.crashes \in Int /\ left'.deletions \in Int /\ left'.faults \in Int
  BY <1>1 DEF Bounds
<1> QED
  BY <1>2, BoundsAssumption
  DEF TypeInv, LeftIsBounded, Shrinks, Calm, FaultsOrOneEviction, Clean, NoFaultYet, NoEvictionYet,
      NoDeletionYet

\* An eviction finds a calm window of which nothing has gone wrong before.
LEMMA RestartsOnce ==
  ASSUME TypeInv, Calm', Restarts
  PROVE  Calm /\ Clean /\ ~Clean'
<1>1. left \in Bounds /\ left' \in Bounds /\ Shrinks
  BY DEF TypeInv, TypeOK, Shrinks, Restarts
<1>2. left.crashes \in Int /\ left'.crashes \in Int
  BY <1>1 DEF Bounds
<1>3. left'.crashes = left.crashes - 1 /\ left'.faults = left.faults
  BY DEF Restarts
<1> QED
  BY <1>1, <1>2, <1>3, StillCalm, BoundsAssumption
  DEF TypeInv, LeftIsBounded, Calm, FaultsOrOneEviction, Clean, NoFaultYet, NoEvictionYet

\* What was in flight is in flight again.
LEMMA ReplaysSound ==
  ASSUME TypeInv, NEW k \in Task, NEW j \in Task, w' \in Row, MustRecover, Replays(w, w', j),
         UNCHANGED <<walletVars, spent>>, k.kind \in {"none", "boot", "flush", "close"},
         Sound(w, k, spent), Clean, ~Clean'
  PROVE  Sound(w, j, spent)'
<1>0. w \in Row /\ UNCHANGED <<rsv, captures, extends, releases, charged, spent>>
  BY DEF TypeInv, TypeOK, walletVars
<1>1. /\ Open(w) /\ ~w.recovery /\ SeqPending(w) /\ RowIsNext(w)
      /\ k.kind \in {"flush", "close"} /\ InFlight(w, k)
  BY DEF MustRecover, Sound, Fits, Backed, RestIsBacked
<1>2. /\ w'.res = w.res /\ w'.alloc = w.alloc /\ w'.flushed = w.flushed /\ w'.seq = w.seq
      /\ w'.deleting = w.deleting /\ w'.recovery = w.recovery /\ w'.consumed = w.consumed
      /\ w'.pend.seq = w.pend.seq /\ w'.pend.amount = w.pend.amount
      /\ w'.pend.final = w.pend.final /\ w'.inFlight
  BY <1>1 DEF Replays, SameBesides, InFlight
<1>3. RowIsNext(w)'
  BY <1>0, <1>1, <1>2 DEF RowIsNext, Open, SeqPending, Blank, Recorded, Unextended
<1>4. InFlight(w, j)'
  BY <1>0, <1>1, <1>2, RowTypes DEF InFlight, Replays, Open
<1>5. Fits(w, j)'
  BY <1>3, <1>4 DEF Fits, Replays
<1>6. ASSUME CostsAreNat PROVE (Pays(w, spent) /\ Seen(w, j) /\ Keyed(w))'
  <2>1. Pays(w, spent) /\ Keyed(w)
    BY <1>6 DEF Sound
  <2>2. Pays(w, spent)'
    BY <1>0, <1>2, <2>1 DEF Pays, Ahead, Open, SeqPending
  <2>3. Seen(w, j)'
    BY <1>0, <1>1, <1>2, <2>1, RowTypes DEF Pays, Seen, Replays
  <2>4. ASSUME NEW q \in Seqs, q = w.seq + 1 PROVE FitsKey(w, q)'
    <3>1. FitsKey(w, q)
      BY <1>1, <2>1, <2>4 DEF Keyed
    <3>2. w'.pend.refill = IF w.pend.final THEN 0 ELSE w.pend.refill
      BY DEF Replays
    <3> QED
      BY <1>0, <1>2, <3>1, <3>2 DEF FitsKey, Unextended
  <2> QED
    BY <1>1, <1>2, <2>2, <2>3, <2>4 DEF Keyed, SeqPending
<1> QED
  BY <1>5, <1>6 DEF Sound

\* Nothing was in flight, or the row waits for an operator.
LEMMA RestsSound ==
  ASSUME TypeInv, NEW k \in Task, NEW j, j.kind = "none", w' = w, ~MustRecover,
         UNCHANGED <<walletVars, spent>>, k.kind \in {"none", "boot", "flush", "close"},
         Sound(w, k, spent), ~Clean'
  PROVE  Sound(w, j, spent)'
<1>0. w \in Row /\ UNCHANGED <<rsv, captures, extends, releases, charged, spent>>
  BY DEF TypeInv, TypeOK, walletVars
<1>1. ~w.inFlight \/ w.recovery
  BY <1>0, RowTypes DEF MustRecover, Sound, Fits, RowIsNext, InFlight, SeqPending
<1>2. Fits(w, j)'
  BY <1>0, <1>1 DEF Sound, Fits, RowIsNext, Open, SeqPending, Blank, Recorded, Unextended
<1>3. CostsAreNat => (Pays(w, spent) /\ Seen(w, j) /\ Keyed(w))'
  BY <1>0 DEF Sound, Pays, Ahead, Seen, Keyed, FitsKey, Blank, Recorded, Unextended
<1> QED
  BY <1>2, <1>3 DEF Sound

LEMMA RestartsCalm ==
  ASSUME TypeInv, WindowInv, Calm', Restarts
  PROVE  CalmInv'
<1>1. CalmInv /\ Clean /\ ~Clean'
  BY RestartsOnce DEF WindowInv
<1>2. PICK t \in Slots, j \in Task :
        /\ task' = [u \in Slots |-> IF u = t THEN j ELSE NoTask]
        /\ IF MustRecover THEN Replays(w, w', j) ELSE w' = w /\ j = NoTask
  BY DEF Restarts
<1>3. w' \in Row /\ UNCHANGED <<walletVars, spent>>
  BY DEF Restarts
<1>4. PICK u \in Slots : Alone(u) /\ Sound(w, task[u], spent)
  BY <1>1, SomeAlone
<1>5. PICK k \in Task : k = task[u] /\ k.kind \in {"none", "boot", "flush", "close"}
  BY TaskTypes DEF TypeInv
<1>6. Sound(w, j, spent)'
  <2>1. CASE MustRecover
    BY <1>1, <1>2, <1>3, <1>4, <1>5, <2>1, ReplaysSound
  <2>2. CASE ~MustRecover
    BY <1>1, <1>2, <1>3, <1>4, <1>5, <2>2, RestsSound, EmptyTypes
  <2> QED
    BY <2>1, <2>2
<1>7. \A v \in Slots : task'[v] = IF v = t THEN j ELSE NoTask
  BY <1>2
<1>8. OneAtATime'
  BY <1>7, EmptyTypes DEF OneAtATime, Idle
<1>9. ASSUME NEW v \in Slots, Alone(v)' PROVE Sound(w, task[v], spent)'
  <2>1. CASE v = t
    <3>1. task'[v] = j
      BY <1>7, <2>1
    <3> QED
      BY <1>6, <3>1 DEF Sound
  <2>2. CASE v # t
    <3>1. j.kind = "none" /\ task'[v] = NoTask
      BY <1>7, <1>9, <2>2 DEF Alone, Idle
    <3>2. ~MustRecover
      BY <1>2, <3>1 DEF Replays
    <3>3. task'[v] = j
      BY <1>2, <3>1, <3>2
    <3> QED
      BY <1>6, <3>3 DEF Sound
  <2> QED
    BY <2>1, <2>2
<1> QED
  BY <1>8, <1>9 DEF CalmInv

LEMMA WindowInit == Init => WindowInv
<1> SUFFICES ASSUME Init PROVE CalmInv
  BY DEF WindowInv
<1>1. \A t \in Slots : task[t] = NoTask /\ task[t].kind = "none"
  BY EmptyTypes DEF Init
<1>2. w = EmptyRow /\ w.res = NoReservation /\ w.seq = 0 /\ w.pend.seq = 0 /\ w.pend.amount = 0
      /\ w.consumed = 0 /\ w.flushed = 0 /\ w.inFlight = FALSE /\ w.deleting = FALSE
  BY DEF Init, EmptyRow, NoFlush
<1>3. \A r \in Reservations : rsv[r].status = "none"
  BY DEF Init
<1>4. \A r \in Reservations, q \in Seqs : ~Recorded(r, q)
  BY DEF Init, Recorded
<1>5. \A r \in Reservations, q \in Seqs : Unextended(r, q)
  BY DEF Init, Unextended, NoExtension
<1>6. charged = 0 /\ spent = 0
  BY DEF Init
<1>7. ASSUME NEW k, k.kind = "none" PROVE Sound(w, k, spent)
  <2>1. Fits(w, k)
    BY <1>2, <1>4, <1>5, <1>7 DEF Fits, RowIsNext, Open, SeqPending, Blank
  <2>2. Pays(w, spent)
    BY <1>2, <1>6 DEF Pays, Ahead, Open, SeqPending
  <2>4. Seen(w, k) /\ Keyed(w)
    BY <1>2, <1>7 DEF Seen, Keyed, Open
  <2>3. Backed(w, k)
    BY <1>2, <1>3, <1>5, <1>7 DEF Backed, RowIsBacked, OnlyActive, RestIsBacked, Open
  <2> QED
    BY <2>1, <2>2, <2>3, <2>4 DEF Sound
<1> QED
  BY <1>1, <1>7 DEF CalmInv, OneAtATime, Idle

LEMMA WindowStep == TypeInv /\ WindowInv /\ [Next]_vars => WindowInv'
<1> SUFFICES ASSUME TypeInv, WindowInv, [Next]_vars, Calm' PROVE CalmInv'
  BY DEF WindowInv
<1>0. TypeOK /\ TasksAreShaped
  BY DEF TypeInv
<1>1. ASSUME NEW t \in Slots, Step(t) PROVE CalmInv'
  <2>1. CASE (Arrives(t) \/ Boots(t)) /\ Shrinks
    <3>1. CalmInv /\ (Clean' => Clean)
      BY <2>1, StillCalm DEF WindowInv
    <3> QED
      BY <2>1, <3>1, ArrivesCalm, BootsCalm
  <2>2. CASE Shrinks /\ (AlarmReasons # {} \/ w.deleting)
    <3>1. CalmInv /\ Calm
      BY <2>2, StillCalm DEF WindowInv
    <3>2. ~w.deleting
      BY <3>1, SomeAlone DEF Sound, Fits, RowIsNext
    <3> QED
      BY <2>2, <3>1, <3>2 DEF Calm
  <2>3. CASE Restarts
    BY <2>3, RestartsCalm
  <2> QED
    BY <1>0, <1>1, <2>1, <2>2, <2>3, DeliverForms, DeniedForms, FlushForms, AlarmCloseForms,
       EvictForms DEF Step
<1>2. ASSUME NEW t \in Slots, Continue(t) PROVE CalmInv'
  <2>1. Goes(t) /\ UNCHANGED left
    BY <1>0, <1>2, ContinueForms
  <2>2. CalmInv /\ (Clean' => Clean)
    BY <2>1 DEF WindowInv, Calm, FaultsOrOneEviction, Clean, NoFaultYet, NoEvictionYet,
                NoDeletionYet
  <2> QED
    BY <2>1, <2>2, GoesCalm
<1>3. ASSUME NEW t \in Slots, WalletAnswers(t) \/ WalletFails(t) \/ AnswerLost(t)
      PROVE  CalmInv'
  <2>1. CASE WalletAnswers(t) /\ ~(WalletFails(t) \/ AnswerLost(t))
    <3>1. UNCHANGED left
      BY <1>0, <2>1, AnswerForms
    <3>2. CalmInv /\ (Clean' => Clean)
      BY <3>1 DEF WindowInv, Calm, FaultsOrOneEviction, Clean, NoFaultYet, NoEvictionYet,
                  NoDeletionYet
    <3> QED
      BY <2>1, <3>2, HearsCalm
  <2>2. CASE WalletFails(t) \/ AnswerLost(t)
    <3>1. Shrinks /\ left'.faults < left.faults
      BY <1>0, <2>2, FaultForms
    <3>2. CalmInv /\ ~Clean'
      BY <3>1, StillCalm DEF WindowInv
    <3> QED
      BY <2>2, <3>2, HearsCalm
  <2> QED
    BY <1>3, <2>1, <2>2
<1>4. ASSUME TopUp PROVE CalmInv'
  <2>1. Shrinks /\ UNCHANGED <<w, task, rsv, captures, extends, releases, spent, charged>>
    BY <1>0, <1>4, TopUpForms
  <2>2. CalmInv /\ (Clean' => Clean)
    BY <2>1, StillCalm DEF WindowInv
  <2>3. OneAtATime'
    BY <2>1, <2>2 DEF CalmInv, OneAtATime, Idle
  <2>4. ASSUME NEW t \in Slots, Alone(t)' PROVE Sound(w, task[t], spent)'
    <3>1. Sound(w, task[t], spent)
      BY <2>1, <2>2, <2>4 DEF CalmInv, Alone, Idle
    <3>2. Fits(w, task[t])'
      BY <2>1, <3>1 DEF Sound, Fits, RowIsNext, InFlight, FoundOther, Blank, Recorded, Unextended
    <3>3. CostsAreNat => (Pays(w, spent) /\ Seen(w, task[t]) /\ Keyed(w))'
      BY <2>1, <3>1 DEF Sound, Pays, Ahead, Seen, Keyed, FitsKey, Blank, Recorded, Unextended
    <3>4. Clean' => Backed(w, task[t])'
      BY <2>1, <2>2, <3>1 DEF Sound, Backed, RowIsBacked, OnlyActive, RestIsBacked, BootIsBacked,
                              FlightIsBacked, Unextended, Recorded
    <3> QED
      BY <3>2, <3>3, <3>4 DEF Sound
  <2> QED
    BY <2>3, <2>4 DEF CalmInv
<1>5. ASSUME RequestDeletion PROVE CalmInv'
  <2>1. Shrinks /\ left'.deletions < left.deletions
    BY <1>0, <1>5, DeletionForms
  <2>2. left'.deletions = left.deletions /\ left \in Bounds
    BY <2>1, StillCalm DEF TypeInv, TypeOK
  <2> QED
    BY <2>1, <2>2 DEF Bounds
<1>6. CASE UNCHANGED vars
  <2>1. CalmInv
    BY <1>6 DEF vars, WindowInv, Calm, FaultsOrOneEviction, NoFaultYet, NoEvictionYet, NoDeletionYet
  <2>2. UNCHANGED <<w, task, rsv, captures, extends, releases, charged, spent, left>>
    BY <1>6 DEF vars
  <2>3. OneAtATime'
    BY <2>1, <2>2 DEF CalmInv, OneAtATime, Idle
  <2>4. ASSUME NEW t \in Slots, Alone(t)' PROVE Sound(w, task[t], spent)'
    <3>1. Sound(w, task[t], spent)
      BY <2>1, <2>2, <2>4 DEF CalmInv, Alone, Idle
    <3>2. Fits(w, task[t])'
      BY <2>2, <3>1 DEF Sound, Fits, RowIsNext, InFlight, FoundOther, Blank, Recorded, Unextended
    <3>3. CostsAreNat => (Pays(w, spent) /\ Seen(w, task[t]) /\ Keyed(w))'
      BY <2>2, <3>1 DEF Sound, Pays, Ahead, Seen, Keyed, FitsKey, Blank, Recorded, Unextended
    <3>4. Clean' => Backed(w, task[t])'
      BY <2>2, <3>1 DEF Sound, Clean, NoFaultYet, NoEvictionYet, Backed, RowIsBacked, OnlyActive,
                        RestIsBacked, BootIsBacked, FlightIsBacked, Unextended, Recorded
    <3> QED
      BY <3>2, <3>3, <3>4 DEF Sound
  <2> QED
    BY <2>3, <2>4 DEF CalmInv
<1> QED
  BY <1>1, <1>2, <1>3, <1>4, <1>5, <1>6 DEF Next

-----------------------------------------------------------------------------
(* What the invariant says of the checked properties.                      *)

\* In a calm window, however many wallet calls fail or lose their answer, and over one
\* eviction: at most one operation waits for the wallet, the capture it waits for has the
\* number after the row's and the amount the row says is pending, nothing is recorded in
\* the wallet beyond it, and what is recorded under it fits what is pending.  Until
\* something goes wrong the row's reservation is also the one that is active, and holds
\* what the row says.
THEOREM WindowInvHolds == Spec => []WindowInv
BY TypeInvHolds, WindowInit, WindowStep, PTL DEF Spec

LEMMA TrackedFollows == TypeInv /\ WindowInv => (Calm => TrackedByWindow)
<1> SUFFICES ASSUME TypeInv, CalmInv,
                    NEW r \in Reservations, rsv[r].status = "active", w.res # r
             PROVE  Untouched(r) /\ (Clean => \E t \in Slots : task[t].kind = "boot")
  BY DEF WindowInv, TrackedByWindow, Clean
<1>1. PICK t \in Slots : Alone(t) /\ Sound(w, task[t], spent)
  BY SomeAlone
<1>2. Untouched(r)
  BY <1>1 DEF Sound, Fits, RowIsNext, Blank, Recorded, Unextended, Untouched
<1>3. task[t].kind \in {"none", "boot", "flush", "close"}
  BY TaskTypes DEF TypeInv
<1>4. Clean => task[t].kind = "boot"
  BY <1>1, <1>3 DEF Sound, Backed, OnlyActive
<1> QED
  BY <1>2, <1>4

LEMMA BooksFollow == TypeInv /\ WindowInv => (Calm /\ NoEvictionYet => BooksAgree)
<1> SUFFICES ASSUME CalmInv, Clean, \A t \in Slots : Idle(t), Open(w), ~SeqPending(w)
             PROVE  w.alloc = rsv[w.res].alloc /\ w.flushed = rsv[w.res].captured
  BY DEF WindowInv, BooksAgree, Clean
<1>1. PICK t \in Slots : Alone(t) /\ Sound(w, task[t], spent)
  BY SomeAlone
<1> QED
  BY <1>1 DEF Idle, Sound, Backed, RestIsBacked

LEMMA PayloadFollows ==
  ASSUME CostsAreNat
  PROVE  TypeInv /\ WindowInv => (Calm => PayloadStable)
<1> SUFFICES ASSUME TypeInv, CalmInv, ~w.recovery, NEW t \in Slots, task[t].reply = "conflict"
             PROVE  LargerFlush(task[t]) \/ OtherTime(task[t])
  BY DEF WindowInv, PayloadStable
<1>1. PICK k \in Task : k = task[t] /\ Shaped(k) /\ k.kind \in {"none", "boot", "flush", "close"}
  BY TaskTypes DEF TypeInv, TypeOK, TasksAreShaped
<1>2. k.kind # "none"
  BY <1>1 DEF Shaped
<1>3. Sound(w, k, spent)
  BY <1>1, <1>2, BusyIsSound DEF Idle
<1>4. InFlight(w, k) /\ FoundOther(k)
  BY <1>1, <1>2, <1>3 DEF Sound, Fits, InFlight
<1>5. PICK r \in Reservations, q \in Seqs : r = k.snap.res /\ q = k.seq
  BY <1>1, <1>4 DEF Shaped, FoundOther
<1>6. w \in Row /\ r = w.res /\ q = w.seq + 1 /\ SeqPending(w) /\ Open(w)
  <2>1. w \in Row
    BY DEF TypeInv, TypeOK
  <2> QED
    BY <1>4, <1>5, <2>1, RowTypes DEF InFlight, SeqPending
<1>7. FitsKey(w, q)
  BY <1>3, <1>6 DEF Sound, Keyed
<1>8. /\ (k.kind = "close") = w.pend.final /\ w.pend.amount = k.amount
      /\ k.kind = "flush" => k.refill = w.pend.refill
      /\ k.call = "extend" => k.refill > 0
  BY <1>4 DEF InFlight
<1>9. CASE k.call = "capture" /\ captures[r][q] \notin {NotRecorded, k.amount}
  <2>1. w.pend.refill = 0 /\ ~w.pend.final /\ captures[r][q] < k.amount
    BY <1>6, <1>7, <1>8, <1>9 DEF FitsKey
  <2>2. k.kind = "flush" /\ k.refill = 0
    BY <1>1, <1>2, <1>8, <1>9, <2>1 DEF Shaped
  <2>3. captures[r][q] \in Nat /\ k.amount \in Nat
    BY <1>9 DEF TypeInv, TypeOK, Task
  <2> QED
    BY <1>1, <1>5, <1>9, <2>1, <2>2, <2>3 DEF LargerFlush
<1>10. CASE /\ k.call = "extend" /\ extends[r][q].granted # NotRecorded
            /\ extends[r][q].amount # k.refill \/ extends[r][q].at # k.at
  <2>1. k.kind = "flush" /\ w.pend.refill = k.refill /\ k.refill # 0
    BY <1>1, <1>8, <1>10 DEF Shaped, Task
  <2>2. extends[r][q].amount = k.refill
    BY <1>6, <1>7, <1>10, <2>1 DEF FitsKey, Unextended
  <2> QED
    BY <1>1, <1>5, <1>10, <2>2 DEF OtherTime
<1> QED
  BY <1>4, <1>5, <1>9, <1>10 DEF FoundOther

LEMMA FundedFollows == TypeInv /\ WindowInv => (Calm /\ Clean => FundedUsage)
<1> SUFFICES ASSUME TypeInv, CalmInv, Clean, Open(w)
             PROVE  w.consumed - w.flushed - CapturedAhead(w) <= HeldBy(w.res)
  BY DEF WindowInv, FundedUsage
<1>1. w \in Row /\ w.res \in Reservations
  BY RowTypes DEF TypeInv, TypeOK, Open, NoReservation, Reservations
<1>2. PICK r \in Reservations : r = w.res
  BY <1>1
<1>3. PICK a, c \in Nat : a = rsv[r].alloc /\ c = rsv[r].captured
  BY DEF TypeInv, TypeOK, Reservation
<1>4. CapturedAhead(w) \in Nat
  <2>1. CASE SeqPending(w)
    <3>1. w.pend.seq \in Seqs
      BY <1>1, <2>1, RowTypes, BoundsAssumption DEF SeqPending, Seqs
    <3>2. captures[r][w.pend.seq] \in Nat \cup {NotRecorded}
      BY <3>1 DEF TypeInv, TypeOK
    <3> QED
      BY <1>2, <2>1, <3>2 DEF CapturedAhead, Greatest, NotRecorded
  <2> QED
    BY <2>1 DEF CapturedAhead
<1>5. PICK t \in Slots : Alone(t) /\ Sound(w, task[t], spent)
  BY SomeAlone
<1>6. PICK k \in Task : k = task[t] /\ k.kind \in {"none", "boot", "flush", "close"}
                        /\ k.amount \in Nat /\ k.value \in Nat
  BY TaskTypes DEF TypeInv
<1>7. Fits(w, k) /\ Backed(w, k) /\ w.consumed <= w.alloc
  BY <1>5, <1>6 DEF Sound, Backed, RowIsBacked
<1>8. CASE k.kind = "none"
  <2>1. a = w.alloc /\ c = w.flushed
    BY <1>2, <1>3, <1>7, <1>8 DEF Backed, RestIsBacked
  <2> QED
    BY <1>1, <1>2, <1>3, <1>4, <1>7, <2>1, RowTypes DEF HeldBy
<1>9. CASE k.kind \in {"flush", "close"}
  <2>1. InFlight(w, k) /\ FlightIsBacked(w, k)
    BY <1>7, <1>9 DEF Fits, Backed
  <2>2. a >= w.alloc
    BY <1>1, <1>2, <1>3, <1>6, <2>1, RowTypes DEF FlightIsBacked
  <2>3. CASE k.call = "capture" /\ k.reply = "none"
    <3>1. c = w.flushed
      BY <1>2, <1>3, <2>1, <2>3 DEF FlightIsBacked
    <3> QED
      BY <1>1, <1>2, <1>3, <1>4, <1>7, <2>2, <3>1, RowTypes DEF HeldBy
  <2>4. CASE ~(k.call = "capture" /\ k.reply = "none")
    <3>1. c = w.flushed + k.amount
      BY <1>2, <1>3, <2>1, <2>4 DEF FlightIsBacked
    <3>2. k.call \in {"extend", "release"} \/ k.reply = "ok"
      BY <1>5, <1>6, <1>9, <2>1, <2>4 DEF FlightIsBacked, TypeInv, TasksAreShaped, Shaped, Task
    <3>3. SeqPending(w) /\ captures[r][w.pend.seq] = k.amount
      BY <1>1, <1>2, <2>1, <3>2, RowTypes DEF InFlight, SeqPending
    <3>4. CapturedAhead(w) = k.amount
      BY <1>2, <1>6, <3>3 DEF CapturedAhead, Greatest
    <3> QED
      BY <1>1, <1>2, <1>3, <1>6, <1>7, <2>2, <3>1, <3>4, RowTypes DEF HeldBy
  <2> QED
    BY <2>3, <2>4
<1>10. CASE k.kind = "boot"
  BY <1>7, <1>10 DEF Fits
<1> QED
  BY <1>6, <1>8, <1>9, <1>10

\* Whatever calls fail, and over an eviction, what is active in the wallet is the row's
\* reservation, or nothing was ever captured from it or added to it.  Until something goes
\* wrong, its creation is on the way: no close and no bootstrap leaves customer money
\* reserved behind the window.
THEOREM WindowTracksWallet == Spec => [](Calm => TrackedByWindow)
BY TypeInvHolds, WindowInvHolds, TrackedFollows, PTL

\* Until a wallet call fails or the object is evicted, a window at rest and the wallet
\* agree on what its reservation was given and what was captured from it.
THEOREM WindowBooksAgree == Spec => [](Calm /\ NoEvictionYet => BooksAgree)
BY TypeInvHolds, WindowInvHolds, BooksFollow, PTL

\* When no event is a correction: a flush or close sent again, after a failed call or a
\* lost answer, however many, or by the constructor after an eviction, carries what it
\* carried before, and the wallet finds another payload under a key only when the alarm
\* planned a larger flush over a failed one or an extension has another effective time.
THEOREM KeysKeepTheirPayload ==
  ASSUME CostsAreNat
  PROVE  Spec => [](Calm => PayloadStable)
BY TypeInvHolds, WindowInvHolds, PayloadFollows, PTL

\* Until a wallet call fails or the object is evicted, the window never accepts usage
\* that the wallet would refuse to capture, also between a capture and the row that says
\* so.
THEOREM UsageIsFunded == Spec => [](Calm /\ Clean => FundedUsage)
BY TypeInvHolds, WindowInvHolds, FundedFollows, PTL

-----------------------------------------------------------------------------
(* The window implements UsageCharges.                                     *)

ChargedWithin == Calm => charged <= spent

LEMMA ChargedFollows ==
  ASSUME CostsAreNat
  PROVE  TypeInv /\ WindowInv => ChargedWithin
<1> SUFFICES ASSUME TypeInv, CalmInv PROVE charged <= spent
  BY DEF WindowInv, ChargedWithin
<1>1. Pays(w, spent)
  BY SomeAlone DEF Sound
<1>2. PICK a \in Nat : a = Ahead(w)
  BY AheadTypes DEF TypeInv, TypeOK
<1> QED
  BY <1>1, <1>2, RowTypes DEF Pays, TypeInv, TypeOK

LEMMA HandlesAccrues ==
  ASSUME CostsAreNat, NEW t, NEW x, NEW recover, Handles(t, x, recover)
  PROVE  spent' >= spent
BY DEF Handles, Spends

LEMMA CommandCharges ==
  ASSUME NEW t \in Slots, NEW reply, NEW value, TypeOK, WalletCommand(t, reply, value)
  PROVE  charged' >= charged
<1>1. charged \in Nat /\ task[t].amount \in Nat
  BY TaskTypes DEF TypeOK
<1>2. UNCHANGED charged \/ charged' = charged + task[t].amount
  BY DEF WalletCommand, WalletCreate, WalletCapture, WalletExtend, WalletRelease, walletVars
<1> QED
  BY <1>1, <1>2

\* A step accrues usage, or charges for it, or does neither.
LEMMA AccruesOrCharges ==
  ASSUME CostsAreNat, TypeInv, [Next]_vars
  PROVE  \/ spent' >= spent /\ charged' = charged
         \/ charged' >= charged /\ spent' = spent
<1>0. TypeOK /\ TasksAreShaped /\ spent \in Int /\ charged \in Nat
  BY DEF TypeInv, TypeOK
<1>1. ASSUME NEW t \in Slots, Step(t) PROVE spent' >= spent /\ charged' = charged
  <2>1. charged' = charged
    BY <1>0, <1>1, SetsOut DEF walletVars
  <2>2. CASE Arrives(t)
    BY <2>1, <2>2, HandlesAccrues DEF Arrives, Resumes
  <2>3. CASE Boots(t) \/ Restarts
    BY <1>0, <2>1, <2>3 DEF Boots, Restarts
  <2>4. CASE \E reason \in AlarmReasons \cup {"deletion_requested"} : AlarmCloses(t, reason)
    BY <1>0, <2>1, <2>4, AlarmCloseForms, HandlesAccrues
  <2> QED
    BY <1>0, <1>1, <2>2, <2>3, <2>4, DeliverForms, DeniedForms, FlushForms, EvictForms DEF Step
<1>2. ASSUME NEW t \in Slots, Continue(t) PROVE spent' >= spent /\ charged' = charged
  <2>1. Goes(t) /\ charged' = charged
    BY <1>0, <1>2, ContinueForms, GoesTypes DEF walletVars
  <2>2. CASE \E x \in Row : Resumes(t, x)
    BY <2>1, <2>2, HandlesAccrues DEF Resumes
  <2>3. CASE Calls(t, "extend") \/ Calls(t, "release")
    BY <1>0, <2>1, <2>3 DEF Calls
  <2> QED
    BY <1>0, <2>1, <2>2, <2>3 DEF Goes, TypeOK
<1>3. ASSUME NEW t \in Slots, WalletAnswers(t) \/ WalletFails(t) \/ AnswerLost(t)
      PROVE  charged' >= charged /\ spent' = spent
  <2>1. spent' = spent
    BY <1>3 DEF WalletAnswers, WalletFails, AnswerLost
  <2>2. CASE UNCHANGED walletVars
    BY <1>0, <2>1, <2>2 DEF walletVars
  <2>3. CASE \E reply \in Replies, value \in Values : WalletCommand(t, reply, value)
    BY <1>0, <2>1, <2>3, CommandCharges
  <2> QED
    BY <1>0, <1>3, <2>2, <2>3, AnswerForms, FaultForms
<1>4. CASE TopUp \/ RequestDeletion \/ UNCHANGED vars
  BY <1>0, <1>4 DEF TopUp, RequestDeletion, vars, walletVars
<1> QED
  BY <1>1, <1>2, <1>3, <1>4 DEF Next

\* A calm window implements UsageCharges when no event is a correction, whatever calls
\* fail, whatever answers are lost, and over an eviction: the customer is charged for
\* accepted usage, never for more than was accepted or twice for the same, and no charge
\* is taken back.
THEOREM ChargesImplemented ==
  ASSUME CostsAreNat
  PROVE  Spec /\ []Calm => ChargesSpec
<1>1. Init => Charges!Init
  BY DEF Init, Charges!Init
<1>2. /\ TypeInv /\ TypeInv' /\ ChargedWithin' /\ Calm' /\ [Next]_vars
      => [Charges!Next]_(Charges!vars)
  <2> SUFFICES ASSUME TypeInv, TypeInv', charged' <= spent', [Next]_vars
               PROVE  [Charges!Next]_(Charges!vars)
    BY DEF ChargedWithin
  <2>1. spent \in Int /\ charged \in Nat /\ spent' \in Int /\ charged' \in Nat
    BY DEF TypeInv, TypeOK
  <2>2. \/ spent' >= spent /\ charged' = charged
        \/ charged' >= charged /\ spent' = spent
    BY AccruesOrCharges
  <2> QED
    BY <2>1, <2>2 DEF Charges!Next, Charges!Accrue, Charges!Charge, Charges!vars
<1>3. TypeInv /\ WindowInv => ChargedWithin
  BY ChargedFollows
<1> QED
  BY <1>1, <1>2, <1>3, TypeInvHolds, WindowInvHolds, PTL DEF Spec, ChargesSpec, Charges!Spec
=============================================================================
