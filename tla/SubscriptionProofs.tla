------------------------- MODULE SubscriptionProofs -------------------------
(***************************************************************************)
(* Proofs about module SubscriptionCycle, for any number of runs, tasks,   *)
(* faults and lost locks, any length of a cycle, and any set of plans.     *)
(*                                                                         *)
(* The last period of a phase exists because each step keeps one that ends *)
(* no earlier than the others (HasLast): without it the cursor of the code *)
(* would be no time at all, and not even the types would hold.  While no   *)
(* run outlives its lock, what a run read of the cycle stays true          *)
(* (Ordered), so the cycle goes forward.  Periods tile because no period   *)
(* begins after the end it is about to be cut at (Within), which in turn   *)
(* needs that edits look ahead and that two runs do not make periods at    *)
(* once around an edit (Apart).                                            *)
(***************************************************************************)
EXTENDS SubscriptionCycle, TLAPS

-----------------------------------------------------------------------------
(* Arithmetic, and the cycle windows.                                      *)

\* What division by a cycle's length gives.
LEMMA DivBounds ==
  ASSUME NEW C \in Nat \ {0}, NEW t \in Nat
  PROVE  t \div C \in Nat /\ (t \div C) * C <= t /\ t < (t \div C) * C + C
BY Z3

LEMMA DivUnique ==
  ASSUME NEW C \in Nat \ {0}, NEW t \in Nat, NEW k \in Nat, k * C <= t, t < k * C + C
  PROVE  t \div C = k
BY Z3

LEMMA DivMul ==
  ASSUME NEW C \in Nat \ {0}, NEW k \in Nat
  PROVE  (C * k) \div C = k
BY Z3

LEMMA DivInt ==
  ASSUME NEW C \in Nat \ {0}, NEW a \in Int
  PROVE  a \div C \in Int
BY Z3

LEMMA MulInt ==
  ASSUME NEW a \in Int, NEW b \in Int
  PROVE  a * b \in Int
BY Z3

\* The aligned cycle that t is in starts here.
Floor(t) == (t \div CycleLength) * CycleLength

LEMMA ConstantTypes ==
  /\ CycleLength \in Nat \ {0} /\ MaxTime \in Nat /\ Never \in Nat /\ MaxTime < Never
  /\ Times = 0 .. Never /\ Times \subseteq Nat /\ 0 \in Times /\ Never \in Times
  /\ Runners = 1 .. MaxRuns /\ MaxRuns \in Nat
  /\ Grace \in Nat /\ Lookahead \in Nat /\ Lookback \in Nat /\ MaxEdits \in Nat
  /\ MaxReports \in Nat /\ MaxFaults \in Nat /\ MaxOverlaps \in Nat
<1>1. 2 * CycleLength \in Nat /\ 2 * CycleLength > 0
  BY ParametersAssumption
<1>. QED
  BY <1>1, ParametersAssumption DEF Times, Never, Runners

LEMMA FloorBounds ==
  ASSUME NEW t \in Nat
  PROVE  Floor(t) \in Nat /\ Floor(t) <= t /\ t < Floor(t) + CycleLength
<1>1. /\ t \div CycleLength \in Nat
      /\ (t \div CycleLength) * CycleLength <= t
      /\ t < (t \div CycleLength) * CycleLength + CycleLength
  BY ConstantTypes, DivBounds
<1>2. (t \div CycleLength) * CycleLength \in Nat
  <2>. DEFINE q == t \div CycleLength
  <2>1. q \in Nat /\ CycleLength \in Nat
    BY <1>1, ConstantTypes
  <2>. HIDE DEF q
  <2>2. q * CycleLength \in Nat
    BY <2>1, Z3
  <2>. QED
    BY <2>2 DEF q
<1>. QED
  BY <1>1, <1>2 DEF Floor

\* Window, inside its stretch, in terms of Floor.
LEMMA WindowInside ==
  ASSUME NEW t \in Times, NEW from \in Times, NEW end \in Times, from <= t, t < end
  PROVE  Window(t, from, end) =
           IF t < plan.trialEnd THEN [start |-> from, end |-> Least(plan.trialEnd, end)]
           ELSE [start |-> Greatest(Floor(t), Greatest(from, plan.trialEnd)),
                 end |-> Least(Floor(t) + CycleLength, end)]
BY ConstantTypes DEF Window, Floor

LEMMA WindowOutside ==
  ASSUME NEW t \in Times, NEW from \in Times, NEW end \in Times, t < from \/ t >= end
  PROVE  Window(t, from, end) = NoWindow
BY DEF Window

\* A window lies in its stretch and has the time it is asked for.
LEMMA WindowAround ==
  ASSUME NEW t \in Times, NEW from \in Times, NEW end \in Times, from <= t, t < end,
         plan.trialEnd \in Times
  PROVE  /\ Window(t, from, end) \in Cycle
         /\ Window(t, from, end) # NoWindow
         /\ from <= Window(t, from, end).start /\ Window(t, from, end).start <= t
         /\ t < Window(t, from, end).end /\ Window(t, from, end).end <= end
<1>1. t \in Nat /\ from \in Nat /\ end \in Nat /\ plan.trialEnd \in Nat
  BY ConstantTypes
<1>2. Floor(t) \in Nat /\ Floor(t) <= t /\ t < Floor(t) + CycleLength
  BY <1>1, FloorBounds
<1>3. CASE t < plan.trialEnd
  <2>1. Window(t, from, end) = [start |-> from, end |-> Least(plan.trialEnd, end)]
    BY <1>3, WindowInside
  <2>. QED
    BY <1>1, <1>3, <2>1, ConstantTypes DEF Cycle, NoWindow, Least
<1>4. CASE ~(t < plan.trialEnd)
  <2>1. Window(t, from, end) = [start |-> Greatest(Floor(t), Greatest(from, plan.trialEnd)),
                                end |-> Least(Floor(t) + CycleLength, end)]
    BY <1>4, WindowInside
  <2>2. /\ Greatest(Floor(t), Greatest(from, plan.trialEnd)) \in Times
        /\ from <= Greatest(Floor(t), Greatest(from, plan.trialEnd))
        /\ Greatest(Floor(t), Greatest(from, plan.trialEnd)) <= t
    BY <1>1, <1>2, <1>4, ConstantTypes DEF Greatest
  <2>3. /\ Least(Floor(t) + CycleLength, end) \in Times
        /\ t < Least(Floor(t) + CycleLength, end)
        /\ Least(Floor(t) + CycleLength, end) <= end
    BY <1>1, <1>2, ConstantTypes DEF Least
  <2>. QED
    BY <1>1, <2>1, <2>2, <2>3, ConstantTypes DEF Cycle, NoWindow
<1>. QED
  BY <1>3, <1>4

LEMMA WindowType ==
  ASSUME NEW t \in Times, NEW from \in Times, NEW end \in Times, plan.trialEnd \in Times
  PROVE  Window(t, from, end) \in Cycle
<1>1. NoWindow \in Cycle
  BY ConstantTypes DEF NoWindow, Cycle
<1>. QED
  BY <1>1, WindowAround, WindowOutside, ConstantTypes

\* Of two times, the earlier is in the same aligned cycle or in one that ended.
LEMMA FloorStep ==
  ASSUME NEW s \in Nat, NEW t \in Nat, s <= t
  PROVE  Floor(s) = Floor(t) \/ Floor(s) + CycleLength <= Floor(t)
<1>. DEFINE i == s \div CycleLength
            j == t \div CycleLength
<1>1. /\ i \in Nat /\ i * CycleLength <= s /\ s < i * CycleLength + CycleLength
      /\ j \in Nat /\ j * CycleLength <= t /\ t < j * CycleLength + CycleLength
  BY ConstantTypes, DivBounds
<1>2. Floor(s) = i * CycleLength /\ Floor(t) = j * CycleLength
  BY DEF Floor
<1>. HIDE DEF i, j
<1>3. ASSUME NEW C \in Nat \ {0}, i * C <= s, s < i * C + C, j * C <= t, t < j * C + C
      PROVE  i * C = j * C \/ i * C + C <= j * C
  BY <1>1, <1>3, Z3
<1>. QED
  BY <1>1, <1>2, <1>3, ConstantTypes

\* The cycle before an aligned one ends where that begins.
LEMMA FloorBefore ==
  ASSUME NEW t \in Nat, Floor(t) > 0
  PROVE  Floor(Floor(t) - 1) + CycleLength = Floor(t)
<1>. DEFINE j == t \div CycleLength
            u == Floor(t) - 1
<1>1. j \in Nat /\ Floor(t) = j * CycleLength /\ CycleLength \in Nat \ {0} /\ Floor(t) \in Nat
  BY ConstantTypes, DivBounds, FloorBounds DEF Floor
<1>2. u \in Nat /\ u = j * CycleLength - 1
  BY <1>1
<1>. HIDE DEF j, u
<1>3. ASSUME NEW C \in Nat \ {0}, u = j * C - 1
      PROVE  j - 1 \in Nat /\ (j - 1) * C <= u /\ u < (j - 1) * C + C
  BY <1>1, <1>2, <1>3, Z3
<1>4. u \div CycleLength = j - 1
  BY <1>1, <1>2, <1>3, DivUnique
<1>5. (j - 1) * CycleLength + CycleLength = j * CycleLength
  BY <1>1, Z3
<1>. QED
  BY <1>1, <1>4, <1>5 DEF Floor, u

\* Of two windows of a stretch, the later one does not begin or end earlier, and
\* they are the same or do not overlap.
LEMMA WindowsOrdered ==
  ASSUME NEW s \in Times, NEW t \in Times, NEW from \in Times, NEW end \in Times,
         from <= s, s <= t, t < end, plan.trialEnd \in Times
  PROVE  /\ Window(s, from, end).end <= Window(t, from, end).end
         /\ \/ Window(s, from, end) = Window(t, from, end)
            \/ Window(s, from, end).end <= Window(t, from, end).start
<1>1. s \in Nat /\ t \in Nat /\ from \in Nat /\ end \in Nat /\ plan.trialEnd \in Nat
      /\ CycleLength \in Nat \ {0}
  BY ConstantTypes
<1>2. /\ Floor(s) \in Nat /\ Floor(s) <= s /\ s < Floor(s) + CycleLength
      /\ Floor(t) \in Nat /\ Floor(t) <= t /\ t < Floor(t) + CycleLength
      /\ Floor(s) = Floor(t) \/ Floor(s) + CycleLength <= Floor(t)
  BY <1>1, FloorBounds, FloorStep
<1>3. /\ Window(s, from, end) =
           IF s < plan.trialEnd THEN [start |-> from, end |-> Least(plan.trialEnd, end)]
           ELSE [start |-> Greatest(Floor(s), Greatest(from, plan.trialEnd)),
                 end |-> Least(Floor(s) + CycleLength, end)]
      /\ Window(t, from, end) =
           IF t < plan.trialEnd THEN [start |-> from, end |-> Least(plan.trialEnd, end)]
           ELSE [start |-> Greatest(Floor(t), Greatest(from, plan.trialEnd)),
                 end |-> Least(Floor(t) + CycleLength, end)]
  BY <1>1, WindowInside
<1>. QED
  BY <1>1, <1>2, <1>3 DEF Least, Greatest

\* A window that does not begin its stretch begins where another one ends.
LEMMA WindowsMeet ==
  ASSUME NEW t \in Times, NEW from \in Times, NEW end \in Times, from <= t, t < end,
         plan.trialEnd \in Times, Window(t, from, end).start # from
  PROVE  \E u \in from .. (t - 1) : Window(u, from, end).end = Window(t, from, end).start
<1>1. t \in Nat /\ from \in Nat /\ end \in Nat /\ plan.trialEnd \in Nat
      /\ CycleLength \in Nat \ {0}
  BY ConstantTypes
<1>. DEFINE start == Window(t, from, end).start
            u == start - 1
<1>2. ~(t < plan.trialEnd) /\ start = Greatest(Floor(t), Greatest(from, plan.trialEnd))
  BY <1>1, WindowInside
<1>3. from <= start /\ start <= t /\ start \in Nat
  BY <1>1, WindowAround DEF Cycle, Times
<1>4. u \in from .. (t - 1) /\ u \in Times /\ u < end /\ from <= u
  BY <1>1, <1>3, ConstantTypes DEF Times
<1>5. Window(u, from, end) =
           IF u < plan.trialEnd THEN [start |-> from, end |-> Least(plan.trialEnd, end)]
           ELSE [start |-> Greatest(Floor(u), Greatest(from, plan.trialEnd)),
                 end |-> Least(Floor(u) + CycleLength, end)]
  BY <1>4, WindowInside
<1>6. Floor(t) \in Nat /\ Floor(t) <= t
  BY <1>1, FloorBounds
<1>. HIDE DEF start
<1>7. CASE start = plan.trialEnd
  BY <1>1, <1>2, <1>3, <1>4, <1>5, <1>7 DEF Least, start
<1>8. CASE start # plan.trialEnd
  <2>1. start = Floor(t) /\ Floor(t) > 0 /\ Floor(t) > plan.trialEnd
    BY <1>1, <1>2, <1>3, <1>6, <1>8 DEF Greatest, start
  <2>2. Floor(u) + CycleLength = Floor(t)
    BY <1>1, <2>1, FloorBefore
  <2>3. Window(u, from, end).end = Least(Floor(t), end)
    BY <1>1, <1>3, <1>5, <2>1, <2>2
  <2>. QED
    BY <1>1, <1>3, <1>4, <2>1, <2>3, <1>6 DEF Least, start
<1>. QED
  BY <1>7, <1>8

-----------------------------------------------------------------------------
(* Types.                                                                  *)

LEMMA NoRunType ==
  NoRun \in Run /\ [NoRun EXCEPT !.pc = "dead"] \in Run
BY ConstantTypes DEF NoRun, Run, Cycle, Kinds, Statuses, Final

LEMMA FinishedType ==
  ASSUME NEW r \in Run, NEW status \in Statuses
  PROVE  /\ Finished(r, status) \in Run
         /\ Then(r, Finished(r, status)) \in Run
         /\ Finished([r EXCEPT !.renewed = FALSE], status) \in Run
         /\ Then(r, Finished([r EXCEPT !.renewed = FALSE], status)) \in Run
<1>1. NoRun \in Run
  BY NoRunType
<1>. QED
  BY <1>1 DEF Finished, Then, Run

LEMMA ParkedType ==
  ASSUME NEW r \in Run
  PROVE  Parked(r) \in Run
BY FinishedType DEF Parked, Statuses

LEMMA ReadType ==
  ASSUME TypeOK, NEW task \in Task
  PROVE  Read(task) \in Run
<1>1. NoRun \in Run
  BY NoRunType
<1>. QED
  BY <1>1 DEF Read, Run, Task, TypeOK

LEMMA DispatchType ==
  ASSUME TypeOK, NEW r \in Run
  PROVE  Dispatch(r) \in Run
<1>1. r.status \in Statuses /\ r.kind \in Kinds
  BY DEF Run
<1>2. Finished(r, r.status) \in Run
  BY <1>1, FinishedType
<1>3. /\ Finished(r, "expired") \in Run /\ Finished(r, "active") \in Run
      /\ Finished(r, "past_due") \in Run
  BY FinishedType DEF Statuses, Final
<1>4. [r EXCEPT !.pc = "renew"] \in Run /\ [r EXCEPT !.pc = "phases"] \in Run
  BY DEF Run
<1>5. \A due \in SUBSET Times : [r EXCEPT !.pc = "bill", !.todo = due] \in Run
        /\ [r EXCEPT !.pc = "phases", !.todo = due] \in Run
  BY DEF Run
<1>6. RenewEvent(r) \in Run
  BY <1>2, <1>3, <1>4 DEF RenewEvent
<1>7. InvoiceEvent(r) \in Run
  <2>. DEFINE due == {p.start : p \in {q \in period : Invoiceable(q, r.at)}}
  <2>1. due \in SUBSET Times
    BY DEF TypeOK, Period
  <2>. HIDE DEF due
  <2>2. [r EXCEPT !.pc = IF due = {} THEN "phases" ELSE "bill", !.todo = due] \in Run
    BY <2>1, <1>5
  <2>. QED
    BY <2>2, <1>2 DEF InvoiceEvent, due
<1>8. ActivateEvent(r) \in Run
  BY <1>2, <1>4 DEF ActivateEvent
<1>9. OutcomeEvent(r) \in Run \/ r.kind \notin {"success", "failure"}
  BY <1>2, <1>3, <1>4 DEF OutcomeEvent
<1>. QED
  BY <1>1, <1>4, <1>6, <1>7, <1>8, <1>9 DEF Dispatch, Kinds

LEMMA TriggeredType ==
  ASSUME TypeOK, NEW k \in Kinds, NEW q \in Triggered(k)
  PROVE  q \subseteq Task
BY ConstantTypes DEF Triggered, TypeOK, Task, Times

Left == [edits : 0 .. MaxEdits, reports : 0 .. MaxReports, faults : 0 .. MaxFaults,
         overlaps : 0 .. MaxOverlaps]

LEMMA SpendType ==
  ASSUME TypeOK, Edits \/ Reports \/ Fails \/ Overlaps
  PROVE  left' \in Left
<1>. USE ConstantTypes DEF TypeOK, Left, Spend
<1>1. CASE Edits
  BY <1>1, SMTT(30) DEF Edits
<1>2. CASE Reports
  BY <1>2, SMTT(30) DEF Reports
<1>3. CASE Fails
  BY <1>3, SMTT(30) DEF Fails
<1>4. CASE Overlaps
  BY <1>4, SMTT(30) DEF Overlaps
<1>. QED
  BY <1>1, <1>2, <1>3, <1>4

\* A period that is invoiced, cut or new is a period.
LEMMA ChargeType ==
  ASSUME NEW p \in Period
  PROVE  Charge(p) \in Nat
BY ConstantTypes DEF Period, Charge, Duration, Greatest

LEMMA InvoicedType ==
  ASSUME NEW p \in Period
  PROVE  LET after == [p EXCEPT !.status = "invoiced", !.charge = Charge(p)] IN
           after \in Period /\ after.start = p.start /\ after.end = p.end
<1>. DEFINE charge == Charge(p)
<1>1. charge \in Nat
  BY ChargeType
<1>. HIDE DEF charge
<1>2. LET after == [p EXCEPT !.status = "invoiced", !.charge = charge] IN
        after \in Period /\ after.start = p.start /\ after.end = p.end
  BY <1>1 DEF Period
<1>. QED
  BY <1>2 DEF charge

LEMMA PartType ==
  ASSUME NEW charge \in Nat, NEW part \in Int, NEW whole \in Nat
  PROVE  Part(charge, part, whole) \in Int
<1>1. charge * part \in Int
  BY MulInt
<1>. DEFINE product == charge * part
<1>. HIDE DEF product
<1>2. whole # 0 => product \div whole \in Int
  BY <1>1, DivInt DEF product
<1>. QED
  BY <1>2 DEF Part, product

LEMMA CutType ==
  ASSUME NEW p \in Period, NEW end \in Times, plan.mode \in Modes
  PROVE  Cut(p, end) \in Period
<1>1. p.start \in Nat /\ p.end \in Nat /\ end \in Nat /\ p.charge \in Nat /\ p.refund \in Int
      /\ p.due \in Times
  BY ConstantTypes DEF Period
<1>2. Duration(p.start, p.end) \in Nat /\ Unearned(p, end) \in Int
  BY <1>1 DEF Duration, Greatest, Unearned
<1>3. Refund(p, end) \in Int
  BY <1>1, <1>2, PartType DEF Refund
<1>4. p.refund + Refund(p, end) \in Int
  BY <1>1, <1>3
<1>5. Least(p.due, end) \in Times
  BY <1>1 DEF Least
<1>. DEFINE refund == p.refund + Refund(p, end)
            due == Least(p.due, end)
<1>. HIDE DEF refund, due
<1>6. CASE p.end > end /\ p.status = "pending"
  <2>1. Cut(p, end) = [p EXCEPT !.end = end, !.due = IF plan.mode = "pay_in_arrear" THEN due ELSE @]
    BY <1>1, <1>6 DEF Cut, due
  <2>. QED
    BY <2>1, <1>5 DEF Period, due
<1>7. CASE p.end > end /\ p.status # "pending"
  <2>1. Cut(p, end) = [p EXCEPT !.end = end, !.refund = refund,
               !.cut = IF @ = "never" /\ p.status = "paid" THEN "refunded" ELSE "otherwise"]
    BY <1>1, <1>7 DEF Cut, refund
  <2>. QED
    BY <2>1, <1>4 DEF Period, refund
<1>8. CASE p.end <= end
  BY <1>8 DEF Cut
<1>. QED
  BY <1>1, <1>6, <1>7, <1>8

LEMMA NewPeriodType ==
  ASSUME NEW v \in Cycle, plan.trialEnd \in Times
  PROVE  NewPeriod(v) \in Period
BY ConstantTypes DEF NewPeriod, Period, Cycle

LEMMA TypeInit == Init => TypeOK
<1>. SUFFICES ASSUME Init PROVE TypeOK
  OBVIOUS
<1>1. now \in 0 .. MaxTime /\ granted \subseteq Times /\ period \subseteq Period
      /\ lock \in Runners \cup {Unlocked}
  <2>1. now = 0 /\ granted = {} /\ period = {} /\ lock = Unlocked
    BY DEF Init
  <2>. QED
    BY <2>1, ConstantTypes
<1>2. plan \in [mode : Modes, renews : BOOLEAN, trialEnd : Times, end : Times]
  BY ConstantTypes, PlansAssumption DEF Init
<1>3. Window(0, 0, Never) \in Cycle
  BY <1>2, WindowType, ConstantTypes
<1>4. row \in [status : Statuses, cycle : Cycle, renewAt : Times]
  BY <1>3, ConstantTypes DEF Init, Statuses
<1>5. run \in [Runners -> Run]
  BY NoRunType DEF Init
<1>6. queued \subseteq Task
  BY ConstantTypes DEF Init, Task, Kinds
<1>7. left \in Left
  BY ConstantTypes DEF Init, Bounds, Left
<1>8. stranded \in BOOLEAN
  BY Zenon DEF Init
<1>. QED
  BY <1>1, <1>2, <1>4, <1>5, <1>6, <1>7, <1>8 DEF TypeOK, Left

\* TypeOK without the history variable, which every step sets at the end.
Typed ==
  /\ now \in 0 .. MaxTime
  /\ plan \in [mode : Modes, renews : BOOLEAN, trialEnd : Times, end : Times]
  /\ row \in [status : Statuses, cycle : Cycle, renewAt : Times]
  /\ granted \subseteq Times
  /\ period \subseteq Period
  /\ lock \in Runners \cup {Unlocked}
  /\ queued \subseteq Task
  /\ run \in [Runners -> Run]
  /\ left \in Left

LEMMA EnvironmentTyped ==
  ASSUME TypeOK,
         \/ Tick
         \/ \E k \in Crons : Schedule(k)
         \/ \E p \in period : Pay(p) \/ Decline(p)
         \/ \E end \in Ends : UpdatePhase(end) \/ Cancel(end)
  PROVE  Typed'
<1>1. Crons \subseteq Kinds /\ "success" \in Kinds /\ "failure" \in Kinds /\ "periods" \in Kinds
  BY DEF Crons, Kinds
<1>2. CASE Tick
  BY <1>2, ConstantTypes DEF Tick, TypeOK, Typed, Left
<1>3. ASSUME NEW k \in Crons, Schedule(k) PROVE Typed'
  <2>1. queued' \subseteq Task
    BY <1>1, <1>3, TriggeredType DEF Schedule
  <2>. QED
    BY <1>3, <2>1 DEF Schedule, TypeOK, Typed, Left
<1>4. ASSUME NEW p \in period, Pay(p) PROVE Typed'
  <2>1. queued' \subseteq Task
    BY <1>1, <1>4, TriggeredType DEF Pay, TypeOK
  <2>2. period' \subseteq Period
    BY <1>4 DEF Pay, TypeOK, Period
  <2>3. left' \in Left
    BY <1>4, SpendType DEF Pay
  <2>. QED
    BY <1>4, <2>1, <2>2, <2>3 DEF Pay, TypeOK, Typed
<1>5. ASSUME NEW p \in period, Decline(p) PROVE Typed'
  <2>1. queued' \subseteq Task
    BY <1>1, <1>5, TriggeredType DEF Decline
  <2>2. left' \in Left
    BY <1>5, SpendType DEF Decline
  <2>. QED
    BY <1>5, <2>1, <2>2 DEF Decline, TypeOK, Typed
<1>6. ASSUME NEW end \in Ends, UpdatePhase(end) PROVE Typed'
  <2>1. queued' \subseteq Task
    BY <1>1, <1>6, TriggeredType DEF UpdatePhase, TypeOK
  <2>2. left' \in Left
    BY <1>6, SpendType DEF UpdatePhase
  <2>3. plan' \in [mode : Modes, renews : BOOLEAN, trialEnd : Times, end : Times]
    BY <1>6, PlansAssumption DEF UpdatePhase, TypeOK
  <2>. QED
    BY <1>6, <2>1, <2>2, <2>3 DEF UpdatePhase, TypeOK, Typed
<1>7. ASSUME NEW end \in Ends, Cancel(end) PROVE Typed'
  <2>1. left' \in Left
    BY <1>7, SpendType DEF Cancel
  <2>2. plan' \in [mode : Modes, renews : BOOLEAN, trialEnd : Times, end : Times]
    BY <1>7, PlansAssumption DEF Cancel, TypeOK, Least
  <2>3. row' \in [status : Statuses, cycle : Cycle, renewAt : Times]
    BY <1>7 DEF Cancel, TypeOK, Statuses, Final
  <2>. QED
    BY <1>7, <2>1, <2>2, <2>3 DEF Cancel, TypeOK, Typed
<1>. QED
  BY <1>2, <1>3, <1>4, <1>5, <1>6, <1>7

LEMMA StartTyped ==
  ASSUME TypeOK, NEW task \in queued, Start(task) \/ Busy(task)
  PROVE  Typed'
<1>1. CASE Start(task)
  <2>1. PICK w \in Runners : lock' = w /\ run' = [run EXCEPT ![w] = Dispatch(Read(task))]
    BY <1>1 DEF Start
  <2>2. Dispatch(Read(task)) \in Run
    BY ReadType, DispatchType DEF TypeOK
  <2>. HIDE DEF Dispatch, Read
  <2>3. run' \in [Runners -> Run] /\ lock' \in Runners \cup {Unlocked}
    BY <2>1, <2>2 DEF TypeOK
  <2>. QED
    BY <1>1, <2>3 DEF Start, TypeOK, Typed, Left
<1>2. CASE Busy(task)
  <2>1. left' \in Left
    BY <1>2, SpendType DEF Busy
  <2>. QED
    BY <1>2, <2>1 DEF Busy, TypeOK, Typed
<1>. QED
  BY <1>1, <1>2

\* Where a step takes a run.
LEMMA ThenType ==
  ASSUME NEW r \in Run, NEW next \in Run
  PROVE  Then(r, next) \in Run
BY NoRunType DEF Then

\* Some period ends last: CHOOSE finds the cursor.
HasLast(periods) ==
  periods = {} \/ \E q \in periods : \A p \in periods : p.end <= q.end

LEMMA CursorIsLast ==
  ASSUME NEW periods \in SUBSET Period, HasLast(periods)
  PROVE  /\ Cursor(periods) \in Times
         /\ \A p \in periods : p.end <= Cursor(periods)
         /\ periods # {} => \E q \in periods : q.end = Cursor(periods)
<1>1. CASE periods = {}
  BY <1>1, ConstantTypes DEF Cursor
<1>2. CASE periods # {}
  <2>. DEFINE ends == {p.end : p \in periods}
              Last(e) == \A p \in periods : p.end <= e
  <2>1. \E e \in ends : Last(e)
    BY <1>2 DEF HasLast
  <2>2. Cursor(periods) = CHOOSE e \in ends : Last(e)
    BY <1>2 DEF Cursor
  <2>. HIDE DEF Last
  <2>3. Cursor(periods) \in ends /\ Last(Cursor(periods))
    BY <2>1, <2>2
  <2>. QED
    BY <1>2, <2>3 DEF Last, Period
<1>. QED
  BY <1>1, <1>2

\* What a cut does to the times of a period.
LEMMA CutTimes ==
  ASSUME NEW p \in Period, NEW end \in Times
  PROVE  /\ Cut(p, end).start = p.start /\ Cut(p, end).end = Least(p.end, end)
         /\ p.end <= end => Cut(p, end) = p
<1>1. p.start \in Nat /\ p.end \in Nat /\ end \in Nat
  BY ConstantTypes DEF Period
<1>. DEFINE refund == p.refund + Refund(p, end)
            due == Least(p.due, end)
<1>2. Cut(p, end) =
        IF p.end <= end THEN p
        ELSE IF p.status = "pending"
        THEN [p EXCEPT !.end = end, !.due = IF plan.mode = "pay_in_arrear" THEN due ELSE @]
        ELSE [p EXCEPT !.end = end, !.refund = refund,
               !.cut = IF @ = "never" /\ p.status = "paid" THEN "refunded" ELSE "otherwise"]
  BY DEF Cut
<1>. HIDE DEF refund, due
<1>. QED
  BY <1>1, <1>2 DEF Period, Least

LEMMA CutHasLast ==
  ASSUME NEW periods \in SUBSET Period, HasLast(periods), NEW end \in Times
  PROVE  HasLast({Cut(p, end) : p \in periods})
<1>1. CASE periods = {}
  BY <1>1 DEF HasLast
<1>2. CASE periods # {}
  <2>1. PICK q \in periods : \A p \in periods : p.end <= q.end
    BY <1>2 DEF HasLast
  <2>2. \A p \in periods : Cut(p, end).end = Least(p.end, end) /\ p.end \in Nat
    BY CutTimes, ConstantTypes DEF Period
  <2>3. \A p \in periods : Cut(p, end).end <= Cut(q, end).end
    BY <2>1, <2>2, ConstantTypes DEF Least
  <2>. QED
    BY <2>3 DEF HasLast
<1>. QED
  BY <1>1, <1>2

\* The windows from the cursor up to a time that get a new period.
Fresh(cut, end, at) ==
  {Window(t, Cursor(cut), end) : t \in Unserved(Cursor(cut), at)} \ {NoWindow}

\* Every one of them is new: the filter of the code drops none.
LEMMA FreshTimes ==
  ASSUME NEW cut \in SUBSET Period, HasLast(cut), NEW end \in Times, NEW at \in Times,
         plan.trialEnd \in Times, NEW v \in Fresh(cut, end, at)
  PROVE  /\ v \in Cycle
         /\ Cursor(cut) <= v.start /\ v.start <= at /\ v.start < v.end /\ v.end <= end
         /\ \A p \in cut : p.end < v.end
         /\ \E t \in Times : /\ Cursor(cut) <= t /\ t <= at /\ t < end
                             /\ v = Window(t, Cursor(cut), end)
<1>1. /\ Cursor(cut) \in Times
      /\ \A p \in cut : p.end <= Cursor(cut) /\ p.end \in Nat
  BY CursorIsLast, ConstantTypes DEF Period
<1>2. PICK t \in Cursor(cut) .. at : v = Window(t, Cursor(cut), end) /\ v # NoWindow
  BY DEF Fresh, Unserved
<1>3. t \in Times
  BY <1>1, ConstantTypes DEF Times
<1>4. Cursor(cut) <= t /\ t < end
  BY <1>1, <1>2, <1>3, WindowOutside, ConstantTypes
<1>5. /\ v \in Cycle /\ Cursor(cut) <= v.start /\ v.start <= t
      /\ t < v.end /\ v.end <= end
  BY <1>1, <1>2, <1>3, <1>4, WindowAround
<1>. QED
  BY <1>1, <1>2, <1>3, <1>4, <1>5, ConstantTypes DEF Cycle

LEMMA GeneratedIs ==
  ASSUME NEW periods \in SUBSET Period, HasLast(periods), NEW end \in Times, NEW at \in Times,
         plan.trialEnd \in Times, plan.mode \in Modes
  PROVE  LET cut == {Cut(p, end) : p \in periods} IN
           /\ cut \in SUBSET Period /\ HasLast(cut)
           /\ \/ Generated(periods, end, at) = periods
              \/ Generated(periods, end, at) = cut \cup {NewPeriod(v) : v \in Fresh(cut, end, at)}
<1>. DEFINE cut == {Cut(p, end) : p \in periods}
<1>1. cut \in SUBSET Period /\ HasLast(cut)
  BY CutType, CutHasLast
<1>2. \A v \in Fresh(cut, end, at) : \A p \in cut : p.start # v.start \/ p.end # v.end
  <2>. HIDE DEF cut
  <2>. SUFFICES ASSUME NEW v \in Fresh(cut, end, at), NEW p \in cut PROVE p.end # v.end
    OBVIOUS
  <2>1. p.end < v.end /\ v.end \in Nat /\ p.end \in Nat
    BY <1>1, FreshTimes, ConstantTypes DEF Cycle, Period
  <2>. QED
    BY <2>1
<1>3. {x \in Fresh(cut, end, at) : \A p \in cut : p.start # x.start \/ p.end # x.end}
        = Fresh(cut, end, at)
  BY <1>2
<1>4. Generated(periods, end, at) =
        IF end + Lookback < at THEN periods
        ELSE cut \cup {NewPeriod(v) : v \in {x \in Fresh(cut, end, at) :
                     \A p \in cut : p.start # x.start \/ p.end # x.end}}
  BY DEF Generated, Fresh
<1>. QED
  BY <1>1, <1>3, <1>4

LEMMA GeneratedType ==
  ASSUME NEW periods \in SUBSET Period, HasLast(periods), NEW end \in Times, NEW at \in Times,
         plan.trialEnd \in Times, plan.mode \in Modes
  PROVE  Generated(periods, end, at) \subseteq Period /\ HasLast(Generated(periods, end, at))
<1>. DEFINE cut == {Cut(p, end) : p \in periods}
            fresh == {NewPeriod(v) : v \in Fresh(cut, end, at)}
<1>1. /\ cut \in SUBSET Period /\ HasLast(cut)
      /\ \/ Generated(periods, end, at) = periods
         \/ Generated(periods, end, at) = cut \cup fresh
  BY GeneratedIs
<1>. HIDE DEF cut
<1>2. fresh \subseteq Period
  BY <1>1, FreshTimes, NewPeriodType
<1>3. HasLast(cut \cup fresh)
  <2>. DEFINE c == Cursor(cut)
              m == Least(at, end - 1)
  <2>1. c \in Times /\ c \in Nat /\ at \in Nat /\ end \in Nat
    BY <1>1, CursorIsLast, ConstantTypes
  <2>2. CASE c <= at /\ c < end
    <3>1. m \in Times /\ c <= m /\ m <= at /\ m < end
      BY <2>1, <2>2, ConstantTypes DEF Least
    <3>2. Window(m, c, end) \in Fresh(cut, end, at)
      <4>1. m \in Unserved(c, at) /\ Window(m, c, end) # NoWindow
        BY <2>1, <3>1, WindowAround, ConstantTypes DEF Unserved
      <4>. HIDE DEF m
      <4>. QED
        BY <4>1 DEF Fresh
    <3>. DEFINE last == NewPeriod(Window(m, c, end))
    <3>3. last \in fresh /\ last.end = Window(m, c, end).end
      BY <3>2 DEF NewPeriod
    <3>4. \A p \in cut : p.end <= last.end
      <4>1. Window(m, c, end) \in Cycle /\ \A p \in cut : p.end < Window(m, c, end).end
        BY <1>1, <3>2, FreshTimes
      <4>. HIDE DEF last, m
      <4>. QED
        BY <1>1, <3>3, <4>1, ConstantTypes DEF Period, Cycle
    <3>5. ASSUME NEW v \in Fresh(cut, end, at) PROVE NewPeriod(v).end <= last.end
      <4>1. PICK t \in Times : c <= t /\ t <= at /\ t < end /\ v = Window(t, c, end)
        BY <1>1, FreshTimes
      <4>2. t <= m
        BY <2>1, <4>1, ConstantTypes DEF Least
      <4>3. v.end <= Window(m, c, end).end
        BY <2>1, <3>1, <4>1, <4>2, WindowsOrdered
      <4>. QED
        BY <3>3, <4>3 DEF NewPeriod
    <3>. HIDE DEF last, m
    <3>6. \A p \in cut \cup fresh : p.end <= last.end
      BY <3>4, <3>5
    <3>. QED
      BY <3>3, <3>6 DEF HasLast
  <2>3. CASE ~(c <= at /\ c < end)
    <3>1. Fresh(cut, end, at) = {}
      <4>. SUFFICES ASSUME NEW v \in Fresh(cut, end, at) PROVE FALSE
        OBVIOUS
      <4>1. PICK t \in Times : c <= t /\ t <= at /\ t < end
        BY <1>1, FreshTimes
      <4>. QED
        BY <2>1, <2>3, <4>1, ConstantTypes
    <3>2. cut \cup fresh = cut
      BY <3>1
    <3>. QED
      BY <1>1, <3>2
  <2>. QED
    BY <2>2, <2>3
<1>. QED
  BY <1>1, <1>2, <1>3

\* Billing a statement leaves the times of the periods alone.
AfterBilling(periods, s) ==
  LET mine == {p \in periods : p.start = s /\ p.status = "pending"} IN
    (periods \ mine) \cup {[p EXCEPT !.status = "invoiced", !.charge = Charge(p)] : p \in mine}

LEMMA StepTyped ==
  ASSUME TypeOK, HasLast(period), NEW w \in Runners, Step(w)
  PROVE  Typed'
<1>. DEFINE r == run[w]
<1>1. /\ r \in Run /\ r.at \in Times /\ r.end \in Times /\ r.status \in Statuses /\ r.cycle \in Cycle
      /\ plan.trialEnd \in Times /\ plan.mode \in Modes /\ plan.end \in Times
      /\ run \in [Runners -> Run] /\ NoRun \in Run
  BY NoRunType DEF TypeOK, Run
<1>2. CASE Renew(w)
  <2>. DEFINE cycle == Window(r.at, 0, r.end)
              moved == [r EXCEPT !.cycle = cycle, !.pc = "phases", !.renewed = TRUE]
  <2>1. cycle \in Cycle
    BY <1>1, WindowType, ConstantTypes
  <2>. HIDE DEF cycle
  <2>2. moved \in Run /\ cycle.end \in Times
    BY <1>1, <2>1 DEF Run, Cycle
  <2>. HIDE DEF moved
  <2>3. /\ Then(r, Finished(r, r.status)) \in Run /\ Then(r, moved) \in Run
        /\ Then(r, Finished(moved, r.status)) \in Run
    BY <1>1, <2>2, FinishedType, ThenType
  <2>4. \/ run' = [run EXCEPT ![w] = Then(r, Finished(r, r.status))]
        \/ run' = [run EXCEPT ![w] = Then(r, moved)]
        \/ run' = [run EXCEPT ![w] = Then(r, Finished(moved, r.status))]
    BY <1>2 DEF Renew, cycle, moved
  <2>5. run' \in [Runners -> Run]
    BY <1>1, <2>3, <2>4
  <2>6. row' = row \/ row' = [row EXCEPT !.cycle = cycle, !.renewAt = cycle.end]
    BY <1>2 DEF Renew, cycle
  <2>7. row' \in [status : Statuses, cycle : Cycle, renewAt : Times]
    BY <2>1, <2>2, <2>6 DEF TypeOK
  <2>8. left' \in Left
    BY <1>2, SpendType DEF Renew, TypeOK, Left
  <2>. QED
    BY <1>2, <2>5, <2>7, <2>8 DEF Renew, TypeOK, Typed
<1>3. CASE Bill(w)
  <2>1. PICK s \in r.todo : /\ period' = AfterBilling(period, s)
                            /\ run' = [run EXCEPT ![w] =
                                 IF r.todo \ {s} # {} THEN [r EXCEPT !.todo = r.todo \ {s}]
                                 ELSE Then(r, [r EXCEPT !.pc = "phases", !.todo = {}])]
    BY <1>3 DEF Bill, AfterBilling
  <2>2. /\ [r EXCEPT !.todo = r.todo \ {s}] \in Run
        /\ [r EXCEPT !.pc = "phases", !.todo = {}] \in Run
    BY <1>1 DEF Run
  <2>3. Then(r, [r EXCEPT !.pc = "phases", !.todo = {}]) \in Run
    BY <1>1, <2>2, ThenType
  <2>4. run' \in [Runners -> Run]
    BY <1>1, <2>1, <2>2, <2>3
  <2>5. \A p \in Period : [p EXCEPT !.status = "invoiced", !.charge = Charge(p)] \in Period
    BY InvoicedType
  <2>6. period' \subseteq Period
    BY <2>1, <2>5 DEF AfterBilling, TypeOK
  <2>. QED
    BY <1>3, <2>4, <2>6 DEF Bill, TypeOK, Typed, Left
<1>4. CASE Phases(w)
  <2>1. run' = [run EXCEPT ![w] = [r EXCEPT !.pc = "periods", !.end = plan.end]]
    BY <1>1, <1>4 DEF Phases
  <2>2. [r EXCEPT !.pc = "periods", !.end = plan.end] \in Run
    BY <1>1 DEF Run
  <2>3. run' \in [Runners -> Run]
    BY <1>1, <2>1, <2>2
  <2>. QED
    BY <1>4, <2>3 DEF Phases, TypeOK, Typed, Left
<1>5. CASE Periods(w)
  <2>1. period' \subseteq Period
    BY <1>1, <1>5, GeneratedType DEF Periods, TypeOK
  <2>2. Finished(r, r.status) \in Run /\ [r EXCEPT !.pc = "grant"] \in Run
    BY <1>1, FinishedType DEF Run
  <2>3. run' \in [Runners -> Run]
    BY <1>1, <1>5, <2>2 DEF Periods
  <2>. QED
    BY <1>5, <2>1, <2>3 DEF Periods, TypeOK, Typed, Left
<1>6. CASE Grant(w)
  <2>1. Then(r, Finished([r EXCEPT !.renewed = FALSE], "active")) \in Run /\ Parked(r) \in Run
    BY <1>1, FinishedType, ParkedType DEF Statuses
  <2>2. \/ run' = [run EXCEPT ![w] = Then(r, Finished([r EXCEPT !.renewed = FALSE], "active"))]
        \/ run' = [run EXCEPT ![w] = Parked(r)]
    BY <1>6 DEF Grant
  <2>3. run' \in [Runners -> Run]
    BY <1>1, <2>1, <2>2
  <2>4. row' \in [status : Statuses, cycle : Cycle, renewAt : Times]
    BY <1>1, <1>6 DEF Grant, TypeOK, Statuses
  <2>5. granted' \subseteq Times
    BY <1>1, <1>6 DEF Grant, TypeOK, Cycle
  <2>6. left' \in Left
    BY <1>6, SpendType DEF Grant, TypeOK, Left
  <2>. QED
    BY <1>6, <2>3, <2>4, <2>5, <2>6 DEF Grant, TypeOK, Typed
<1>7. CASE Persist(w)
  <2>1. [r EXCEPT !.late = "none"] \in Run /\ r.late \in Statuses
    BY <1>1, <1>7 DEF Run, Persist
  <2>2. run' \in [Runners -> Run]
    BY <1>1, <1>7, <2>1 DEF Persist
  <2>3. row' \in [status : Statuses, cycle : Cycle, renewAt : Times]
    BY <1>7, <2>1 DEF Persist, TypeOK
  <2>. QED
    BY <1>7, <2>2, <2>3 DEF Persist, TypeOK, Typed, Left
<1>8. CASE Release(w) \/ LockExpires(w)
  <2>1. [r EXCEPT !.pc = "done"] \in Run
    BY <1>1 DEF Run
  <2>2. run' \in [Runners -> Run]
    BY <1>1, <1>8, <2>1 DEF Release, LockExpires
  <2>3. lock' \in Runners \cup {Unlocked}
    BY <1>8 DEF Release, LockExpires, FreedBy, TypeOK
  <2>. QED
    BY <1>8, <2>2, <2>3 DEF Release, LockExpires, TypeOK, Typed, Left
<1>. QED
  BY <1>2, <1>3, <1>4, <1>5, <1>6, <1>7, <1>8 DEF Step

LEMMA FailureTyped ==
  ASSUME TypeOK, NEW w \in Runners,
         CallFails(w) \/ PersistFails(w) \/ TimesOut(w) \/ LosesLock(w) \/ Dies(w)
  PROVE  Typed'
<1>. DEFINE r == run[w]
<1>1. r \in Run /\ r.status \in Statuses /\ run \in [Runners -> Run] /\ NoRun \in Run
  BY NoRunType DEF TypeOK, Run
<1>2. left' \in Left
  BY SpendType DEF CallFails, PersistFails, TimesOut, LosesLock, Dies
<1>3. lock' \in Runners \cup {Unlocked}
  BY DEF CallFails, PersistFails, TimesOut, LosesLock, Dies, FreedBy, TypeOK
<1>4. /\ Parked(r) \in Run /\ Then(r, Finished(r, r.status)) \in Run
      /\ [r EXCEPT !.late = "none"] \in Run /\ [r EXCEPT !.alone = TRUE] \in Run
      /\ [NoRun EXCEPT !.pc = "dead", !.renewed = r.renewed] \in Run
  BY <1>1, ParkedType, FinishedType DEF Run
<1>5. \/ run' = run \/ run' = [run EXCEPT ![w] = Parked(r)]
      \/ run' = [run EXCEPT ![w] = Then(r, Finished(r, r.status))]
      \/ run' = [run EXCEPT ![w] = NoRun] \/ run' = [run EXCEPT ![w] = [r EXCEPT !.late = "none"]]
      \/ run' = [run EXCEPT ![w] = [r EXCEPT !.alone = TRUE]]
      \/ run' = [run EXCEPT ![w] = [NoRun EXCEPT !.pc = "dead", !.renewed = r.renewed]]
  BY <1>1 DEF CallFails, PersistFails, TimesOut, LosesLock, Dies
<1>6. run' \in [Runners -> Run]
  BY <1>1, <1>4, <1>5
<1>. QED
  BY <1>2, <1>3, <1>6 DEF CallFails, PersistFails, TimesOut, LosesLock, Dies, TypeOK, Typed

-----------------------------------------------------------------------------
(* What a step does to its run, the lock and the row.                      *)

Steps == {"renew", "bill", "phases", "periods", "grant"}
Holding == Steps \cup {"release"}

\* A run goes on with what it read.
GoesOn(r, s) ==
  /\ r.pc \in Steps /\ s.at = r.at /\ s.status = r.status /\ s.kind = r.kind
  /\ s.pc = "renew" => r.pc = "renew" /\ row'.renewAt = row.renewAt
  /\ s.cycle = row'.cycle \/ (s.cycle = r.cycle /\ row'.cycle = row.cycle)
  /\ s.end = r.end \/ s.end = plan.end
  /\ s.pc = "periods" => \/ r.pc = "periods" /\ s.end = r.end
                         \/ r.pc = "phases" /\ s.end = plan.end
  /\ s.pc = "grant" => r.pc = "grant" \/ (r.pc = "periods" /\ r.kind # "periods")

RunMoves(r, s) ==
  /\ s.pc \in {"idle", "dead"} => s.late = "none"
  /\ s.pc \in Steps => GoesOn(r, s)
  /\ s.pc \in Holding => /\ r.pc \in Holding
                         /\ s.alone => r.alone \/ left'.overlaps # MaxOverlaps

LEMMA ThenMoves ==
  ASSUME NEW r \in Run, NEW next \in Run, RunMoves(r, next)
  PROVE  RunMoves(r, Then(r, next))
BY DEF Then, RunMoves, NoRun, Holding, Steps

LEMMA FinishedMoves ==
  ASSUME NEW r \in Run, NEW moved \in Run, NEW status \in Statuses, r.pc \in Holding
  PROVE  RunMoves(r, Finished(moved, status))
BY DEF Finished, RunMoves, NoRun, Holding, Steps

LEMMA StepMoves ==
  ASSUME TypeOK, HasLast(period), NEW w \in Runners, Step(w)
  PROVE  RunMoves(run[w], run'[w]) /\ run' = [run EXCEPT ![w] = run'[w]]
<1>. DEFINE r == run[w]
<1>1. /\ r \in Run /\ r.at \in Times /\ r.end \in Times /\ r.status \in Statuses /\ r.cycle \in Cycle
      /\ plan.trialEnd \in Times /\ plan.end \in Times
      /\ run \in [Runners -> Run] /\ NoRun \in Run
  BY NoRunType DEF TypeOK, Run
<1>2. CASE Renew(w)
  <2>. DEFINE cycle == Window(r.at, 0, r.end)
              moved == [r EXCEPT !.cycle = cycle, !.pc = "phases", !.renewed = TRUE]
  <2>1. cycle \in Cycle
    BY <1>1, WindowType, ConstantTypes
  <2>2. r.pc = "renew"
    BY <1>2 DEF Renew
  <2>3. \/ run' = [run EXCEPT ![w] = Then(r, Finished(r, r.status))]
        \/ row'.cycle = cycle /\ run' = [run EXCEPT ![w] = Then(r, moved)]
        \/ run' = [run EXCEPT ![w] = Then(r, Finished(moved, r.status))]
    BY <1>2 DEF Renew, TypeOK
  <2>. HIDE DEF cycle
  <2>4. moved \in Run /\ moved.pc = "phases" /\ moved.cycle = cycle /\ moved.at = r.at
        /\ moved.status = r.status /\ moved.kind = r.kind /\ moved.alone = r.alone /\ moved.end = r.end
    BY <1>1, <2>1 DEF Run
  <2>. HIDE DEF moved
  <2>5. row'.cycle = cycle => RunMoves(r, moved)
    BY <2>2, <2>4 DEF RunMoves, GoesOn, Holding, Steps
  <2>6. /\ RunMoves(r, Then(r, Finished(r, r.status))) /\ RunMoves(r, Then(r, Finished(moved, r.status)))
        /\ row'.cycle = cycle => RunMoves(r, Then(r, moved))
    BY <1>1, <2>2, <2>4, <2>5, FinishedType, FinishedMoves, ThenMoves DEF Holding, Steps
  <2>. QED
    BY <1>1, <2>3, <2>6
<1>3. CASE Bill(w)
  <2>1. PICK s \in r.todo : run' = [run EXCEPT ![w] =
                                 IF r.todo \ {s} # {} THEN [r EXCEPT !.todo = r.todo \ {s}]
                                 ELSE Then(r, [r EXCEPT !.pc = "phases", !.todo = {}])]
    BY <1>3 DEF Bill
  <2>. DEFINE a == [r EXCEPT !.todo = r.todo \ {s}]
              b == [r EXCEPT !.pc = "phases", !.todo = {}]
  <2>2. r.pc = "bill"
    BY <1>3 DEF Bill
  <2>3. a \in Run /\ b \in Run
    BY <1>1 DEF Run
  <2>4. RunMoves(r, a) /\ RunMoves(r, b)
    BY <1>1, <1>3, <2>2 DEF Bill, RunMoves, GoesOn, Holding, Steps, Run
  <2>. HIDE DEF a, b
  <2>5. RunMoves(r, Then(r, b))
    BY <1>1, <2>3, <2>4, ThenMoves
  <2>6. run'[w] = a \/ run'[w] = Then(r, b)
    BY <1>1, <2>1 DEF a, b
  <2>7. run' = [run EXCEPT ![w] = run'[w]]
    BY <1>1, <2>1
  <2>. QED
    BY <2>4, <2>5, <2>6, <2>7
<1>4. CASE Phases(w)
  <2>1. run' = [run EXCEPT ![w] = [r EXCEPT !.pc = "periods", !.end = plan.end]] /\ r.pc = "phases"
    BY <1>1, <1>4 DEF Phases
  <2>2. RunMoves(r, [r EXCEPT !.pc = "periods", !.end = plan.end])
    BY <1>1, <1>4, <2>1 DEF Phases, RunMoves, GoesOn, Holding, Steps, Run
  <2>. QED
    BY <1>1, <2>1, <2>2
<1>5. CASE Periods(w)
  <2>1. r.pc = "periods" /\ \/ run' = [run EXCEPT ![w] = Finished(r, r.status)]
                            \/ r.kind # "periods" /\ run' = [run EXCEPT ![w] = [r EXCEPT !.pc = "grant"]]
    BY <1>1, <1>5 DEF Periods
  <2>2. RunMoves(r, Finished(r, r.status))
    BY <1>1, <2>1, FinishedMoves DEF Holding, Steps
  <2>3. r.kind # "periods" => RunMoves(r, [r EXCEPT !.pc = "grant"])
    BY <1>1, <1>5, <2>1 DEF Periods, RunMoves, GoesOn, Holding, Steps, Run
  <2>. QED
    BY <1>1, <2>1, <2>2, <2>3
<1>6. CASE Grant(w)
  <2>. DEFINE moved == [r EXCEPT !.renewed = FALSE]
  <2>1. \/ run' = [run EXCEPT ![w] = Then(r, Finished(moved, "active"))]
        \/ run' = [run EXCEPT ![w] = Then(r, Finished(moved, "pending_activation"))]
    BY <1>6 DEF Grant, Parked
  <2>2. moved \in Run /\ r.pc = "grant"
    BY <1>1, <1>6 DEF Run, Grant
  <2>. HIDE DEF moved
  <2>3. /\ RunMoves(r, Then(r, Finished(moved, "active")))
        /\ RunMoves(r, Then(r, Finished(moved, "pending_activation")))
    BY <1>1, <2>2, FinishedType, FinishedMoves, ThenMoves DEF Holding, Steps, Statuses
  <2>. QED
    BY <1>1, <2>1, <2>3
<1>7. CASE Persist(w)
  <2>0. row'.cycle = row.cycle /\ row'.renewAt = row.renewAt
    BY <1>7 DEF Persist, TypeOK
  <2>1. \/ run' = [run EXCEPT ![w] = NoRun]
        \/ run' = [run EXCEPT ![w] = [r EXCEPT !.late = "none"]] /\ r.pc # "done"
    BY <1>1, <1>7 DEF Persist
  <2>2. RunMoves(r, NoRun) /\ (r.pc # "done" => RunMoves(r, [r EXCEPT !.late = "none"]))
    BY <1>1, <2>0 DEF RunMoves, GoesOn, Holding, Steps, Run, NoRun
  <2>. QED
    BY <1>1, <2>1, <2>2
<1>8. CASE Release(w) \/ LockExpires(w)
  <2>1. \/ run' = [run EXCEPT ![w] = NoRun]
        \/ run' = [run EXCEPT ![w] = [r EXCEPT !.pc = "done"]]
    BY <1>1, <1>8 DEF Release, LockExpires
  <2>2. RunMoves(r, NoRun) /\ RunMoves(r, [r EXCEPT !.pc = "done"])
    BY <1>1 DEF RunMoves, Holding, Steps, Run, NoRun
  <2>. QED
    BY <1>1, <2>1, <2>2
<1>. QED
  BY <1>2, <1>3, <1>4, <1>5, <1>6, <1>7, <1>8 DEF Step

LEMMA FailureMoves ==
  ASSUME TypeOK, NEW w \in Runners,
         CallFails(w) \/ PersistFails(w) \/ TimesOut(w) \/ LosesLock(w) \/ Dies(w)
  PROVE  RunMoves(run[w], run'[w]) /\ run' = [run EXCEPT ![w] = run'[w]]
<1>. DEFINE r == run[w]
<1>1. r \in Run /\ r.status \in Statuses /\ run \in [Runners -> Run] /\ NoRun \in Run
  BY NoRunType DEF TypeOK, Run
<1>2. CASE CallFails(w)
  <2>. DEFINE moved == [r EXCEPT !.renewed = FALSE]
  <2>1. \/ run' = [run EXCEPT ![w] = Then(r, Finished(moved, "pending_activation"))]
        \/ run' = [run EXCEPT ![w] = Then(r, Finished(r, r.status))]
    BY <1>1, <1>2 DEF CallFails, Parked
  <2>2. moved \in Run /\ r.pc \in Steps
    BY <1>1, <1>2 DEF Run, CallFails, Working, Steps
  <2>. HIDE DEF moved
  <2>3. /\ RunMoves(r, Then(r, Finished(r, r.status)))
        /\ RunMoves(r, Then(r, Finished(moved, "pending_activation")))
    BY <1>1, <2>2, FinishedType, FinishedMoves, ThenMoves DEF Holding, Statuses
  <2>. QED
    BY <1>1, <2>1, <2>3
<1>3. CASE PersistFails(w)
  <2>0. row' = row
    BY <1>3 DEF PersistFails
  <2>1. \/ run' = [run EXCEPT ![w] = NoRun]
        \/ run' = [run EXCEPT ![w] = [r EXCEPT !.late = "none"]] /\ r.pc # "done"
    BY <1>1, <1>3 DEF PersistFails
  <2>2. RunMoves(r, NoRun) /\ (r.pc # "done" => RunMoves(r, [r EXCEPT !.late = "none"]))
    BY <1>1, <2>0 DEF RunMoves, GoesOn, Holding, Steps, Run, NoRun
  <2>. QED
    BY <1>1, <2>1, <2>2
<1>4. CASE TimesOut(w)
  <2>1. run' = [run EXCEPT ![w] = [r EXCEPT !.alone = TRUE]] /\ r.pc \in Steps
    BY <1>1, <1>4 DEF TimesOut, Working, Steps
  <2>2. left'.overlaps # MaxOverlaps
    BY <1>4, ConstantTypes, SMTT(30) DEF TimesOut, Overlaps, Spend, TypeOK
  <2>3. RunMoves(r, [r EXCEPT !.alone = TRUE])
    BY <1>1, <1>4, <2>1, <2>2 DEF TimesOut, RunMoves, GoesOn, Holding, Steps, Run
  <2>. QED
    BY <1>1, <2>1, <2>3
<1>5. CASE LosesLock(w)
  <2>1. RunMoves(r, r) /\ run' = run
    BY <1>1, <1>5 DEF LosesLock, RunMoves, GoesOn, Holding, Steps, Run, Working
  <2>. QED
    BY <1>1, <2>1
<1>6. CASE Dies(w)
  <2>1. run' = [run EXCEPT ![w] = [NoRun EXCEPT !.pc = "dead", !.renewed = r.renewed]]
        /\ r.pc # "idle" /\ r.pc # "dead"
    BY <1>1, <1>6 DEF Dies
  <2>2. RunMoves(r, [NoRun EXCEPT !.pc = "dead", !.renewed = r.renewed])
    BY <1>1, <2>1 DEF RunMoves, Holding, Steps, Run, NoRun
  <2>. QED
    BY <1>1, <2>1, <2>2
<1>. QED
  BY <1>2, <1>3, <1>4, <1>5, <1>6

LEMMA RunsMove ==
  ASSUME TypeOK, HasLast(period), NEW w \in Runners,
         \/ Step(w) \/ CallFails(w) \/ PersistFails(w) \/ TimesOut(w) \/ LosesLock(w) \/ Dies(w)
  PROVE  RunMoves(run[w], run'[w]) /\ run' = [run EXCEPT ![w] = run'[w]]
BY StepMoves, FailureMoves

\* A run that starts has read the row, and an event of its kind lets it act.
Starts(task, s) ==
  /\ s.pc \in Steps \cup {"release"} /\ ~s.alone
  /\ s.pc \in Steps =>
       /\ s.at = task.at /\ s.status = row.status /\ s.kind = task.kind
       /\ s.cycle = row.cycle /\ s.end = plan.end
       /\ s.pc \in {"renew", "bill", "phases"}
       /\ s.kind # "periods" => s.status \notin Final
       /\ s.pc = "renew" => task.at >= row.renewAt

LEMMA DispatchStarts ==
  ASSUME TypeOK, NEW task \in Task
  PROVE  Starts(task, Dispatch(Read(task)))
<1>. DEFINE r == Read(task)
<1>1. /\ r \in Run /\ r.pc = "idle" /\ ~r.alone /\ r.at = task.at /\ r.status = row.status
      /\ r.kind = task.kind /\ r.cycle = row.cycle /\ r.end = plan.end
      /\ r.kind \in Kinds /\ r.status \in Statuses
  <2>1. r \in Run
    BY ReadType
  <2>2. /\ r.pc = "idle" /\ ~r.alone /\ r.at = task.at /\ r.status = row.status
        /\ r.kind = task.kind /\ r.cycle = row.cycle /\ r.end = plan.end
    BY NoRunType DEF Read, NoRun
  <2>. QED
    BY <2>1, <2>2 DEF Run
<1>. HIDE DEF r
<1>2. \A status \in Statuses : Starts(task, Finished(r, status))
  BY <1>1 DEF Starts, Finished, NoRun, Steps
<1>3. r.kind = "periods" \/ r.status \notin Final => Starts(task, [r EXCEPT !.pc = "phases"])
  BY <1>1 DEF Starts, Steps, Run
<1>4. r.status \notin Final /\ CanRenew(r) => Starts(task, [r EXCEPT !.pc = "renew"])
  BY <1>1 DEF Starts, Steps, Run, CanRenew
<1>5. CASE r.kind = "renew"
  <2>1. Starts(task, RenewEvent(r))
    BY <1>1, <1>2, <1>4 DEF RenewEvent, Final, Statuses
  <2>. QED
    BY <1>5, <2>1 DEF Dispatch, r
<1>6. CASE r.kind = "invoice"
  <2>. DEFINE due == {p.start : p \in {q \in period : Invoiceable(q, r.at)}}
  <2>1. r.status \in Payable =>
          Starts(task, [r EXCEPT !.pc = IF due = {} THEN "phases" ELSE "bill", !.todo = due])
    <3>. HIDE DEF due
    <3>. QED
      BY <1>1 DEF Starts, Steps, Run, Payable, Final
  <2>2. Starts(task, InvoiceEvent(r))
    BY <1>1, <1>2, <2>1 DEF InvoiceEvent
  <2>. QED
    BY <1>6, <2>2 DEF Dispatch, r
<1>7. CASE r.kind = "activate"
  <2>1. Starts(task, ActivateEvent(r))
    BY <1>1, <1>2, <1>3 DEF ActivateEvent, Final
  <2>. QED
    BY <1>7, <2>1 DEF Dispatch, r
<1>8. CASE r.kind = "periods"
  BY <1>3, <1>8 DEF Dispatch, r
<1>9. CASE r.kind \in {"success", "failure"}
  <2>1. Starts(task, OutcomeEvent(r))
    BY <1>1, <1>2, <1>4, <1>9 DEF OutcomeEvent, Payable, Final, Statuses
  <2>. QED
    BY <1>9, <2>1 DEF Dispatch, r
<1>. QED
  BY <1>1, <1>5, <1>6, <1>7, <1>8, <1>9 DEF Kinds

LEMMA StartMoves ==
  ASSUME TypeOK, NEW task \in queued, Start(task)
  PROVE  \E w \in Runners :
           /\ Idle(w) /\ lock = Unlocked /\ lock' = w
           /\ run' = [run EXCEPT ![w] = run'[w]] /\ Starts(task, run'[w])
<1>1. PICK w \in Runners : /\ Idle(w) /\ lock' = w
                           /\ run' = [run EXCEPT ![w] = Dispatch(Read(task))]
  BY DEF Start
<1>2. Starts(task, Dispatch(Read(task)))
  BY DispatchStarts DEF TypeOK
<1>3. run'[w] = Dispatch(Read(task)) /\ run' = [run EXCEPT ![w] = run'[w]]
  BY <1>1 DEF TypeOK
<1>. QED
  BY <1>1, <1>2, <1>3 DEF Start

\* Every step leaves the runs alone, starts one, or moves one.
LEMMA MoveOfRuns ==
  ASSUME TypeOK, HasLast(period), Move
  PROVE  \/ UNCHANGED run
         \/ \E w \in Runners, task \in queued :
              /\ Start(task) /\ Idle(w) /\ lock = Unlocked /\ lock' = w
              /\ run' = [run EXCEPT ![w] = run'[w]] /\ Starts(task, run'[w])
         \/ \E w \in Runners :
              /\ run' = [run EXCEPT ![w] = run'[w]] /\ RunMoves(run[w], run'[w])
<1>1. ASSUME NEW w \in Runners,
             \/ Step(w) \/ CallFails(w) \/ PersistFails(w) \/ TimesOut(w) \/ LosesLock(w) \/ Dies(w)
      PROVE  run' = [run EXCEPT ![w] = run'[w]] /\ RunMoves(run[w], run'[w])
  BY <1>1, RunsMove
<1>2. ASSUME NEW task \in queued, Start(task)
      PROVE  \E w \in Runners :
              /\ Idle(w) /\ lock = Unlocked /\ lock' = w
              /\ run' = [run EXCEPT ![w] = run'[w]] /\ Starts(task, run'[w])
  BY <1>2, StartMoves
<1>. QED
  BY <1>1, <1>2 DEF Move, Tick, Schedule, Pay, Decline, UpdatePhase, Cancel, Busy

-----------------------------------------------------------------------------
(* Types, the last period, and what a run has read.                        *)

\* The periods follow one another: each begins the phase, or where one with some
\* time in it ends.
Tiled(periods) ==
  \A p \in periods :
    /\ p.start <= p.end
    /\ \A q \in periods \ {p} : p.end <= q.start \/ q.end <= p.start
    /\ p.start = 0 \/ \E q \in periods : q.end = p.start /\ q.start < p.start

\* A step that keeps the times of each period keeps the last one and the tiling.
LEMMA SameTimes ==
  ASSUME NEW periods \in SUBSET Period, NEW f \in [periods -> Period],
         \A p \in periods : f[p].start = p.start /\ f[p].end = p.end
  PROVE  LET after == {f[p] : p \in periods} IN
           /\ HasLast(periods) => HasLast(after)
           /\ Tiled(periods) => Tiled(after)
<1>. DEFINE after == {f[p] : p \in periods}
<1>1. ASSUME HasLast(periods) PROVE HasLast(after)
  BY <1>1 DEF HasLast
<1>2. ASSUME Tiled(periods), NEW x \in after
      PROVE  /\ x.start <= x.end
             /\ \A y \in after \ {x} : x.end <= y.start \/ y.end <= x.start
             /\ x.start = 0 \/ \E y \in after : y.end = x.start /\ y.start < x.start
  <2>1. PICK p \in periods : x = f[p]
    OBVIOUS
  <2>2. x.start = p.start /\ x.end = p.end
    BY <2>1
  <2>3. ASSUME NEW y \in after, y # x PROVE x.end <= y.start \/ y.end <= x.start
    <3>1. PICK q \in periods : y = f[q]
      OBVIOUS
    <3>2. q \in periods \ {p} /\ y.start = q.start /\ y.end = q.end
      BY <2>1, <2>3, <3>1
    <3>. QED
      BY <1>2, <2>2, <3>2 DEF Tiled
  <2>4. CASE p.start # 0
    <3>1. PICK q \in periods : q.end = p.start /\ q.start < p.start
      BY <1>2, <2>4 DEF Tiled
    <3>2. f[q] \in after /\ f[q].end = x.start /\ f[q].start < x.start
      BY <2>2, <3>1
    <3>. QED
      BY <1>2, <2>2, <2>3, <3>2 DEF Tiled
  <2>. QED
    BY <1>2, <2>2, <2>3, <2>4 DEF Tiled
<1>3. Tiled(periods) => Tiled(after)
  BY <1>2 DEF Tiled
<1>. QED
  BY <1>1, <1>3

\* The periods change when one is paid, a statement is billed, or they are generated.
LEMMA PeriodSteps ==
  ASSUME TypeOK, Move
  PROVE  \/ period' = period
         \/ \E f \in [period -> Period] :
              /\ \A p \in period : f[p].start = p.start /\ f[p].end = p.end
              /\ period' = {f[p] : p \in period}
         \/ \E w \in Runners : Periods(w)
<1>1. ASSUME NEW p \in period, Pay(p)
      PROVE  \E f \in [period -> Period] :
              /\ \A q \in period : f[q].start = q.start /\ f[q].end = q.end
              /\ period' = {f[q] : q \in period}
  <2>. DEFINE paid == [p EXCEPT !.status = "paid"]
              f == [q \in period |-> IF q = p THEN paid ELSE q]
  <2>1. period \subseteq Period /\ paid \in Period /\ paid.start = p.start /\ paid.end = p.end
    BY DEF TypeOK, Period
  <2>2. period' = (period \ {p}) \cup {paid}
    BY <1>1 DEF Pay
  <2>. HIDE DEF paid
  <2>3. f \in [period -> Period] /\ \A q \in period : f[q].start = q.start /\ f[q].end = q.end
    BY <2>1
  <2>4. period' = {f[q] : q \in period}
    BY <2>2
  <2>. QED
    BY <2>3, <2>4
<1>2. ASSUME NEW w \in Runners, Bill(w)
      PROVE  \E f \in [period -> Period] :
              /\ \A q \in period : f[q].start = q.start /\ f[q].end = q.end
              /\ period' = {f[q] : q \in period}
  <2>. DEFINE Invoiced(p) == [p EXCEPT !.status = "invoiced", !.charge = Charge(p)]
  <2>1. PICK s \in run[w].todo : period' = AfterBilling(period, s)
    BY <1>2 DEF Bill, AfterBilling
  <2>. DEFINE mine == {p \in period : p.start = s /\ p.status = "pending"}
              f == [q \in period |-> IF q \in mine THEN Invoiced(q) ELSE q]
  <2>2. period' = (period \ mine) \cup {Invoiced(p) : p \in mine}
    BY <2>1 DEF AfterBilling
  <2>3. \A p \in Period : /\ Invoiced(p) \in Period
                          /\ Invoiced(p).start = p.start /\ Invoiced(p).end = p.end
    BY InvoicedType
  <2>4. period \subseteq Period
    BY DEF TypeOK
  <2>. HIDE DEF Invoiced
  <2>5. f \in [period -> Period] /\ \A q \in period : f[q].start = q.start /\ f[q].end = q.end
    BY <2>3, <2>4
  <2>6. period' = {f[q] : q \in period}
    BY <2>2
  <2>. QED
    BY <2>5, <2>6
<1>3. ASSUME NEW w \in Runners, Step(w), ~Bill(w), ~Periods(w) PROVE period' = period
  BY <1>3 DEF Step, Renew, Phases, Grant, Persist, Release, LockExpires
<1>. QED
  BY <1>1, <1>2, <1>3 DEF Move, Tick, Schedule, Decline, UpdatePhase, Cancel, Start, Busy,
     CallFails, PersistFails, TimesOut, LosesLock, Dies

LEMMA RunBounds ==
  ASSUME TypeOK, NEW w \in Runners
  PROVE  /\ run[w] \in Run /\ run[w].at \in Times /\ run[w].end \in Times
         /\ plan.trialEnd \in Times /\ plan.mode \in Modes /\ plan.end \in Times
         /\ period \in SUBSET Period /\ now \in Nat
BY ConstantTypes DEF TypeOK, Run

LEMMA HasLastStep ==
  ASSUME TypeOK, HasLast(period), Move
  PROVE  HasLast(period)'
<1>1. CASE period' = period
  BY <1>1 DEF HasLast
<1>2. ASSUME NEW f \in [period -> Period],
             \A p \in period : f[p].start = p.start /\ f[p].end = p.end,
             period' = {f[p] : p \in period}
      PROVE  HasLast(period)'
  <2>1. HasLast({f[p] : p \in period})
    BY <1>2, SameTimes DEF TypeOK
  <2>. QED
    BY <1>2, <2>1 DEF HasLast
<1>3. ASSUME NEW w \in Runners, Periods(w) PROVE HasLast(period)'
  <2>1. HasLast(Generated(period, run[w].end, run[w].at))
    BY RunBounds, GeneratedType
  <2>. QED
    BY <1>3, <2>1 DEF Periods, HasLast
<1>. QED
  BY <1>1, <1>2, <1>3, PeriodSteps

LEMMA TypedStep ==
  ASSUME TypeOK, HasLast(period), Move
  PROVE  Typed'
BY EnvironmentTyped, StartTyped, StepTyped, FailureTyped DEF Move

LEMMA TypeStep ==
  ASSUME TypeOK, HasLast(period), Next
  PROVE  TypeOK'
<1>1. Typed'
  BY TypedStep DEF Next
<1>2. stranded' \in BOOLEAN
  BY Zenon DEF Next
<1>. QED
  BY <1>1, <1>2 DEF TypeOK, Typed, Left

\* What a run that works has read does not stop it from writing the row.
HasRead(r) ==
  /\ r.pc \in {"idle", "dead"} => r.late = "none"
  /\ r.pc \in Steps /\ r.kind # "periods" => r.status \notin Final
  /\ r.pc = "grant" => r.kind # "periods"
RunsRead == \A w \in Runners : HasRead(run[w])

LEMMA RunsReadStep ==
  ASSUME TypeOK, HasLast(period), RunsRead, Move
  PROVE  RunsRead'
<1>1. ASSUME NEW w \in Runners, NEW task, Starts(task, run'[w]), run' = [run EXCEPT ![w] = run'[w]]
      PROVE  RunsRead'
  <2>1. HasRead(run'[w])
    BY <1>1 DEF Starts, HasRead, Steps
  <2>. QED
    BY <1>1, <2>1 DEF RunsRead, TypeOK, HasRead
<1>2. ASSUME NEW w \in Runners, RunMoves(run[w], run'[w]), run' = [run EXCEPT ![w] = run'[w]]
      PROVE  RunsRead'
  <2>1. HasRead(run'[w])
    BY <1>2 DEF RunMoves, GoesOn, HasRead, RunsRead, Steps
  <2>. QED
    BY <1>2, <2>1 DEF RunsRead, TypeOK, HasRead
<1>3. CASE UNCHANGED run
  BY <1>3 DEF RunsRead, HasRead
<1>. QED
  BY <1>1, <1>2, <1>3, MoveOfRuns

-----------------------------------------------------------------------------
(* The lock excludes while it is respected, so what a run read stays true, *)
(* and the cycle does not go back.                                         *)

\* Where the cycle that t is in starts, if the phase had no end.
CycleStart(t) == IF t < plan.trialEnd THEN 0 ELSE Greatest(Floor(t), plan.trialEnd)

LEMMA CycleStarts ==
  ASSUME plan.trialEnd \in Times
  PROVE  /\ \A s, t \in Times : s <= t => CycleStart(s) <= CycleStart(t)
         /\ \A t, end \in Times : t < end => Window(t, 0, end).start = CycleStart(t)
<1>1. plan.trialEnd \in Nat /\ \A t \in Times : Floor(t) \in Nat /\ t \in Nat
  BY ConstantTypes, FloorBounds
<1>2. \A s, t \in Times : s <= t => CycleStart(s) <= CycleStart(t)
  <2>. SUFFICES ASSUME NEW s \in Times, NEW t \in Times, s <= t
                PROVE  CycleStart(s) <= CycleStart(t)
    OBVIOUS
  <2>0. /\ s \in Nat /\ t \in Nat /\ Floor(s) \in Nat /\ Floor(t) \in Nat
        /\ CycleLength \in Nat
    BY <1>1, ConstantTypes
  <2>1. Floor(s) <= Floor(t)
    BY <2>0, FloorStep
  <2>. QED
    BY <1>1, <2>1 DEF CycleStart, Greatest
<1>3. \A t, end \in Times : t < end => Window(t, 0, end).start = CycleStart(t)
  <2>. SUFFICES ASSUME NEW t \in Times, NEW end \in Times, t < end
                PROVE  Window(t, 0, end).start = CycleStart(t)
    OBVIOUS
  <2>1. Window(t, 0, end) =
           IF t < plan.trialEnd THEN [start |-> 0, end |-> Least(plan.trialEnd, end)]
           ELSE [start |-> Greatest(Floor(t), Greatest(0, plan.trialEnd)),
                 end |-> Least(Floor(t) + CycleLength, end)]
    BY <1>1, WindowInside, ConstantTypes
  <2>. QED
    BY <1>1, <2>1 DEF CycleStart, Greatest
<1>. QED
  BY <1>2, <1>3

Respected == left.overlaps = MaxOverlaps
Exclusive == \A w \in Runners : run[w].pc \in Holding => lock = w /\ ~run[w].alone
RowKnown ==
  /\ \A w \in Runners : run[w].pc \in Steps => run[w].cycle = row.cycle
  /\ \A w \in Runners : run[w].pc = "renew" => run[w].at >= row.renewAt
  /\ row.cycle.start <= CycleStart(row.renewAt)
Ordered == Respected => Exclusive /\ RowKnown

LEMMA SpendingSteps ==
  ASSUME Move
  PROVE  Edits \/ Reports \/ Fails \/ Overlaps \/ UNCHANGED left
BY DEF Move, Tick, Schedule, Start, Busy, Pay, Decline, UpdatePhase, Cancel, Step, Renew, Bill,
   Phases, Periods, Grant, Persist, Release, LockExpires, CallFails, PersistFails, TimesOut,
   LosesLock, Dies

LEMMA RespectedSteps ==
  ASSUME TypeOK, Move, Respected'
  PROVE  /\ Respected /\ \A w \in Runners : ~TimesOut(w) /\ ~LosesLock(w)
<1>1. \A k \in {"edits", "reports", "faults"} : \A apart : Spend(k, apart) => left'.overlaps = left.overlaps
  BY DEF Spend, TypeOK
<1>2. ~Overlaps
  BY ConstantTypes DEF Respected, Overlaps, Spend, TypeOK
<1>3. Edits \/ Reports \/ Fails \/ UNCHANGED left => Respected
  BY <1>1 DEF Edits, Reports, Fails, Respected
<1>4. \A w \in Runners : ~TimesOut(w) /\ ~LosesLock(w)
  BY <1>2 DEF TimesOut, LosesLock
<1>5. Edits \/ Reports \/ Fails \/ UNCHANGED left
  BY <1>2, SpendingSteps
<1>. QED
  BY <1>3, <1>4, <1>5

\* While the lock is respected, only a run that has stopped gives it back.
LEMMA LockSteps ==
  ASSUME TypeOK, Move, Respected'
  PROVE  \/ lock' = lock
         \/ \E task \in queued : Start(task)
         \/ \E w \in Runners : lock = w /\ lock' = Unlocked /\ run'[w].pc \notin Holding
<1>1. ASSUME NEW w \in Runners, Release(w) \/ LockExpires(w)
      PROVE  lock' = lock \/ (lock = w /\ lock' = Unlocked /\ run'[w].pc \notin Holding)
  <2>1. run'[w].pc \notin Holding
    BY <1>1 DEF Release, LockExpires, Holding, Steps, NoRun, TypeOK, Run
  <2>. QED
    BY <1>1, <2>1 DEF Release, LockExpires, FreedBy
<1>2. \A w \in Runners : ~TimesOut(w) /\ ~LosesLock(w)
  BY RespectedSteps
<1>. QED
  BY <1>1, <1>2 DEF Move, Tick, Schedule, Busy, Pay, Decline, UpdatePhase, Cancel, Step, Renew, Bill,
     Phases, Periods, Grant, Persist, CallFails, PersistFails, Dies

LEMMA ExclusiveStep ==
  ASSUME TypeOK, HasLast(period), Move, Respected', Exclusive
  PROVE  Exclusive'
<1>. USE DEF TypeOK
<1>1. ASSUME NEW w \in Runners, NEW task \in queued, Idle(w), lock = Unlocked, lock' = w,
             run' = [run EXCEPT ![w] = run'[w]], Starts(task, run'[w])
      PROVE  Exclusive'
  <2>1. \A v \in Runners : run[v].pc \notin Holding
    BY <1>1, ConstantTypes DEF Exclusive, Unlocked
  <2>2. ~run'[w].alone
    BY <1>1 DEF Starts
  <2>. QED
    BY <1>1, <2>1, <2>2 DEF Exclusive
<1>2. ASSUME NEW w \in Runners, run' = [run EXCEPT ![w] = run'[w]], RunMoves(run[w], run'[w]),
             \A task \in queued : ~Start(task)
      PROVE  Exclusive'
  <2>1. ASSUME NEW v \in Runners, run'[v].pc \in Holding
        PROVE  run[v].pc \in Holding /\ (run'[v].alone => run[v].alone)
    BY <1>2, <2>1 DEF RunMoves, Respected
  <2>2. ASSUME NEW v \in Runners, run'[v].pc \in Holding PROVE lock' = v
    BY <1>2, <2>1, <2>2, LockSteps DEF Exclusive
  <2>. QED
    BY <2>1, <2>2 DEF Exclusive
<1>3. CASE UNCHANGED run /\ \A task \in queued : ~Start(task)
  BY <1>3, LockSteps DEF Exclusive
<1>4. ASSUME NEW task \in queued, Start(task) PROVE Exclusive'
  BY <1>1, <1>4, StartMoves
<1>. QED
  BY <1>2, <1>3, <1>4, MoveOfRuns

LEMMA RowSteps ==
  ASSUME TypeOK, Move
  PROVE  /\ plan'.trialEnd = plan.trialEnd
         /\ \/ row'.cycle = row.cycle /\ row'.renewAt = row.renewAt
            \/ \E w \in Runners : Renew(w) \/ Grant(w)
<1>1. plan'.trialEnd = plan.trialEnd
  BY DEF Move, Tick, Schedule, Busy, Pay, Decline, UpdatePhase, Cancel, Start, Step, Renew, Bill,
     Phases, Periods, Grant, Persist, Release, LockExpires, CallFails, PersistFails, TimesOut,
     LosesLock, Dies, TypeOK
<1>2. ASSUME NEW end \in Ends, Cancel(end) PROVE row'.cycle = row.cycle /\ row'.renewAt = row.renewAt
  BY <1>2 DEF Cancel, TypeOK
<1>3. ASSUME NEW w \in Runners, Persist(w) PROVE row'.cycle = row.cycle /\ row'.renewAt = row.renewAt
  BY <1>3 DEF Persist, TypeOK
<1>. QED
  BY <1>1, <1>2, <1>3 DEF Move, Tick, Schedule, Busy, Pay, Decline, UpdatePhase, Start, Step, Bill,
     Phases, Periods, Release, LockExpires, CallFails, PersistFails, TimesOut, LosesLock, Dies

\* A renewal moves the row to a cycle that starts no earlier, and is due at its end.
LEMMA RenewedRow ==
  ASSUME TypeOK, Respected, Exclusive, RowKnown, NEW w \in Runners, Renew(w)
  PROVE  /\ row'.cycle.start >= row.cycle.start
         /\ row'.cycle.start <= CycleStart(row'.renewAt)
<1>. DEFINE at == run[w].at
            end == run[w].end
            cycle == Window(at, 0, end)
<1>1. /\ at \in Times /\ end \in Times /\ plan.trialEnd \in Times /\ run[w].pc = "renew"
      /\ row.renewAt \in Times /\ row.cycle \in Cycle
  BY RunBounds DEF Renew, TypeOK
<1>2. row' = row \/ (cycle # NoWindow /\ row' = [row EXCEPT !.cycle = cycle, !.renewAt = cycle.end])
  BY DEF Renew
<1>. HIDE DEF cycle
<1>3. CASE row' = row
  BY <1>1, <1>3, ConstantTypes DEF RowKnown, Cycle
<1>4. CASE cycle # NoWindow /\ row' = [row EXCEPT !.cycle = cycle, !.renewAt = cycle.end]
  <2>0. at \in Nat /\ end \in Nat /\ 0 \in Times
    BY <1>1, ConstantTypes
  <2>1. at < end
    <3>. SUFFICES ASSUME at >= end PROVE FALSE
      BY <2>0
    <3>1. cycle = NoWindow
      BY <1>1, <2>0, WindowOutside DEF cycle
    <3>. QED
      BY <1>4, <3>1
  <2>2. cycle \in Cycle /\ at < cycle.end /\ cycle.start = CycleStart(at)
    BY <1>1, <2>1, WindowAround, CycleStarts, ConstantTypes DEF cycle
  <2>3. row'.cycle = cycle /\ row'.renewAt = cycle.end
    BY <1>4 DEF TypeOK
  <2>4. at >= row.renewAt /\ row.cycle.start <= CycleStart(row.renewAt)
    BY <1>1 DEF RowKnown
  <2>5. CycleStart(row.renewAt) <= CycleStart(at) /\ CycleStart(at) <= CycleStart(cycle.end)
    BY <1>1, <2>2, <2>4, CycleStarts, ConstantTypes DEF Cycle
  <2>6. \A t \in Times : CycleStart(t) \in Nat
    BY <1>1, FloorBounds, ConstantTypes DEF CycleStart, Greatest
  <2>. QED
    BY <1>1, <2>2, <2>3, <2>4, <2>5, <2>6, ConstantTypes DEF Cycle
<1>. QED
  BY <1>2, <1>3, <1>4

\* Grants are written with the cycle the row is in.
LEMMA GrantedRow ==
  ASSUME TypeOK, RowKnown, NEW w \in Runners, Grant(w)
  PROVE  row'.cycle = row.cycle /\ row'.renewAt = row.renewAt
BY DEF Grant, RowKnown, Steps, TypeOK

LEMMA RenewLeaves ==
  ASSUME TypeOK, NEW w \in Runners, Renew(w)
  PROVE  run'[w].pc # "renew"
<1>. DEFINE r == run[w]
            moved == [r EXCEPT !.cycle = Window(r.at, 0, r.end), !.pc = "phases", !.renewed = TRUE]
<1>1. \/ run' = [run EXCEPT ![w] = Then(r, Finished(r, r.status))]
      \/ run' = [run EXCEPT ![w] = Then(r, moved)]
      \/ run' = [run EXCEPT ![w] = Then(r, Finished(moved, r.status))]
  BY DEF Renew
<1>2. moved.pc = "phases"
  BY DEF TypeOK, Run
<1>. HIDE DEF moved
<1>3. \A x, status : Finished(x, status).pc = "release" /\ NoRun.pc = "idle"
  BY DEF Finished, NoRun
<1>4. \A next : Then(r, next).pc \in {"idle", next.pc}
  BY <1>3 DEF Then
<1>. QED
  BY <1>1, <1>2, <1>3, <1>4 DEF TypeOK

LEMMA RowKnownStep ==
  ASSUME TypeOK, HasLast(period), Move, Respected', Respected, Exclusive, RowKnown
  PROVE  RowKnown'
<1>1. row'.cycle.start <= CycleStart(row'.renewAt)
  <2>1. ASSUME NEW w \in Runners, Renew(w) PROVE row'.cycle.start <= CycleStart(row'.renewAt)
    BY <2>1, RenewedRow
  <2>2. ASSUME NEW w \in Runners, Grant(w) PROVE row'.cycle.start <= CycleStart(row'.renewAt)
    BY <2>2, GrantedRow DEF RowKnown
  <2>. QED
    BY <2>1, <2>2, RowSteps DEF RowKnown
<1>2. row'.cycle.start <= CycleStart(row.renewAt)' 
  BY <1>1, RowSteps DEF CycleStart
<1>3. ASSUME NEW v \in Runners, run'[v] = run[v], run[v].pc \in Steps
      PROVE  row'.cycle = row.cycle /\ row'.renewAt = row.renewAt
  <2>1. ASSUME NEW w \in Runners, Renew(w) PROVE FALSE
    <3>1. w = v
      BY <1>3, <2>1 DEF Exclusive, Renew, Steps, Holding
    <3>. QED
      BY <1>3, <2>1, <3>1, RenewLeaves DEF Renew
  <2>. QED
    BY <2>1, GrantedRow, RowSteps
<1>4. ASSUME NEW v \in Runners, RunMoves(run[v], run'[v]), run'[v].pc \in Steps
      PROVE  /\ run'[v].cycle = row'.cycle
             /\ run'[v].pc = "renew" => run'[v].at >= row'.renewAt
  BY <1>4 DEF RunMoves, GoesOn, RowKnown
<1>5. ASSUME NEW v \in Runners, NEW task \in queued, Start(task), Starts(task, run'[v]),
             run'[v].pc \in Steps
      PROVE  /\ run'[v].cycle = row'.cycle
             /\ run'[v].pc = "renew" => run'[v].at >= row'.renewAt
  BY <1>5 DEF Start, Starts
<1>6. ASSUME NEW v \in Runners, run'[v].pc \in Steps
      PROVE  /\ run'[v].cycle = row'.cycle
             /\ run'[v].pc = "renew" => run'[v].at >= row'.renewAt
  <2>1. CASE run'[v] = run[v]
    BY <1>3, <1>6, <2>1 DEF RowKnown, Steps
  <2>2. CASE run'[v] # run[v]
    <3>1. \/ RunMoves(run[v], run'[v])
          \/ \E task \in queued : Start(task) /\ Starts(task, run'[v])
      BY <2>2, MoveOfRuns DEF TypeOK
    <3>. QED
      BY <1>4, <1>5, <1>6, <3>1
  <2>. QED
    BY <2>1, <2>2
<1>7. \A v \in Runners : run'[v].pc = "renew" => run'[v].at >= row'.renewAt
  BY <1>6 DEF Steps
<1>. QED
  BY <1>2, <1>6, <1>7 DEF RowKnown

LEMMA OrderedStep ==
  ASSUME TypeOK, HasLast(period), Move, Ordered
  PROVE  Ordered'
<1>1. ASSUME Respected' PROVE (Exclusive /\ RowKnown)'
  BY <1>1, RespectedSteps, ExclusiveStep, RowKnownStep DEF Ordered
<1>. QED
  BY <1>1 DEF Ordered

-----------------------------------------------------------------------------
(* The theorems that need no assumption on how the bounds are combined.    *)

IInv == TypeOK /\ HasLast(period) /\ RunsRead /\ Ordered

LEMMA Initially == Init => IInv
<1>. SUFFICES ASSUME Init PROVE IInv
  OBVIOUS
<1>1. TypeOK
  BY TypeInit
<1>2. HasLast(period)
  BY DEF Init, HasLast
<1>3. \A w \in Runners : run[w].pc = "idle" /\ run[w].late = "none"
  BY DEF Init, NoRun
<1>4. RunsRead
  BY <1>3 DEF RunsRead, HasRead, Steps
<1>5. Exclusive
  BY <1>3 DEF Exclusive, Holding, Steps
<1>6. row.cycle.start <= CycleStart(row.renewAt)
  <2>1. /\ plan.trialEnd \in Times /\ 0 \in Times /\ Never \in Times /\ 0 < Never
        /\ row.cycle = Window(0, 0, Never) /\ row.renewAt = 0
    BY <1>1, ConstantTypes DEF Init, TypeOK
  <2>2. row.cycle.start = CycleStart(row.renewAt)
    BY <2>1, CycleStarts
  <2>3. row.cycle.start \in Nat
    BY <1>1, ConstantTypes DEF TypeOK, Cycle
  <2>. QED
    BY <2>2, <2>3
<1>7. RowKnown
  BY <1>3, <1>6 DEF RowKnown, Steps
<1>. QED
  BY <1>1, <1>2, <1>4, <1>5, <1>7 DEF IInv, Ordered

LEMMA Inductive == IInv /\ [Next]_vars => IInv'
<1>. SUFFICES ASSUME IInv, [Next]_vars PROVE IInv'
  OBVIOUS
<1>1. CASE Next
  <2>1. Move
    BY <1>1 DEF Next
  <2>2. TypeOK'
    BY <1>1, TypeStep DEF IInv
  <2>3. HasLast(period)' /\ RunsRead' /\ Ordered'
    BY <2>1, HasLastStep, RunsReadStep, OrderedStep DEF IInv
  <2>. QED
    BY <2>2, <2>3 DEF IInv
<1>2. CASE UNCHANGED vars
  BY <1>2 DEF vars, IInv, TypeOK, HasLast, RunsRead, HasRead, Ordered, Respected, Exclusive, RowKnown, CycleStart
<1>. QED
  BY <1>1, <1>2

LEMMA IInvHolds == Spec => []IInv
BY Initially, Inductive, PTL DEF Spec

\* Every variable keeps its type: no period is charged less than nothing, and no
\* run leaves the states of the machine.
THEOREM TypesHold == Spec => []TypeOK
<1>1. IInv => TypeOK
  BY DEF IInv
<1>. QED
  BY <1>1, IInvHolds, PTL

\* Only a run that read the row before it became final, or has a status to write,
\* takes a subscription out of canceled or expired: none that starts later does.
THEOREM FinalIsFinal == Spec => FinalStaysFinal
<1>1. IInv /\ [Next]_vars =>
        [row.status \in Final /\ (\A w \in Runners : ReadFinal(w)) => row'.status = row.status]_vars
  <2>. SUFFICES ASSUME IInv, Next, row.status \in Final, \A w \in Runners : ReadFinal(w)
                PROVE  row'.status = row.status
    OBVIOUS
  <2>. USE DEF IInv
  <2>1. ASSUME NEW w \in Runners, Grant(w) PROVE FALSE
    BY <2>1 DEF Grant, ReadFinal, RunsRead, HasRead, Steps
  <2>2. ASSUME NEW w \in Runners, Persist(w) PROVE FALSE
    BY <2>2 DEF Persist, ReadFinal, RunsRead, HasRead
  <2>3. ASSUME NEW end \in Ends, Cancel(end) PROVE FALSE
    BY <2>3 DEF Cancel, Active
  <2>4. ASSUME NEW w \in Runners, Renew(w) PROVE row'.status = row.status
    BY <2>4 DEF Renew, TypeOK
  <2>. QED
    BY <2>1, <2>2, <2>3, <2>4 DEF Next, Move, Tick, Schedule, Busy, Pay, Decline, UpdatePhase, Start,
       Step, Bill, Phases, Periods, Release, LockExpires, CallFails, PersistFails, TimesOut,
       LosesLock, Dies
<1>. QED
  BY <1>1, IInvHolds, PTL DEF Spec, FinalStaysFinal

\* While no run goes on after it lost the lock, a task triggered long ago never
\* takes the subscription back to a cycle it has left.
THEOREM CycleGoesForward == Spec => CycleMovesForward
<1>1. IInv /\ [Next]_vars =>
        [left.overlaps = MaxOverlaps => row'.cycle.start >= row.cycle.start]_vars
  <2>. SUFFICES ASSUME IInv, Next, Respected PROVE row'.cycle.start >= row.cycle.start
    BY DEF Respected
  <2>. USE DEF IInv
  <2>1. Exclusive /\ RowKnown
    BY DEF Ordered
  <2>2. ASSUME NEW w \in Runners, Renew(w) PROVE row'.cycle.start >= row.cycle.start
    BY <2>1, <2>2, RenewedRow
  <2>3. ASSUME NEW w \in Runners, Grant(w) PROVE row'.cycle = row.cycle
    BY <2>1, <2>3, GrantedRow
  <2>4. row.cycle.start \in Nat
    BY ConstantTypes DEF TypeOK, Cycle
  <2>5. Move
    BY DEF Next
  <2>. QED
    BY <2>2, <2>3, <2>4, <2>5, RowSteps
<1>. QED
  BY <1>1, IInvHolds, PTL DEF Spec, CycleMovesForward

-----------------------------------------------------------------------------
(* Periods, when no phase is edited in a behaviour where a lock is lost.   *)

\* A run that lost the lock may cut at an end of the phase that has been moved
\* since, and leave a period that ends before it starts: edits and lost locks
\* do not come together here.
Separate == ~Mixed \/ MaxEdits = 0 \/ MaxOverlaps = 0

Apart == left.overlaps = MaxOverlaps \/ left.edits = MaxEdits

LEMMA ApartStep ==
  ASSUME Separate, TypeOK, Move, Apart
  PROVE  Apart'
<1>. USE ConstantTypes DEF TypeOK, Spend
<1>1. CASE Edits
  <2>1. left'.overlaps = left.overlaps /\ MaxEdits # 0
    BY <1>1 DEF Edits
  <2>2. Mixed \/ left.overlaps = MaxOverlaps
    BY <1>1 DEF Edits, Bounds
  <2>. QED
    BY <2>1, <2>2 DEF Separate, Apart
<1>2. CASE Overlaps
  <2>1. left'.edits = left.edits /\ MaxOverlaps # 0
    BY <1>2 DEF Overlaps
  <2>2. Mixed \/ left.edits = MaxEdits
    BY <1>2 DEF Overlaps, Bounds
  <2>. QED
    BY <2>1, <2>2 DEF Separate, Apart
<1>3. CASE Reports \/ Fails \/ UNCHANGED left
  <2>1. left'.overlaps = left.overlaps /\ left'.edits = left.edits
    BY <1>3 DEF Reports, Fails
  <2>. QED
    BY <2>1 DEF Apart
<1>. QED
  BY <1>1, <1>2, <1>3, SpendingSteps

Unedited == left.edits = MaxEdits
Endless == Unedited => plan.end = Never /\ \A w \in Runners : run[w].pc \in Steps => run[w].end = Never

LEMMA EndlessStep ==
  ASSUME TypeOK, HasLast(period), Move, Endless
  PROVE  Endless'
<1>. SUFFICES ASSUME Unedited'
              PROVE  plan'.end = Never /\ \A w \in Runners : run'[w].pc \in Steps => run'[w].end = Never
  BY DEF Endless
<1>1. ~Edits
  BY ConstantTypes DEF Unedited, Edits, Spend, TypeOK
<1>2. left'.edits = left.edits
  <2>1. CASE Reports \/ Fails \/ Overlaps
    BY <2>1 DEF Reports, Fails, Overlaps, Spend, TypeOK
  <2>. QED
    BY <1>1, <2>1, SpendingSteps
<1>3. plan.end = Never /\ \A w \in Runners : run[w].pc \in Steps => run[w].end = Never
  BY <1>2 DEF Endless, Unedited
<1>4. plan' = plan
  BY <1>1 DEF Move, Tick, Schedule, Start, Busy, Pay, Decline, UpdatePhase, Cancel, Step, Renew, Bill,
     Phases, Periods, Grant, Persist, Release, LockExpires, CallFails, PersistFails, TimesOut,
     LosesLock, Dies
<1>5. ASSUME NEW w \in Runners, run'[w].pc \in Steps PROVE run'[w].end = Never
  <2>1. \/ run'[w] = run[w] \/ RunMoves(run[w], run'[w])
        \/ \E task \in queued : Starts(task, run'[w])
    BY MoveOfRuns DEF TypeOK
  <2>. QED
    BY <1>3, <1>5, <2>1 DEF RunMoves, GoesOn, Starts
<1>. QED
  BY <1>3, <1>4, <1>5

\* Tasks, runs and periods are not of the future.
Timely ==
  /\ \A task \in queued : task.at <= now
  /\ \A w \in Runners : run[w].pc \in Steps => run[w].at <= now
  /\ \A p \in period : p.start <= now

LEMMA GeneratedStarts ==
  ASSUME NEW periods \in SUBSET Period, HasLast(periods), NEW end \in Times, NEW at \in Times,
         plan.trialEnd \in Times, plan.mode \in Modes, NEW x \in Generated(periods, end, at)
  PROVE  \/ \E p \in periods : x.start = p.start
         \/ x.start <= at /\ x.start < end
<1>. DEFINE cut == {Cut(p, end) : p \in periods}
<1>1. /\ cut \in SUBSET Period /\ HasLast(cut)
      /\ \/ Generated(periods, end, at) = periods
         \/ Generated(periods, end, at) = cut \cup {NewPeriod(v) : v \in Fresh(cut, end, at)}
  BY GeneratedIs
<1>2. CASE x \in cut
  BY <1>2, CutTimes
<1>. HIDE DEF cut
<1>3. ASSUME NEW v \in Fresh(cut, end, at), x = NewPeriod(v) PROVE x.start <= at /\ x.start < end
  BY <1>1, <1>3, FreshTimes, ConstantTypes DEF NewPeriod, Cycle
<1>. QED
  BY <1>1, <1>2, <1>3

LEMMA QueueSteps ==
  ASSUME TypeOK, Move
  PROVE  /\ \A task \in queued' : task \in queued \/ task.at = now
         /\ now' = now \/ (now' = now + 1 /\ UNCHANGED <<plan, run, period>>)
<1>1. \A k : \A q \in Triggered(k) : \A task \in q : task \in queued \/ task.at = now
  BY DEF Triggered
<1>2. \A task \in queued' : task \in queued \/ task.at = now
  BY <1>1 DEF Move, Tick, Schedule, Start, Busy, Pay, Decline, UpdatePhase, Cancel, Step, Renew, Bill,
     Phases, Periods, Grant, Persist, Release, LockExpires, CallFails, PersistFails, TimesOut,
     LosesLock, Dies
<1>3. now' = now \/ (now' = now + 1 /\ UNCHANGED <<plan, run, period>>)
  BY DEF Move, Tick, Schedule, Start, Busy, Pay, Decline, UpdatePhase, Cancel, Step, Renew, Bill,
     Phases, Periods, Grant, Persist, Release, LockExpires, CallFails, PersistFails, TimesOut,
     LosesLock, Dies
<1>. QED
  BY <1>2, <1>3

\* Where a period of the next state begins.
LEMMA PeriodStarts ==
  ASSUME TypeOK, HasLast(period), Move, NEW x \in period'
  PROVE  \/ \E p \in period : x.start = p.start
         \/ \E w \in Runners : Periods(w) /\ x.start <= run[w].at /\ x.start < run[w].end
<1>1. ASSUME NEW w \in Runners, Periods(w)
      PROVE  \/ \E p \in period : x.start = p.start
             \/ Periods(w) /\ x.start <= run[w].at /\ x.start < run[w].end
  <2>1. x \in Generated(period, run[w].end, run[w].at)
    BY <1>1 DEF Periods
  <2>. QED
    BY <1>1, <2>1, RunBounds, GeneratedStarts
<1>. QED
  BY <1>1, PeriodSteps

LEMMA TimelyStep ==
  ASSUME TypeOK, HasLast(period), Move, Timely
  PROVE  Timely'
<1>1. now \in Nat /\ now' \in Nat /\ now <= now'
  BY ConstantTypes, QueueSteps, SMTT(30) DEF TypeOK
<1>2. \A task \in queued : task.at \in Nat
  BY ConstantTypes DEF TypeOK, Task
<1>3. \A w \in Runners : run[w].at \in Nat
  BY RunBounds, ConstantTypes
<1>4. \A p \in period : p.start \in Nat
  BY ConstantTypes DEF TypeOK, Period
<1>5. \A task \in queued' : task.at <= now'
  BY <1>1, <1>2, QueueSteps DEF Timely
<1>6. ASSUME NEW w \in Runners, run'[w].pc \in Steps PROVE run'[w].at <= now'
  <2>1. \/ run'[w] = run[w] \/ RunMoves(run[w], run'[w])
        \/ \E task \in queued : Starts(task, run'[w])
    BY MoveOfRuns DEF TypeOK
  <2>. QED
    BY <1>1, <1>2, <1>3, <1>6, <2>1 DEF RunMoves, GoesOn, Starts, Timely
<1>7. ASSUME NEW x \in period' PROVE x.start <= now'
  <2>1. CASE \E p \in period : x.start = p.start
    BY <1>1, <1>4, <2>1 DEF Timely
  <2>2. ASSUME NEW w \in Runners, Periods(w), x.start <= run[w].at PROVE x.start <= now'
    <3>1. run[w].at <= now
      BY <2>2 DEF Timely, Periods, Steps
    <3>2. x.start \in Nat
      <4>1. period' \subseteq Period
        BY TypedStep DEF Typed
      <4>. QED
        BY <4>1, ConstantTypes DEF Period
    <3>. QED
      BY <1>1, <1>3, <2>2, <3>1, <3>2
  <2>. QED
    BY <2>1, <2>2, PeriodStarts
<1>. QED
  BY <1>5, <1>6, <1>7 DEF Timely

\* No period begins after the end of the phase, nor after the end a run is about to
\* cut it at; and a run that has read another end is not ahead of the phase's.
Within ==
  /\ \A p \in period : p.start <= plan.end
  /\ \A w \in Runners : run[w].pc = "periods" =>
       /\ \A p \in period : p.start <= run[w].end
       /\ run[w].end = plan.end \/ run[w].at <= plan.end

\* The end of the phase is moved, not into the past, and then nothing else.
LEMMA EndSteps ==
  ASSUME TypeOK, Move
  PROVE  \/ plan'.end = plan.end
         \/ plan'.end \in Times /\ plan'.end >= now /\ UNCHANGED <<run, period>>
<1>1. ASSUME NEW end \in Ends, UpdatePhase(end)
      PROVE  plan'.end \in Times /\ plan'.end >= now /\ UNCHANGED <<run, period>>
  BY <1>1, PlansAssumption DEF UpdatePhase, TypeOK
<1>2. ASSUME NEW end \in Ends, Cancel(end)
      PROVE  \/ plan'.end = plan.end
             \/ plan'.end \in Times /\ plan'.end >= now /\ UNCHANGED <<run, period>>
  BY <1>2, PlansAssumption, ConstantTypes DEF Cancel, TypeOK, Least
<1>3. (\A end \in Ends : ~UpdatePhase(end) /\ ~Cancel(end)) => plan' = plan
  BY DEF Move, Tick, Schedule, Start, Busy, Pay, Decline, Step, Renew, Bill, Phases, Periods, Grant,
     Persist, Release, LockExpires, CallFails, PersistFails, TimesOut, LosesLock, Dies
<1>. QED
  BY <1>1, <1>2, <1>3

\* One run makes periods at a time, or the phase is as it was.
LEMMA OneMaker ==
  ASSUME Apart, Ordered, Endless, NEW w \in Runners, NEW v \in Runners, w # v,
         run[w].pc = "periods", run[v].pc = "periods"
  PROVE  run[w].end = Never /\ run[v].end = Never /\ plan.end = Never
BY DEF Apart, Ordered, Respected, Exclusive, Endless, Unedited, Holding, Steps

LEMMA WithinStep ==
  ASSUME TypeOK, HasLast(period), Ordered, Apart, Endless, Timely, Within, Move
  PROVE  Within'
<1>1. /\ now \in Nat /\ plan.end \in Nat /\ \A p \in period : p.start \in Nat
      /\ \A w \in Runners : run[w].at \in Nat /\ run[w].end \in Nat
  <2>1. now \in Nat /\ plan.end \in Times /\ period \subseteq Period
    BY ConstantTypes DEF TypeOK
  <2>2. \A w \in Runners : run[w].at \in Times /\ run[w].end \in Times
    BY RunBounds
  <2>. QED
    BY <2>1, <2>2, ConstantTypes DEF Period
<1>2. period' \subseteq Period /\ plan'.end \in Nat
  BY TypedStep, ConstantTypes DEF Typed
<1>3. CASE plan'.end # plan.end
  <2>1. plan'.end >= now /\ run' = run /\ period' = period
    BY <1>3, EndSteps
  <2>2. \A p \in period : p.start <= plan'.end
    BY <1>1, <1>2, <2>1 DEF Timely
  <2>3. \A w \in Runners : run[w].pc = "periods" => run[w].at <= plan'.end
    BY <1>1, <1>2, <2>1 DEF Timely, Steps
  <2>. QED
    BY <2>1, <2>2, <2>3 DEF Within
<1>4. CASE plan'.end = plan.end
  <2>1. ASSUME NEW x \in period', NEW w \in Runners, Periods(w),
               x.start <= run[w].at, x.start < run[w].end
        PROVE  /\ x.start <= plan.end
               /\ \A v \in Runners : v # w /\ run[v].pc = "periods" => x.start <= run[v].end
    <3>1. run[w].pc = "periods" /\ x.start \in Nat /\ x.start <= Never
      BY <1>2, <2>1, ConstantTypes DEF Periods, Period
    <3>2. x.start <= plan.end
      BY <1>1, <2>1, <3>1 DEF Within
    <3>3. \A v \in Runners : v # w /\ run[v].pc = "periods" => x.start <= run[v].end
      BY <3>1, OneMaker
    <3>. QED
      BY <3>2, <3>3
  <2>2. ASSUME NEW x \in period' PROVE x.start <= plan'.end
    BY <1>4, <2>1, <2>2, PeriodStarts DEF Within
  <2>3. ASSUME NEW v \in Runners, run'[v].pc = "periods"
        PROVE  /\ \/ run[v].pc = "periods" /\ run'[v].end = run[v].end /\ run'[v].at = run[v].at
                  \/ run[v].pc = "phases" /\ run'[v].end = plan.end
               /\ ~Periods(v)
    <3>1. \/ run'[v] = run[v] \/ RunMoves(run[v], run'[v])
          \/ \E task \in queued : Starts(task, run'[v])
      BY MoveOfRuns DEF TypeOK
    <3>2. ~Periods(v)
      <4>. SUFFICES ASSUME Periods(v) PROVE FALSE
        OBVIOUS
      <4>1. run[v] \in Run /\ run \in [Runners -> Run]
        BY DEF TypeOK
      <4>2. \/ run'[v] = Finished(run[v], run[v].status)
            \/ run'[v] = [run[v] EXCEPT !.pc = "grant"]
        BY <4>1 DEF Periods
      <4>3. Finished(run[v], run[v].status).pc = "release"
        BY DEF Finished, NoRun
      <4>. QED
        BY <2>3, <4>1, <4>2, <4>3 DEF Run
    <3>. QED
      BY <2>3, <3>1, <3>2 DEF RunMoves, GoesOn, Starts, Steps
  <2>4. ASSUME NEW v \in Runners, run'[v].pc = "periods", NEW x \in period'
        PROVE  x.start <= run'[v].end
    <3>1. CASE run[v].pc = "phases" /\ run'[v].end = plan.end
      BY <1>4, <2>2, <3>1
    <3>2. CASE run[v].pc = "periods" /\ run'[v].end = run[v].end
      BY <2>1, <2>3, <2>4, <3>2, PeriodStarts DEF Within
    <3>. QED
      BY <2>3, <2>4, <3>1, <3>2
  <2>5. ASSUME NEW v \in Runners, run'[v].pc = "periods"
        PROVE  run'[v].end = plan'.end \/ run'[v].at <= plan'.end
    BY <1>4, <2>3, <2>5 DEF Within
  <2>. QED
    BY <2>2, <2>4, <2>5 DEF Within
<1>. QED
  BY <1>3, <1>4

\* Cutting keeps the tiling if no period begins after the cut.
LEMMA CutTiled ==
  ASSUME NEW periods \in SUBSET Period, NEW end \in Times, Tiled(periods),
         \A p \in periods : p.start <= end
  PROVE  Tiled({Cut(p, end) : p \in periods})
<1>. DEFINE cut == {Cut(p, end) : p \in periods}
<1>1. /\ end \in Nat
      /\ \A p \in periods : /\ p.start \in Nat /\ p.end \in Nat /\ p.start <= p.end /\ p.start <= end
                            /\ Cut(p, end).start = p.start /\ Cut(p, end).end = Least(p.end, end)
  BY CutTimes, ConstantTypes DEF Tiled, Period
<1>. SUFFICES ASSUME NEW x \in cut
              PROVE  /\ x.start <= x.end
                     /\ \A y \in cut \ {x} : x.end <= y.start \/ y.end <= x.start
                     /\ x.start = 0 \/ \E y \in cut : y.end = x.start /\ y.start < x.start
  BY DEF Tiled
<1>2. PICK p \in periods : x = Cut(p, end)
  OBVIOUS
<1>3. x.start = p.start /\ x.end = Least(p.end, end)
  BY <1>1, <1>2
<1>4. ASSUME NEW y \in cut \ {x} PROVE x.end <= y.start \/ y.end <= x.start
  <2>1. PICK q \in periods : y = Cut(q, end)
    OBVIOUS
  <2>2. q # p /\ y.start = q.start /\ y.end = Least(q.end, end)
    BY <1>1, <1>2, <2>1
  <2>3. p.end <= q.start \/ q.end <= p.start
    BY <2>2 DEF Tiled
  <2>. QED
    BY <1>1, <1>3, <2>2, <2>3 DEF Least
<1>5. CASE p.start # 0
  <2>1. PICK q \in periods : q.end = p.start /\ q.start < p.start
    BY <1>5 DEF Tiled
  <2>2. Cut(q, end) \in cut /\ Cut(q, end).end = p.start /\ Cut(q, end).start < p.start
    BY <1>1, <2>1 DEF Least
  <2>. QED
    BY <1>1, <1>3, <1>4, <2>2 DEF Least
<1>. QED
  BY <1>1, <1>3, <1>4, <1>5 DEF Least

\* New periods go on where the last one ended.
LEMMA FreshTiled ==
  ASSUME NEW cut \in SUBSET Period, HasLast(cut), Tiled(cut), NEW end \in Times, NEW at \in Times,
         plan.trialEnd \in Times
  PROVE  Tiled(cut \cup {NewPeriod(v) : v \in Fresh(cut, end, at)})
<1>. DEFINE c == Cursor(cut)
            fresh == {NewPeriod(v) : v \in Fresh(cut, end, at)}
<1>1. /\ c \in Times /\ c \in Nat
      /\ \A p \in cut : p.end <= c /\ p.end \in Nat /\ p.start \in Nat /\ p.start <= p.end
      /\ cut # {} => \E q \in cut : q.end = c
      /\ cut = {} => c = 0
  BY CursorIsLast, ConstantTypes DEF Period, Tiled, Cursor
<1>2. c = 0 \/ \E q \in cut : q.end = c /\ q.start < c
  <2>1. CASE cut # {}
    <3>1. PICK q \in cut : q.end = c
      BY <1>1, <2>1
    <3>2. CASE q.start = q.end
      BY <1>1, <3>1, <3>2 DEF Tiled
    <3>3. CASE q.start # q.end
      BY <1>1, <3>1, <3>3
    <3>. QED
      BY <3>2, <3>3
  <2>. QED
    BY <1>1, <2>1
<1>3. ASSUME NEW v \in Fresh(cut, end, at)
      PROVE  /\ NewPeriod(v) \in fresh /\ NewPeriod(v).start = v.start /\ NewPeriod(v).end = v.end
             /\ v.start \in Nat /\ v.end \in Nat /\ c <= v.start /\ v.start < v.end
  BY FreshTimes, ConstantTypes DEF NewPeriod, Cycle
<1>4. ASSUME NEW u \in Fresh(cut, end, at), NEW v \in Fresh(cut, end, at), u # v
      PROVE  u.end <= v.start \/ v.end <= u.start
  <2>1. PICK s \in Times : c <= s /\ s < end /\ u = Window(s, c, end)
    BY FreshTimes
  <2>2. PICK t \in Times : c <= t /\ t < end /\ v = Window(t, c, end)
    BY FreshTimes
  <2>3. s <= t \/ t <= s
    BY <2>1, <2>2, ConstantTypes
  <2>. QED
    BY <1>1, <1>4, <2>1, <2>2, <2>3, WindowsOrdered
<1>5. ASSUME NEW v \in Fresh(cut, end, at), v.start # c
      PROVE  \E u \in Fresh(cut, end, at) : u.end = v.start
  <2>1. PICK t \in Times : c <= t /\ t <= at /\ t < end /\ v = Window(t, c, end)
    BY FreshTimes
  <2>2. PICK u \in c .. (t - 1) : Window(u, c, end).end = v.start
    BY <1>1, <1>5, <2>1, WindowsMeet
  <2>3. u \in Times /\ u < end /\ c <= u /\ u \in Unserved(c, at)
    BY <1>1, <2>1, <2>2, ConstantTypes DEF Unserved
  <2>4. Window(u, c, end) \in Fresh(cut, end, at)
    BY <1>1, <2>3, WindowAround DEF Fresh
  <2>. QED
    BY <2>2, <2>4
<1>. HIDE DEF c, fresh
<1>. SUFFICES ASSUME NEW x \in cut \cup fresh
              PROVE  /\ x.start <= x.end
                     /\ \A y \in (cut \cup fresh) \ {x} : x.end <= y.start \/ y.end <= x.start
                     /\ x.start = 0 \/ \E y \in cut \cup fresh : y.end = x.start /\ y.start < x.start
  BY DEF Tiled, fresh
<1>6. \A y \in fresh : \E v \in Fresh(cut, end, at) : y = NewPeriod(v)
  BY DEF fresh
<1>7. CASE x \in cut
  <2>1. ASSUME NEW y \in fresh PROVE x.end <= y.start
    BY <1>1, <1>3, <1>6, <1>7
  <2>. QED
    BY <1>1, <1>7, <2>1 DEF Tiled
<1>8. CASE x \in fresh
  <2>1. PICK v \in Fresh(cut, end, at) : x = NewPeriod(v)
    BY <1>6, <1>8
  <2>2. /\ x.start = v.start /\ x.end = v.end /\ x.start < x.end /\ c <= x.start
        /\ x.start \in Nat /\ x.end \in Nat
    BY <1>3, <2>1
  <2>3. ASSUME NEW y \in cut PROVE y.end <= x.start
    BY <1>1, <2>2, <2>3
  <2>4. ASSUME NEW y \in fresh, y # x PROVE x.end <= y.start \/ y.end <= x.start
    <3>1. PICK u \in Fresh(cut, end, at) : y = NewPeriod(u)
      BY <1>6, <2>4
    <3>2. u # v /\ y.start = u.start /\ y.end = u.end
      BY <1>3, <2>1, <2>4, <3>1
    <3>. QED
      BY <1>4, <2>2, <3>2
  <2>5. x.start = 0 \/ \E y \in cut \cup fresh : y.end = x.start /\ y.start < x.start
    <3>1. CASE v.start = c
      BY <1>2, <2>2, <3>1
    <3>2. CASE v.start # c
      <4>1. PICK u \in Fresh(cut, end, at) : u.end = v.start
        BY <1>5, <3>2
      <4>. QED
        BY <1>3, <2>2, <4>1
    <3>. QED
      BY <3>1, <3>2
  <2>. QED
    BY <2>2, <2>3, <2>4, <2>5
<1>. QED
  BY <1>7, <1>8

LEMMA TiledStep ==
  ASSUME TypeOK, HasLast(period), Within, Tiled(period), Move
  PROVE  Tiled(period)'
<1>1. CASE period' = period
  BY <1>1 DEF Tiled
<1>2. ASSUME NEW f \in [period -> Period],
             \A p \in period : f[p].start = p.start /\ f[p].end = p.end,
             period' = {f[p] : p \in period}
      PROVE  Tiled(period)'
  <2>0. period \in SUBSET Period
    BY DEF TypeOK
  <2>1. Tiled({f[p] : p \in period})
    BY <1>2, <2>0, SameTimes
  <2>. QED
    BY <1>2, <2>1 DEF Tiled
<1>3. ASSUME NEW w \in Runners, Periods(w) PROVE Tiled(period)'
  <2>. DEFINE end == run[w].end
              at == run[w].at
              cut == {Cut(p, end) : p \in period}
  <2>1. /\ period \in SUBSET Period /\ end \in Times /\ at \in Times
        /\ plan.trialEnd \in Times /\ plan.mode \in Modes
        /\ period' = Generated(period, end, at)
    BY <1>3, RunBounds DEF Periods
  <2>2. \A p \in period : p.start <= end
    BY <1>3 DEF Within, Periods
  <2>. HIDE DEF end, at
  <2>3. /\ cut \in SUBSET Period /\ HasLast(cut)
        /\ \/ period' = period
           \/ period' = cut \cup {NewPeriod(v) : v \in Fresh(cut, end, at)}
    BY <2>1, GeneratedIs
  <2>4. Tiled(cut)
    BY <2>1, <2>2, CutTiled
  <2>. HIDE DEF cut
  <2>5. Tiled(cut \cup {NewPeriod(v) : v \in Fresh(cut, end, at)})
    BY <2>1, <2>3, <2>4, FreshTiled
  <2>6. Tiled(period')
    BY <2>3, <2>5
  <2>. QED
    BY <2>6 DEF Tiled
<1>. QED
  BY <1>1, <1>2, <1>3, PeriodSteps

\* The books of one period.
Priced(p) ==
  /\ p.status = "pending" => p.refund = 0 /\ p.cut = "never"
  /\ p.status = "invoiced" => p.cut # "refunded"
  /\ p.status # "pending" /\ ~p.trial /\ p.cut = "never" =>
       p.refund = 0 /\ p.charge = p.end - p.start
  /\ p.status = "paid" /\ ~p.trial /\ p.cut = "refunded" => p.charge - p.refund = p.end - p.start

LEMMA CutPriced ==
  ASSUME NEW p \in Period, NEW end \in Times, Priced(p), p.start <= p.end, p.start <= end
  PROVE  Priced(Cut(p, end))
<1>1. /\ p.start \in Nat /\ p.end \in Nat /\ end \in Nat /\ p.charge \in Nat /\ p.refund \in Int
      /\ p.cut \in {"never", "refunded", "otherwise"} /\ p.status \in {"pending", "invoiced", "paid"}
  BY ConstantTypes DEF Period
<1>. DEFINE refund == p.refund + Refund(p, end)
            due == Least(p.due, end)
            cut == IF p.cut = "never" /\ p.status = "paid" THEN "refunded" ELSE "otherwise"
<1>2. ASSUME p.end > end, p.status = "paid", ~p.trial, p.cut = "never"
      PROVE  p.charge - refund = end - p.start
  <2>. DEFINE whole == p.end - p.start
              unearned == p.end - end
  <2>1. Duration(p.start, p.end) = whole /\ whole \in Nat \ {0} /\ unearned \in Nat
        /\ Unearned(p, end) = unearned
    BY <1>1, <1>2 DEF Duration, Greatest, Unearned
  <2>2. p.refund = 0 /\ p.charge = whole
    BY <1>2 DEF Priced
  <2>3. Refund(p, end) = (whole * unearned) \div whole
    BY <1>2, <2>1, <2>2 DEF Refund, Part
  <2>4. (whole * unearned) \div whole = unearned
    <3>. HIDE DEF whole, unearned
    <3>. QED
      BY <2>1, DivMul
  <2>. QED
    BY <1>1, <2>2, <2>3, <2>4
<1>. HIDE DEF refund, due, cut
<1>3. CASE p.end <= end
  BY <1>1, <1>3 DEF Cut
<1>4. CASE p.end > end /\ p.status = "pending"
  <2>1. Cut(p, end) = [p EXCEPT !.end = end, !.due = IF plan.mode = "pay_in_arrear" THEN due ELSE @]
    BY <1>1, <1>4 DEF Cut, due
  <2>2. LET x == Cut(p, end) IN x.status = "pending" /\ x.refund = p.refund /\ x.cut = p.cut
    BY <1>4, <2>1 DEF Period
  <2>. QED
    BY <1>4, <2>2 DEF Priced
<1>5. CASE p.end > end /\ p.status # "pending"
  <2>1. Cut(p, end) = [p EXCEPT !.end = end, !.refund = refund, !.cut = cut]
    BY <1>1, <1>5 DEF Cut, refund, cut
  <2>2. LET x == Cut(p, end) IN
          /\ x.status = p.status /\ x.refund = refund /\ x.cut = cut /\ x.end = end
          /\ x.start = p.start /\ x.charge = p.charge /\ x.trial = p.trial
    BY <2>1 DEF Period
  <2>3. cut # "never" /\ (cut = "refunded" => p.cut = "never" /\ p.status = "paid")
    BY DEF cut
  <2>. QED
    BY <1>2, <1>5, <2>2, <2>3 DEF Priced
<1>. QED
  BY <1>1, <1>3, <1>4, <1>5

LEMMA PricedStep ==
  ASSUME TypeOK, HasLast(period), Within, Tiled(period), \A p \in period : Priced(p), Move
  PROVE  \A x \in period' : Priced(x)
<1>. USE DEF TypeOK
<1>1. ASSUME NEW p \in period, Pay(p) PROVE \A x \in period' : Priced(x)
  <2>. DEFINE paid == [p EXCEPT !.status = "paid"]
  <2>1. /\ paid.status = "paid" /\ paid.cut = p.cut /\ paid.refund = p.refund /\ paid.trial = p.trial
        /\ paid.charge = p.charge /\ paid.start = p.start /\ paid.end = p.end
        /\ p.status = "invoiced"
    BY <1>1 DEF Period, Pay
  <2>2. Priced(paid)
    <3>. HIDE DEF paid
    <3>. QED
      BY <2>1 DEF Priced
  <2>. QED
    BY <1>1, <2>2 DEF Pay
<1>2. ASSUME NEW w \in Runners, Bill(w) PROVE \A x \in period' : Priced(x)
  <2>. DEFINE Invoiced(p) == [p EXCEPT !.status = "invoiced", !.charge = Charge(p)]
  <2>1. PICK s \in run[w].todo : period' = AfterBilling(period, s)
    BY <1>2 DEF Bill, AfterBilling
  <2>2. ASSUME NEW p \in period, p.status = "pending" PROVE Priced(Invoiced(p))
    <3>1. /\ Invoiced(p).status = "invoiced" /\ Invoiced(p).charge = Charge(p)
          /\ Invoiced(p).cut = p.cut /\ Invoiced(p).refund = p.refund
          /\ Invoiced(p).start = p.start /\ Invoiced(p).end = p.end /\ Invoiced(p).trial = p.trial
      BY DEF Period
    <3>2. p.start \in Nat /\ p.end \in Nat /\ p.start <= p.end
      BY ConstantTypes DEF Tiled, Period
    <3>3. ~p.trial => Charge(p) = p.end - p.start
      BY <3>2 DEF Charge, Duration, Greatest
    <3>4. p.refund = 0 /\ p.cut = "never"
      BY <2>2 DEF Priced
    <3>. HIDE DEF Invoiced
    <3>. QED
      BY <3>1, <3>3, <3>4 DEF Priced
  <2>. HIDE DEF Invoiced
  <2>3. \A x \in period' : x \in period \/ \E p \in period : p.status = "pending" /\ x = Invoiced(p)
    BY <2>1 DEF AfterBilling, Invoiced
  <2>. QED
    BY <2>2, <2>3
<1>3. ASSUME NEW w \in Runners, Periods(w) PROVE \A x \in period' : Priced(x)
  <2>. DEFINE end == run[w].end
              at == run[w].at
              cut == {Cut(p, end) : p \in period}
  <2>1. /\ period \in SUBSET Period /\ end \in Times /\ at \in Times
        /\ plan.trialEnd \in Times /\ plan.mode \in Modes
        /\ period' = Generated(period, end, at)
    BY <1>3, RunBounds DEF Periods
  <2>2. \A p \in period : p.start <= end /\ p.start <= p.end
    BY <1>3 DEF Within, Periods, Tiled
  <2>. HIDE DEF end, at, TypeOK
  <2>3. \/ period' = period
        \/ period' = cut \cup {NewPeriod(v) : v \in Fresh(cut, end, at)}
    BY <2>1, GeneratedIs
  <2>4. \A x \in cut : Priced(x)
    BY <2>1, <2>2, CutPriced
  <2>5. \A v : Priced(NewPeriod(v))
    BY DEF Priced, NewPeriod
  <2>. HIDE DEF cut
  <2>. QED
    BY <2>3, <2>4, <2>5
<1>4. CASE period' = period
  BY <1>4
<1>5. ASSUME NEW w \in Runners, Step(w), ~Bill(w), ~Periods(w) PROVE period' = period
  BY <1>5 DEF Step, Renew, Phases, Grant, Persist, Release, LockExpires
<1>. QED
  BY <1>1, <1>2, <1>3, <1>4, <1>5 DEF Move, Tick, Schedule, Decline, UpdatePhase, Cancel, Start, Busy,
     CallFails, PersistFails, TimesOut, LosesLock, Dies

PInv ==
  /\ IInv /\ Apart /\ Endless /\ Timely /\ Within
  /\ Tiled(period) /\ \A p \in period : Priced(p)

LEMMA PeriodsInitially == Init => PInv
<1>. SUFFICES ASSUME Init PROVE PInv
  OBVIOUS
<1>1. IInv
  BY Initially
<1>2. \A w \in Runners : run[w].pc = "idle"
  BY DEF Init, NoRun
<1>3. period = {} /\ plan.end = Never /\ now = 0 /\ \A task \in queued : task.at = 0
  BY DEF Init
<1>4. left.overlaps = MaxOverlaps
  BY DEF Init, Bounds
<1>. QED
  BY <1>1, <1>2, <1>3, <1>4 DEF PInv, Apart, Endless, Timely, Within, Tiled, Steps

LEMMA PeriodsInductive == Separate /\ PInv /\ [Next]_vars => PInv'
<1>. SUFFICES ASSUME Separate, PInv, [Next]_vars PROVE PInv'
  OBVIOUS
<1>1. IInv'
  BY Inductive DEF PInv
<1>2. CASE Next
  <2>1. Move /\ TypeOK /\ HasLast(period) /\ Ordered
    BY <1>2 DEF Next, PInv, IInv
  <2>2. Apart' /\ Endless' /\ Timely'
    BY <2>1, ApartStep, EndlessStep, TimelyStep DEF PInv
  <2>3. Within'
    BY <2>1, WithinStep DEF PInv
  <2>4. Tiled(period)'
    BY <2>1, TiledStep DEF PInv
  <2>5. \A x \in period' : Priced(x)
    BY <2>1, PricedStep DEF PInv
  <2>. QED
    BY <1>1, <2>2, <2>3, <2>4, <2>5 DEF PInv, Priced
<1>3. CASE UNCHANGED vars
  BY <1>1, <1>3 DEF vars, PInv, Apart, Endless, Unedited, Timely, Within, Tiled, Priced
<1>. QED
  BY <1>2, <1>3

\* However a phase is edited and whoever makes its periods, they follow one another
\* from its start without a gap or an overlap, unless a run lost its lock besides.
THEOREM PeriodsAlwaysTile ==
  ASSUME Separate
  PROVE  Spec => []PeriodsTile
<1>1. PInv => PeriodsTile
  <2>. SUFFICES ASSUME PInv PROVE PeriodsTile
    OBVIOUS
  <2>1. \A p \in period : p.start \in Nat /\ p.end \in Nat
    BY ConstantTypes DEF PInv, IInv, TypeOK, Period
  <2>2. ASSUME NEW p \in period, p.start # 0 PROVE \E q \in period \ {p} : q.end = p.start
    <3>1. PICK q \in period : q.end = p.start /\ q.start < p.start
      BY <2>2 DEF PInv, Tiled
    <3>2. q # p
      BY <2>1, <3>1
    <3>. QED
      BY <3>1, <3>2
  <2>. QED
    BY <2>2 DEF PInv, Tiled, PeriodsTile
<1>. QED
  BY <1>1, PeriodsInitially, PeriodsInductive, PTL DEF Spec

\* A period that was paid for, and cut once since, was paid for the time it has.
THEOREM NetIsAlwaysEarned ==
  ASSUME Separate
  PROVE  Spec => []NetIsEarned
<1>1. PInv => NetIsEarned
  <2>. SUFFICES ASSUME PInv, NEW p \in period, p.status = "paid", ~p.trial, p.cut # "otherwise"
                PROVE  p.charge - p.refund = p.end - p.start
    BY DEF NetIsEarned
  <2>1. p.charge \in Nat /\ p.cut \in {"never", "refunded", "otherwise"}
    BY DEF PInv, IInv, TypeOK, Period
  <2>. QED
    BY <2>1 DEF PInv, Priced
<1>. QED
  BY <1>1, PeriodsInitially, PeriodsInductive, PTL DEF Spec
=============================================================================
