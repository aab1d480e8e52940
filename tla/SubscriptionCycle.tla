------------------------- MODULE SubscriptionCycle -------------------------
(***************************************************************************)
(* The billing cycle of one subscription: the runs of the subscription     *)
(* machine that renew its cycle, issue the cycle's grants, make its        *)
(* billing periods and bill them, under a lock that expires; and what      *)
(* happens outside that lock: a phase that is cut or extended, the         *)
(* cancellation, payments, and a status the machine writes without waiting *)
(* for it.                                                                 *)
(*                                                                         *)
(* Time is counted in ticks; the phase starts at 0 and a cycle is          *)
(* CycleLength ticks.  A run works with the time its task was triggered    *)
(* at.  Each step of a run is one awaited call or one transaction.  A run  *)
(* knows what it read when it started; other runs, and the calls outside   *)
(* the lock, may have moved the row since.                                 *)
(*                                                                         *)
(* The plan has one item at a flat price of one unit a tick, so a period's *)
(* statement is its own.  A payment method is on file, the invoice of a    *)
(* period is either unpaid or paid, and a transaction is one step.         *)
(***************************************************************************)
EXTENDS Integers, FiniteSets

CONSTANTS
  MaxRuns,      \* bound: runs of the machine under way at once
  MaxQueued,    \* bound: tasks that wait at once
  CycleLength,  \* ticks in a cycle
  Grace,        \* ticks an arrears period waits for late events
  Lookahead,    \* ticks before a cycle's end that the periods cron looks ahead
  Lookback,     \* ticks a phase that ended still gets its periods
  Plans,        \* when a plan bills, whether it renews by itself, where its trial ends (0: none)
  Ends,         \* where an operator moves the end of the phase (a bound)
  MaxTime,      \* bound: the clock
  MaxEdits,     \* bound: phase edits and cancellations
  MaxReports,   \* bound: payments, and failures reported to the machine
  MaxFaults,    \* bound: calls that fail and processes that die
  MaxOverlaps,  \* bound: runs that go on after they lost the lock
  Mixed         \* bound: whether these come together in one behaviour

ASSUME ParametersAssumption ==
  /\ MaxRuns \in Nat /\ MaxQueued \in Nat
  /\ CycleLength \in Nat \ {0} /\ Grace \in Nat /\ Lookahead \in Nat /\ Lookback \in Nat
  /\ MaxTime \in Nat /\ MaxEdits \in Nat /\ MaxReports \in Nat /\ MaxFaults \in Nat
  /\ MaxOverlaps \in Nat /\ Mixed \in BOOLEAN

VARIABLES
  now,      \* the clock
  plan,     \* the phase: its plan's mode, renewal and trial, and its end
  row,      \* the subscription row
  granted,  \* cycles (by their start) whose activation grants the wallet has
  period,   \* the billing periods
  lock,     \* the run that owns the subscription lock
  queued,   \* tasks that were triggered and no run has started yet
  run,      \* the runs of the machine
  left,     \* what is left of the bounds on edits, reports, faults and overlaps
  stranded  \* history: some run moved the cycle and stopped before its grants

state == <<now, plan, row, granted, period, lock, queued, run, left>>
vars == <<now, plan, row, granted, period, lock, queued, run, left, stranded>>

-----------------------------------------------------------------------------
Never == MaxTime + 2 * CycleLength   \* the end of a phase without one
Times == 0 .. Never
Modes == {"pay_in_advance", "pay_in_arrear", "wallet_only"}
ASSUME PlansAssumption ==
  /\ Plans \subseteq [mode : Modes, renews : BOOLEAN, trialEnd : Times]
  /\ Ends \subseteq Times
Runners == 1 .. MaxRuns
Unlocked == 0
Kinds == {"renew", "invoice", "activate", "periods", "success", "failure"}
Final == {"canceled", "expired"}
Statuses == {"trialing", "active", "pending_activation", "past_due"} \cup Final
Cycle == [start : Times, end : Times]

\* due is invoiceAt, charge what its statement came to, refund what a later cut
\* gave back, and cut how the period was shortened after it was invoiced.
Period == [start : Times, end : Times, due : Times, trial : BOOLEAN,
           status : {"pending", "invoiced", "paid"},
           charge : Nat, refund : Int, cut : {"never", "refunded", "otherwise"}]

\* status and cycle are what the run read, end the phase's end as it read it,
\* todo the statements it bills, late the status it has yet to write; renewed: it
\* moved the cycle and has not issued its grants; alone: the caller timed out and
\* stopped the machine, and only the call under way goes on.
Run == [pc : {"idle", "renew", "bill", "phases", "periods", "grant", "release", "done", "dead"},
        kind : Kinds, at : Times, status : Statuses, cycle : Cycle, end : Times, todo : SUBSET Times, late : Statuses \cup {"none"},
        renewed : BOOLEAN, alone : BOOLEAN]
NoRun == [pc |-> "idle", kind |-> "renew", at |-> 0, status |-> "active",
          cycle |-> [start |-> 0, end |-> 0], end |-> 0, todo |-> {},
          late |-> "none", renewed |-> FALSE, alone |-> FALSE]
Bounds == [edits |-> MaxEdits, reports |-> MaxReports, faults |-> MaxFaults,
           overlaps |-> MaxOverlaps]
Task == [kind : Kinds, at : Times]

TypeOK ==
  /\ now \in 0 .. MaxTime
  /\ plan \in [mode : Modes, renews : BOOLEAN, trialEnd : Times, end : Times]
  /\ row \in [status : Statuses, cycle : Cycle, renewAt : Times]
  /\ granted \subseteq Times
  /\ period \subseteq Period
  /\ lock \in Runners \cup {Unlocked}
  /\ queued \subseteq Task
  /\ run \in [Runners -> Run] /\ stranded \in BOOLEAN
  /\ left \in [edits : 0 .. MaxEdits, reports : 0 .. MaxReports, faults : 0 .. MaxFaults,
              overlaps : 0 .. MaxOverlaps]

-----------------------------------------------------------------------------
(* Cycle windows.                                                          *)

Least(a, b) == IF a < b THEN a ELSE b
Greatest(a, b) == IF a > b THEN a ELSE b
NoWindow == [start |-> Never, end |-> Never]

\* calculateCycleWindow: the window around t of a stretch from .. end: the trial,
\* or the cycle, cut at either end of the stretch.
Window(t, from, end) ==
  IF t < from \/ t >= end THEN NoWindow
  ELSE IF t < plan.trialEnd THEN [start |-> from, end |-> Least(plan.trialEnd, end)]
  ELSE LET first == (t \div CycleLength) * CycleLength IN
         [start |-> Greatest(first, Greatest(from, plan.trialEnd)),
          end |-> Least(first + CycleLength, end)]

Init ==
  /\ now = 0
  /\ \E p \in Plans :
       plan = [mode |-> p.mode, renews |-> p.renews, trialEnd |-> p.trialEnd, end |-> Never]
  /\ row = [status |-> IF plan.trialEnd > 0 THEN "trialing" ELSE "active",
            cycle |-> Window(0, 0, Never), renewAt |-> 0]
  /\ granted = {} /\ period = {}
  /\ lock = Unlocked
  /\ run = [w \in Runners |-> NoRun] /\ stranded = FALSE
  /\ \/ /\ queued = IF row.status = "active" THEN {[kind |-> "activate", at |-> 0]} ELSE {}
        /\ left = Bounds
     \/ /\ row.status = "active" /\ MaxFaults > 0   \* the first activation failed
        /\ queued = {} /\ left = [Bounds EXCEPT !.faults = @ - 1]

\* Unless Mixed, an edit or a report, a fault and an overlap are explored apart.
Spend(kind, apart) ==
  /\ left[kind] > 0 /\ (Mixed \/ \A k \in apart : left[k] = Bounds[k])
  /\ left' = [left EXCEPT ![kind] = @ - 1]
Edits == Spend("edits", {"faults", "overlaps"})
Reports == Spend("reports", {"overlaps"})
Fails == Spend("faults", {"edits", "overlaps"})
Overlaps == Spend("overlaps", {"edits", "reports", "faults"})

-----------------------------------------------------------------------------
(* Schedules and the outside world.                                        *)

\* The clock moves between runs, or under one that lost its lock: a run does not
\* look at it again.
Tick ==
  /\ now < MaxTime /\ now' = now + 1 /\ lock = Unlocked
  /\ UNCHANGED <<plan, row, granted, period, lock, queued, run, left>>

Active == row.status \notin Final
Invoiceable(p, t) ==
  /\ p.status = "pending" /\ p.due <= t
  /\ plan.mode = "pay_in_arrear" => p.end + Grace <= t

\* What the crons look for.
Crons == {"renew", "invoice", "activate", "periods"}
Due(k) ==
  CASE k = "renew" -> Active /\ row.renewAt <= now
    [] k = "invoice" -> \E p \in period : Invoiceable(p, now)
    [] k = "activate" -> row.status = "pending_activation"
    [] k = "periods" -> Active /\ row.cycle.end <= now + Lookahead

\* One more task, of kind k, if there is room.
Triggered(k) ==
  IF Cardinality(queued) < MaxQueued THEN {queued \cup {[kind |-> k, at |-> now]}} ELSE {}

Schedule(k) ==
  /\ Due(k) /\ queued' \in Triggered(k)
  /\ UNCHANGED <<now, plan, row, granted, period, lock, run, left>>

\* The payment of an invoice, or its failure, is reported to the machine, though
\* the report may be lost.
Pay(p) ==
  /\ p.status = "invoiced" /\ Reports
  /\ period' = (period \ {p}) \cup {[p EXCEPT !.status = "paid"]}
  /\ queued' \in {queued} \cup Triggered("success")
  /\ UNCHANGED <<now, plan, row, granted, lock, run>>

Decline(p) ==
  /\ p.status = "invoiced" /\ Reports
  /\ queued' \in Triggered("failure")
  /\ UNCHANGED <<now, plan, row, granted, period, lock, run>>

\* An operator moves the phase's end, not into the past; the periods follow under
\* the lock, if it is free.
UpdatePhase(end) ==
  /\ Edits /\ Active /\ end >= now /\ end # plan.end
  /\ plan' = [plan EXCEPT !.end = end]
  /\ queued' \in {queued} \cup Triggered("periods")
  /\ UNCHANGED <<now, row, granted, period, lock, run>>

\* cancelSubscription takes no lock and leaves the periods alone.
Cancel(end) ==
  /\ Edits /\ Active /\ end >= now
  /\ plan' = [plan EXCEPT !.end = Least(end, @)]
  /\ row' = [row EXCEPT !.status = "canceled"]
  /\ UNCHANGED <<now, granted, period, lock, queued, run>>

-----------------------------------------------------------------------------
(* The start of a run: the lock, what the machine reads, and the event.    *)

Read(task) ==
  [NoRun EXCEPT !.kind = task.kind, !.at = task.at, !.status = row.status,
                !.cycle = row.cycle, !.end = plan.end]

\* A finished run still has to give the lock back, and perhaps a status to write:
\* one that differs from the status it read.
Finished(r, status) ==
  [NoRun EXCEPT !.pc = "release", !.renewed = r.renewed,
                !.late = IF status = r.status THEN "none" ELSE status]

PhaseFound(r) == r.at <= r.end
\* Fault: a renewal that is not due is carried out.
RenewsAnyway(r) == TRUE
CanRenew(r) == r.at >= row.renewAt

RenewEvent(r) ==
  CASE r.status = "trialing" /\ PhaseFound(r) /\ r.at >= plan.trialEnd /\ CanRenew(r) ->
         [r EXCEPT !.pc = "renew"]
    [] r.status = "active" /\ PhaseFound(r) /\ CanRenew(r) /\ plan.renews ->
         [r EXCEPT !.pc = "renew"]
    [] r.status = "active" /\ PhaseFound(r) /\ ~plan.renews -> Finished(r, "expired")
    [] OTHER -> Finished(r, r.status)

Payable == {"active", "past_due"}
\* The statements to bill are listed without a lock on them.
InvoiceEvent(r) ==
  IF r.status \in Payable /\ ~(plan.mode = "wallet_only" /\ PhaseFound(r))
  THEN LET due == {p.start : p \in {q \in period : Invoiceable(q, r.at)}} IN
         [r EXCEPT !.pc = IF due = {} THEN "phases" ELSE "bill", !.todo = due]
  ELSE Finished(r, r.status)

\* Fault: the machine activates from any state.
ActivateAny(r) == [r EXCEPT !.pc = "phases"]
ActivateEvent(r) ==
  IF r.status \in {"pending_activation", "active"} THEN [r EXCEPT !.pc = "phases"]
  ELSE Finished(r, r.status)

\* A payment or invoice outcome is reported to the machine.
OutcomeEvent(r) ==
  CASE r.status \notin Payable -> Finished(r, r.status)
    [] r.status \in Payable /\ r.kind = "failure" -> Finished(r, "past_due")
    [] r.status \in Payable /\ r.kind = "success" ->
         IF plan.mode = "pay_in_advance" /\ PhaseFound(r) /\ CanRenew(r)
         THEN [r EXCEPT !.pc = "renew"] ELSE Finished(r, "active")

Dispatch(r) ==
  CASE r.kind = "renew" -> RenewEvent(r)
    [] r.kind = "invoice" -> InvoiceEvent(r)
    [] r.kind = "activate" -> ActivateEvent(r)
    [] r.kind = "periods" -> [r EXCEPT !.pc = "phases"]
    [] r.kind \in {"success", "failure"} -> OutcomeEvent(r)

Idle(w) == run[w].pc = "idle"

Start(task) ==
  /\ lock = Unlocked
  /\ \E w \in Runners :
       /\ Idle(w) /\ \A v \in 1 .. (w - 1) : ~Idle(v)
       /\ lock' = w
       /\ run' = [run EXCEPT ![w] = Dispatch(Read(task))]
  /\ queued' = queued \ {task}
  /\ UNCHANGED <<now, plan, row, granted, period, left>>

\* SUBSCRIPTION_BUSY: the task's retries find the lock held and it is dropped.
Busy(task) ==
  /\ lock # Unlocked /\ Fails
  /\ queued' = queued \ {task}
  /\ UNCHANGED <<now, plan, row, granted, period, lock, run>>

-----------------------------------------------------------------------------
(* The steps of a run.  The machine of a caller that timed out is stopped,  *)
(* so nothing follows the call under way.                                   *)

Then(r, next) == IF r.alone THEN NoRun ELSE next

\* renewPeriod: the row moves to the cycle the run's time is in, unless no cycle
\* follows it.  A failure may come after the row was written.
Renew(w) ==
  /\ run[w].pc = "renew"
  /\ LET r == run[w]
         cycle == Window(r.at, 0, r.end)
         moved == [r EXCEPT !.cycle = cycle, !.pc = "phases", !.renewed = TRUE] IN
       \/ /\ cycle = NoWindow \/ cycle.end = r.end
          /\ run' = [run EXCEPT ![w] = Then(r, Finished(r, r.status))]
          /\ UNCHANGED <<row, left>>
       \/ /\ cycle # NoWindow /\ cycle.end # r.end
          /\ row' = [row EXCEPT !.cycle = cycle, !.renewAt = cycle.end]
          /\ \/ run' = [run EXCEPT ![w] = Then(r, moved)] /\ UNCHANGED left
             \/ Fails /\ run' = [run EXCEPT ![w] = Then(r, Finished(moved, r.status))]
  /\ UNCHANGED <<now, plan, granted, period, lock, queued>>

\* What is paid for is the time a period covers, never less than none.
Duration(from, to) == Greatest(0, to - from)
\* Fault: the length is taken the wrong way round.
NegativeCharge(p) == IF p.trial THEN 0 ELSE p.start - p.end
Charge(p) == IF p.trial THEN 0 ELSE Duration(p.start, p.end)

\* billPeriod, one statement: its pending periods are looked up again in the
\* transaction, rated as they are by then, and marked invoiced.
Bill(w) ==
  /\ run[w].pc = "bill"
  /\ \E s \in run[w].todo :
       LET mine == {p \in period : p.start = s /\ p.status = "pending"}
           rest == run[w].todo \ {s} IN
         /\ period' = (period \ mine) \cup
              {[p EXCEPT !.status = "invoiced", !.charge = Charge(p)] : p \in mine}
         /\ run' = [run EXCEPT ![w] =
              IF rest # {} THEN [@ EXCEPT !.todo = rest]
              ELSE Then(@, [@ EXCEPT !.pc = "phases", !.todo = {}])]
  /\ UNCHANGED <<now, plan, row, granted, lock, queued, left>>

\* The phase is read before the transaction that makes its periods.
Phases(w) ==
  /\ run[w].pc = "phases"
  /\ run' = [run EXCEPT ![w].pc = "periods", ![w].end = plan.end]
  /\ UNCHANGED <<now, plan, row, granted, period, lock, queued, left>>

\* What a paid period gives back when it is cut: all but its earned part.
Part(charge, part, whole) == IF whole = 0 THEN 0 ELSE (charge * part) \div whole
Unearned(p, end) == Duration(p.start, p.end) - Duration(p.start, end)
\* Fault: the earned part is given back.
RefundEarned(p, end) ==
  IF p.status # "paid" THEN 0
  ELSE Part(p.charge, Duration(p.start, end), Duration(p.start, p.end))
Refund(p, end) ==
  IF p.status # "paid" THEN 0
  ELSE Part(p.charge, Unearned(p, end), Duration(p.start, p.end))

\* A pending period is cut at the phase's end, and so is, with a refund, one that
\* was invoiced; only an arrears period's invoice moves with it.
Cut(p, end) ==
  IF p.end <= end THEN p
  ELSE IF p.status = "pending"
  THEN [p EXCEPT !.end = end,
                 !.due = IF plan.mode = "pay_in_arrear" THEN Least(@, end) ELSE @]
  ELSE [p EXCEPT !.end = end, !.refund = @ + Refund(p, end),
                 !.cut = IF @ = "never" /\ p.status = "paid" THEN "refunded" ELSE "otherwise"]

\* Fault: the periods are made from the phase's start again.
FromPhaseStart(periods) == 0
\* New periods begin where the last one ends.
Cursor(periods) ==
  IF periods = {} THEN 0
  ELSE CHOOSE e \in {p.end : p \in periods} : \A p \in periods : p.end <= e

NewPeriod(w) ==
  [start |-> w.start, end |-> w.end, trial |-> w.start < plan.trialEnd,
   due |-> IF plan.mode = "pay_in_advance" /\ w.start >= plan.trialEnd THEN w.start ELSE w.end,
   status |-> "pending", charge |-> 0, refund |-> 0, cut |-> "never"]

\* Fault: only the cycle the run is in gets a period.
CurrentTime(from, at) == {at}
Unserved(from, at) == from .. at

\* _generateBillingPeriods: the periods are cut, and those up to the run's time made.
Generated(periods, end, at) ==
  LET cut == {Cut(p, end) : p \in periods}
      windows == {Window(t, Cursor(cut), end) : t \in Unserved(Cursor(cut), at)} \ {NoWindow} IN
    IF end + Lookback < at THEN periods
    ELSE cut \cup {NewPeriod(v) : v \in {x \in windows :
                     \A p \in cut : p.start # x.start \/ p.end # x.end}}

Periods(w) ==
  /\ run[w].pc = "periods"
  /\ period' = Generated(period, run[w].end, run[w].at)
  /\ run' = [run EXCEPT ![w] =
       IF @.kind = "periods" THEN Finished(@, @.status) ELSE [@ EXCEPT !.pc = "grant"]]
  /\ UNCHANGED <<now, plan, row, granted, lock, queued, left>>

\* Fault: an activation that failed is not parked.
NotParked(r) == Then(r, Finished([r EXCEPT !.renewed = FALSE], r.status))
\* An activation that failed is left to the sweeper.
Parked(r) == Then(r, Finished([r EXCEPT !.renewed = FALSE], "pending_activation"))

\* activateSubscription: the grants, and the row as the run knows it, in one
\* transaction.  A failure may come after it committed.
Grant(w) ==
  /\ run[w].pc = "grant"
  /\ LET r == run[w] IN
       /\ granted' = granted \cup {r.cycle.start}
       /\ row' = [row EXCEPT !.status = "active", !.cycle = r.cycle]
       /\ \/ /\ run' = [run EXCEPT ![w] =
                  Then(r, Finished([r EXCEPT !.renewed = FALSE], "active"))]
             /\ UNCHANGED left
          \/ Fails /\ run' = [run EXCEPT ![w] = Parked(r)]
  /\ UNCHANGED <<now, plan, period, lock, queued>>

\* The status of a machine that came to rest is written when it is; nobody waits.
Persist(w) ==
  /\ run[w].late # "none"
  /\ row' = [row EXCEPT !.status = run[w].late]
  /\ run' = [run EXCEPT ![w] = IF @.pc = "done" THEN NoRun ELSE [@ EXCEPT !.late = "none"]]
  /\ UNCHANGED <<now, plan, granted, period, lock, queued, left>>

FreedBy(w) == IF lock = w THEN Unlocked ELSE lock

Release(w) ==
  /\ run[w].pc = "release"
  /\ lock' = FreedBy(w)
  /\ run' = [run EXCEPT ![w] = IF @.late = "none" THEN NoRun ELSE [@ EXCEPT !.pc = "done"]]
  /\ UNCHANGED <<now, plan, row, granted, period, queued, left>>

-----------------------------------------------------------------------------
(* Failures.                                                               *)

Working(w) == run[w].pc \in {"renew", "bill", "phases", "periods", "grant"}

\* A call fails and nothing came of it.  What activates is parked, the rest is
\* an error of the machine, which writes no status.
CallFails(w) ==
  /\ Working(w) /\ Fails
  /\ run' = [run EXCEPT ![w] =
       IF @.pc \in {"phases", "periods", "grant"} /\ @.kind # "periods" THEN Parked(@)
       ELSE Then(@, Finished(@, @.status))]
  /\ UNCHANGED <<now, plan, row, granted, period, lock, queued>>

PersistFails(w) ==
  /\ run[w].late # "none" /\ Fails
  /\ run' = [run EXCEPT ![w] = IF @.pc = "done" THEN NoRun ELSE [@ EXCEPT !.late = "none"]]
  /\ UNCHANGED <<now, plan, row, granted, period, lock, queued>>

\* The caller stops waiting, stops the machine and gives the lock back.
TimesOut(w) ==
  /\ Working(w) /\ run[w].kind # "periods" /\ ~run[w].alone /\ Overlaps
  /\ run' = [run EXCEPT ![w].alone = TRUE]
  /\ lock' = FreedBy(w)
  /\ UNCHANGED <<now, plan, row, granted, period, queued>>

\* The heartbeat falls behind and the lock expires under a run that goes on.
LosesLock(w) ==
  /\ Working(w) /\ lock = w /\ Overlaps
  /\ lock' = Unlocked
  /\ UNCHANGED <<now, plan, row, granted, period, queued, run>>

\* The process dies, with the status it had yet to write.
Dies(w) ==
  /\ run[w].pc \notin {"idle", "dead"} /\ Fails
  /\ run' = [run EXCEPT ![w] = [NoRun EXCEPT !.pc = "dead", !.renewed = run[w].renewed]]
  /\ UNCHANGED <<now, plan, row, granted, period, lock, queued>>

LockExpires(w) ==
  /\ run[w].pc = "dead"
  /\ lock' = FreedBy(w)
  /\ run' = [run EXCEPT ![w] = NoRun]
  /\ UNCHANGED <<now, plan, row, granted, period, queued, left>>

-----------------------------------------------------------------------------
Step(w) ==
  \/ Renew(w) \/ Bill(w) \/ Phases(w) \/ Periods(w) \/ Grant(w)
  \/ Persist(w) \/ Release(w) \/ LockExpires(w)

\* A run that moved the cycle has stopped before its grants, or its write may yet
\* move it; or a status is still unwritten when the next run owns the lock.
Strands(w) ==
  \/ run[w].renewed /\ (run[w].alone \/ run[w].pc \in {"release", "done", "dead"})
  \/ run[w].alone /\ run[w].pc = "renew"
  \/ run[w].pc = "done" /\ lock # Unlocked

Move ==
  \/ Tick
  \/ \E k \in Crons : Schedule(k)
  \/ \E task \in queued : Start(task) \/ Busy(task)
  \/ \E p \in period : Pay(p) \/ Decline(p)
  \/ \E end \in Ends : UpdatePhase(end) \/ Cancel(end)
  \/ \E w \in Runners :
       Step(w) \/ CallFails(w) \/ PersistFails(w) \/ TimesOut(w) \/ LosesLock(w) \/ Dies(w)

Next == Move /\ stranded' = (stranded \/ \E w \in Runners : Strands(w)')

Spec == Init /\ [][Next]_vars

\* The crons run again and again and their tasks find the lock free now and then; a
\* run that started goes on.  Nothing is asked of the clock, of who pays or of the
\* reports of outcomes.
FairSpec ==
  /\ Spec
  /\ SF_state(Schedule("renew")) /\ SF_state(Schedule("invoice"))
  /\ SF_state(Schedule("activate")) /\ SF_state(Schedule("periods"))
  /\ SF_state(\E task \in queued : Start(task))
  /\ \A w \in Runners : WF_state(Step(w))

-----------------------------------------------------------------------------
(* Properties.                                                             *)

\* The cycle never goes back, whatever old time a task was triggered at, as long
\* as no run went on after it lost the lock.
CycleMovesForward ==
  [][left.overlaps = MaxOverlaps => row'.cycle.start >= row.cycle.start]_vars

\* The periods cover the phase from its start without a gap or an overlap, however
\* its end was moved and whoever made them.
PeriodsTile ==
  \A p \in period :
    /\ p.start <= p.end
    /\ \A q \in period \ {p} : p.end <= q.start \/ q.end <= p.start
    /\ p.start = 0 \/ \E q \in period \ {p} : q.end = p.start

\* What was paid for a period, less what was given back, is the price of the time
\* it covers; but not if it was cut twice, or cut before it was paid.
NetIsEarned ==
  \A p \in period :
    p.status = "paid" /\ ~p.trial /\ p.cut # "otherwise" => p.charge - p.refund = p.end - p.start

\* A subscription that was canceled or expired stays so, unless a run that is under
\* way had read it before that, or has a status to write.
ReadFinal(w) ==
  \/ run[w].pc \in {"idle", "dead"}
  \/ run[w].late = "none" /\ (run[w].pc = "release" \/ run[w].status \in Final)
FinalStaysFinal ==
  [][row.status \in Final /\ (\A w \in Runners : ReadFinal(w)) => row'.status = row.status]_vars

\* The cycle a subscription is in has its grants in the end.  Three exceptions: a
\* run moved the cycle and stopped before its grants, the phase has an end, whose
\* last cycle is never renewed, or a status that is final or past due.
CycleIsGranted ==
  []<>(\/ row.cycle.start \in granted
       \/ stranded \/ plan.end # Never \/ row.status \in Final \cup {"past_due"})

\* Every tick of service is billed once its period is due, unless the subscription
\* is canceled or expired, or its phase has an end.
Billed(t) == \E p \in period : p.start <= t /\ t < p.end /\ p.status # "pending"
ServiceIsBilled ==
  []<>(\/ plan.mode = "wallet_only" \/ row.status \in Final \/ plan.end # Never
       \/ \A t \in 0 .. (now - CycleLength - Grace) : Billed(t))
=============================================================================
