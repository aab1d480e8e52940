--------------------------- MODULE InvoicePayment ---------------------------
(***************************************************************************)
(* The payment of one subscription invoice, from its draft to the moment   *)
(* its receivable is cleared in the wallet: the jobs that finalise it,     *)
(* collect it and reconcile it with the payment provider, and the webhooks *)
(* through which the provider tells of payments, failures and disputes.    *)
(*                                                                         *)
(* A job runs under the subscription lock, so at most one is between its   *)
(* steps; a job that finds the lock held ends at once and the next cron    *)
(* run queues it again.  A webhook writes the invoice without that lock    *)
(* and takes it only to report an outcome to the subscription.  Each step  *)
(* is one awaited call: to the provider, to the wallet, to the invoice row *)
(* or to the subscription machine.  What a job or a webhook read before is *)
(* in its own record.                                                      *)
(*                                                                         *)
(* The lock is taken to be exclusive.  Of an invoice's metadata only the   *)
(* outcome last reconciled is kept, of the subscription only its status.   *)
(***************************************************************************)
EXTENDS Integers, FiniteSets

CONSTANTS
  Events,               \* bound: provider notifications not yet processed at a time
  Methods,              \* collection methods an invoice may have
  Dues,                 \* what an invoice may come to
  MaxProviderInvoices,  \* bound: invoices created at the provider
  MaxFaults,            \* bound: calls that fail or lose their answer, deaths
  Notifies              \* the provider sends webhooks (the sandbox does not)

ASSUME ParametersAssumption ==
  /\ Methods \subseteq {"charge_automatically", "send_invoice"}
  /\ Dues \subseteq {"collectable", "nothing", "zero"}
  /\ MaxProviderInvoices \in Nat /\ MaxFaults \in Nat
  /\ Notifies \in BOOLEAN

VARIABLES
  inv,      \* the invoice row
  pinv,     \* the provider's invoices
  settled,  \* the wallet has recorded the transfer invoice_receivable:{id}
  sub,      \* the subscription's status
  queued,   \* jobs a schedule has triggered
  job,      \* the job that holds the subscription lock
  hook,     \* webhook events and the handlers working on them
  faults,   \* what is left of MaxFaults
  unheard   \* history: a payment's event was forgotten before it was processed

state == <<inv, pinv, settled, sub, queued, job, hook, faults>>
vars == <<inv, pinv, settled, sub, queued, job, hook, faults, unheard>>

-----------------------------------------------------------------------------
ProviderInvoices == 1 .. MaxProviderInvoices
NoProviderInvoice == 0
Kinds == {"finalize", "collect", "reconcile"}
Statuses == {"draft", "waiting", "unpaid", "failed", "paid", "void"}
Outcomes == {"success", "failure"}
GoodNews == {"payment.succeeded", "payment.dispute_reversed"}
BadNews == {"payment.failed", "payment.reversed"}
Collected == {"open", "paid", "disputed", "void", "uncollectible"}

Invoice == [status : Statuses, method : Methods, due : Dues,
            pid : {NoProviderInvoice} \cup ProviderInvoices,
            marker : Outcomes \cup {"none"}]

\* status, marker and pid are what the job read; marker is what it will write
\* with the metadata ("keep": it writes no metadata); to is the status to write.
Job == [kind : Kinds \cup {"none"},
        pc : {"idle", "load", "create", "stamp", "open", "ask", "send", "pay",
              "settle", "write", "report", "mark", "complain", "dead"},
        status : Statuses, to : Statuses,
        pid : {NoProviderInvoice} \cup ProviderInvoices,
        marker : Outcomes \cup {"none", "keep"}]
NoJob == [kind |-> "none", pc |-> "idle", status |-> "draft", to |-> "draft",
          pid |-> NoProviderInvoice, marker |-> "none"]

Hook == [type : GoodNews \cup BadNews \cup {"none"},
         pid : {NoProviderInvoice} \cup ProviderInvoices,
         pc : {"idle", "settle", "status", "report", "mark"},
         marker : Outcomes \cup {"none"}, applied : BOOLEAN]
NoEvent == [type |-> "none", pid |-> NoProviderInvoice, pc |-> "idle",
            marker |-> "none", applied |-> FALSE]

StateOK ==
  /\ inv \in Invoice
  /\ pinv \in [ProviderInvoices -> Collected \cup {"none", "draft", "deleted"}]
  /\ settled \in BOOLEAN
  /\ sub \in {"pending_payment", "pending_activation", "active", "past_due"}
  /\ queued \subseteq Kinds
  /\ job \in Job
  /\ hook \in [Events -> Hook]
  /\ faults \in 0 .. MaxFaults

TypeOK == StateOK /\ unheard \in BOOLEAN

Init ==
  /\ \E m \in Methods, d \in Dues :
        inv = [status |-> "draft", method |-> m, due |-> d,
               pid |-> NoProviderInvoice, marker |-> "none"]
  /\ pinv = [p \in ProviderInvoices |-> "none"]
  /\ settled = FALSE
  /\ sub \in {"pending_payment", "active"}
  /\ queued = {}
  /\ job = NoJob
  /\ hook = [e \in Events |-> NoEvent]
  /\ faults = MaxFaults
  /\ unheard = FALSE

-----------------------------------------------------------------------------
(* The invoice state machine and the subscription machine.                 *)

SucceedsFrom == {"draft", "waiting", "unpaid", "failed"}
AllowedFrom(type) ==
  CASE type = "payment.succeeded" -> SucceedsFrom
    [] type = "payment.dispute_reversed" -> {"unpaid", "failed"}
    [] type = "payment.failed" -> {"draft", "waiting", "unpaid", "failed"}
    [] type = "payment.reversed" -> {"paid"}
StatusAfter(type) ==
  CASE type \in GoodNews -> "paid"
    [] type = "payment.failed" -> "unpaid"
    [] type = "payment.reversed" -> "failed"
OutcomeOf(type) == IF type \in GoodNews THEN "success" ELSE "failure"

FinalStatus(due) ==
  CASE due = "zero" -> "void" [] due = "nothing" -> "paid" [] due = "collectable" -> "unpaid"

\* Fault: what the provider says is taken as it is.
StatusAsSaid(said) == said
\* The invoice status a provider status leads to; an open one leads nowhere.
StatusFor(said) ==
  CASE said = "paid" -> "paid" [] said = "void" -> "void" [] said = "uncollectible" -> "failed"

LockFree == job.pc = "idle"

\* Status after an event of the machine, which refuses one that is not for its
\* state.
AcceptsPayment(s) == s \in {"pending_payment", "active", "past_due"}
AcceptsInvoice(s) == s \in {"active", "past_due"}
AfterInvoice(outcome) ==
  IF ~ AcceptsInvoice(sub) THEN sub
  ELSE IF outcome = "success" THEN "active" ELSE "past_due"

-----------------------------------------------------------------------------
(* The payment provider.                                                   *)

\* The provider notifies of something that happened to invoice p.
Emit(type, p) ==
  IF ~ Notifies THEN UNCHANGED hook
  ELSE \E e \in Events :
         /\ hook[e].type = "none"
         /\ hook' = [hook EXCEPT ![e] = [NoEvent EXCEPT !.type = type, !.pid = p]]

\* The customer pays on the page the provider hosts, or a slow payment clears.  The
\* sandbox, which does not notify, takes an open invoice as paid.
CustomerPays(p) ==
  /\ pinv[p] \in {"open", "uncollectible"}
  /\ pinv' = [pinv EXCEPT ![p] = "paid"]
  /\ Emit("payment.succeeded", p)
  /\ UNCHANGED <<inv, settled, sub, queued, job, faults>>

PaymentFails(p) ==
  /\ Notifies /\ pinv[p] = "open"
  /\ Emit("payment.failed", p)
  /\ UNCHANGED <<inv, pinv, settled, sub, queued, job, faults>>

\* The payment is refunded or disputed, and the dispute is won.
PaymentReversed(p) ==
  /\ Notifies
  /\ \/ /\ pinv[p] = "paid" /\ pinv' = [pinv EXCEPT ![p] = "disputed"]
        /\ Emit("payment.reversed", p)
     \/ /\ pinv[p] = "disputed" /\ pinv' = [pinv EXCEPT ![p] = "paid"]
        /\ Emit("payment.dispute_reversed", p)
  /\ UNCHANGED <<inv, settled, sub, queued, job, faults>>

\* What the provider says of invoice p; a dispute leaves it paid.
Said(p) == IF pinv[p] = "disputed" THEN "paid" ELSE pinv[p]

\* Someone voids or writes off an open invoice at the provider, or deletes a
\* draft.
OperatorEdits(p) ==
  /\ \/ pinv[p] = "open" /\ \E s \in {"void", "uncollectible"} : pinv' = [pinv EXCEPT ![p] = s]
     \/ pinv[p] = "draft" /\ pinv' = [pinv EXCEPT ![p] = "deleted"]
  /\ UNCHANGED <<inv, settled, sub, queued, job, hook, faults>>

-----------------------------------------------------------------------------
(* Jobs.                                                                   *)

\* Fault: the reconciler only looks at invoices that were sent.
DueWhenSent(k) ==
  CASE k = "finalize" -> inv.status = "draft"
    [] k = "collect" -> inv.status \in {"unpaid", "waiting", "failed"}
    [] k = "reconcile" -> inv.status = "waiting" /\ inv.pid # NoProviderInvoice

Due(k) ==
  CASE k = "finalize" -> inv.status = "draft"
    [] k = "collect" -> inv.status \in {"unpaid", "waiting", "failed"}
    [] k = "reconcile" -> inv.status \in {"unpaid", "waiting"} /\ inv.pid # NoProviderInvoice

\* A cron run selects the invoice for a job; the job starts later.
Schedule(k) ==
  /\ k \notin queued /\ Due(k)
  /\ queued' = queued \cup {k}
  /\ UNCHANGED <<inv, pinv, settled, sub, job, hook, faults>>

\* A job takes the lock and reads the invoice.
Start(k, pc, marker) ==
  /\ k \in queued /\ LockFree
  /\ queued' = queued \ {k}
  /\ job' = IF pc = "idle" THEN NoJob
            ELSE [kind |-> k, pc |-> pc, status |-> inv.status, pid |-> inv.pid,
                  to |-> IF k = "finalize" THEN FinalStatus(inv.due) ELSE inv.status,
                  marker |-> marker]
  /\ UNCHANGED <<inv, pinv, settled, sub, hook, faults>>

\* Fault: the stamped provider invoice is not looked at again.
StartFinalizeAnew ==
  Start("finalize",
        CASE inv.status # "draft" -> "idle"
          [] inv.status = "draft" /\ inv.due # "collectable" -> "write"
          [] inv.status = "draft" /\ inv.due = "collectable" -> "create",
        inv.marker)

StartFinalize ==
  Start("finalize",
        CASE inv.status # "draft" -> "idle"
          [] inv.status = "draft" /\ inv.due # "collectable" -> "write"
          [] inv.status = "draft" /\ inv.due = "collectable" ->
               IF inv.pid = NoProviderInvoice THEN "create" ELSE "load",
        inv.marker)

FirstCollectStep ==
  CASE inv.status \in {"paid", "void"} -> "report"
    [] inv.status \in {"draft", "failed"} -> "complain"
    [] inv.status = "waiting" -> "ask"
    [] inv.status = "unpaid" ->
         IF inv.method = "charge_automatically" THEN "ask" ELSE "send"

StartCollect ==
  Start("collect", FirstCollectStep,
        IF FirstCollectStep = "complain" THEN "keep" ELSE inv.marker)

StartReconcile ==
  Start("reconcile", IF inv.status \in {"paid", "void"} THEN "idle" ELSE "ask", inv.marker)

Fails == faults > 0 /\ faults' = faults - 1

\* How a job ends on an error: the reconciler just ends, the others report.
GivesUp(marker) ==
  IF job.kind = "reconcile" THEN NoJob ELSE [job EXCEPT !.pc = "complain", !.marker = marker]

ComplaintMarker ==
  CASE job.kind = "finalize" -> job.marker
    [] job.kind # "finalize" /\ job.pc = "pay" -> "none"
    [] job.kind # "finalize" /\ job.pc # "pay" -> "keep"

WithMarker(row, marker) == IF marker = "keep" THEN row ELSE [row EXCEPT !.marker = marker]

\* The provider invoice a draft is stamped with is loaded again; one that was
\* deleted is made anew, one that is past draft is taken as finalised.
LoadProviderInvoice ==
  /\ job.pc = "load"
  /\ job' = CASE pinv[job.pid] = "deleted" -> [job EXCEPT !.pc = "create", !.pid = NoProviderInvoice]
              [] pinv[job.pid] = "draft" -> [job EXCEPT !.pc = "open"]
              [] pinv[job.pid] \in Collected -> [job EXCEPT !.pc = "write"]
  /\ UNCHANGED <<inv, pinv, settled, sub, queued, hook, faults>>

\* Fault: the provider's invoice is opened before its id is written down.
CreateThenOpen ==
  /\ job.pc = "create"
  /\ \E p \in ProviderInvoices :
       /\ pinv[p] = "none" /\ \A q \in 1 .. (p - 1) : pinv[q] # "none"
       /\ pinv' = [pinv EXCEPT ![p] = "draft"]
       /\ \/ job' = [job EXCEPT !.pc = "open", !.pid = p] /\ UNCHANGED faults
          \/ Fails /\ job' = GivesUp(ComplaintMarker)
  /\ UNCHANGED <<inv, settled, sub, queued, hook>>

\* The provider makes the next invoice; its answer may be lost.
CreateProviderInvoice ==
  /\ job.pc = "create"
  /\ \E p \in ProviderInvoices :
       /\ pinv[p] = "none" /\ \A q \in 1 .. (p - 1) : pinv[q] # "none"
       /\ pinv' = [pinv EXCEPT ![p] = "draft"]
       /\ \/ job' = [job EXCEPT !.pc = "stamp", !.pid = p] /\ UNCHANGED faults
          \/ Fails /\ job' = GivesUp(ComplaintMarker)
  /\ UNCHANGED <<inv, settled, sub, queued, hook>>

StampProviderId ==
  /\ job.pc = "stamp"
  /\ inv' = [inv EXCEPT !.pid = job.pid]
  /\ job' = [job EXCEPT !.pc = "open"]
  /\ UNCHANGED <<pinv, settled, sub, queued, hook, faults>>

\* The lines are pushed and the provider's draft is opened for payment.
OpenProviderInvoice ==
  /\ job.pc = "open"
  /\ \/ /\ pinv[job.pid] = "draft"
        /\ pinv' = [pinv EXCEPT ![job.pid] = "open"]
        /\ \/ job' = [job EXCEPT !.pc = "write"] /\ UNCHANGED faults
           \/ Fails /\ job' = GivesUp(ComplaintMarker)
     \/ /\ pinv[job.pid] = "deleted"
        /\ job' = GivesUp(ComplaintMarker)
        /\ UNCHANGED <<pinv, faults>>
  /\ UNCHANGED <<inv, settled, sub, queued, hook>>

AskedByCollect(said) ==
  \/ /\ said \in {"paid", "void"}
     /\ job' = [job EXCEPT !.pc = "write", !.to = said,
                           !.marker = IF job.status = "waiting" THEN @ ELSE "keep"]
  \/ /\ said \notin {"paid", "void"} /\ job.status = "waiting"
     /\ \/ job' = [job EXCEPT !.pc = "write", !.to = "failed", !.marker = "none"]
        \/ job' = [job EXCEPT !.pc = "send"]
  \/ /\ said \notin {"paid", "void"} /\ job.status = "unpaid"
     /\ job' = [job EXCEPT !.pc = "pay"]

AskedByReconcile(said) ==
  \/ said = "open" /\ job' = NoJob
  \/ /\ said # "open"
     /\ job' = IF StatusFor(said) = job.status THEN NoJob
               ELSE [job EXCEPT !.pc = IF said = "paid" THEN "settle" ELSE "write",
                                !.to = StatusFor(said)]

AskProvider ==
  /\ job.pc = "ask"
  /\ \/ job.kind = "collect" /\ AskedByCollect(Said(job.pid))
     \/ job.kind = "reconcile" /\ AskedByReconcile(Said(job.pid))
  /\ UNCHANGED <<inv, pinv, settled, sub, queued, hook, faults>>

SendInvoice ==
  /\ job.pc = "send"
  /\ job' = IF pinv[job.pid] = "open" THEN [job EXCEPT !.pc = "write", !.to = "waiting"]
            ELSE GivesUp(ComplaintMarker)
  /\ UNCHANGED <<inv, pinv, settled, sub, queued, hook, faults>>

\* The provider charges the payment method: it is paid, slow, or declined.  An
\* answer that is lost looks like a decline.
CollectPayment ==
  /\ job.pc = "pay"
  /\ \/ /\ pinv[job.pid] \in {"open", "uncollectible"}
        /\ pinv' = [pinv EXCEPT ![job.pid] = "paid"]
        /\ Emit("payment.succeeded", job.pid)
        /\ \/ job' = [job EXCEPT !.pc = "write", !.to = "paid"] /\ UNCHANGED faults
           \/ Fails /\ job' = GivesUp(ComplaintMarker)
     \/ /\ pinv[job.pid] = "open"
        /\ job' = [job EXCEPT !.pc = "write", !.to = "unpaid"]
        /\ UNCHANGED <<pinv, hook, faults>>
     \/ /\ pinv[job.pid] = "open" /\ Emit("payment.failed", job.pid)
        /\ job' = GivesUp(ComplaintMarker)
        /\ UNCHANGED <<pinv, faults>>
     \/ /\ pinv[job.pid] # "open"
        /\ job' = GivesUp(ComplaintMarker)
        /\ UNCHANGED <<pinv, hook, faults>>
  /\ UNCHANGED <<inv, settled, sub, queued>>

ProviderCallFails ==
  /\ job.pc \in {"load", "create", "open", "ask", "send", "pay"}
  /\ Fails
  /\ job' = GivesUp(ComplaintMarker)
  /\ UNCHANGED <<inv, pinv, settled, sub, queued, hook>>

\* Fault: a payment that is still open is settled.
WriteThenSettle ==
  /\ job.pc = "write"
  /\ \/ /\ job.kind = "reconcile" /\ inv.status \notin SucceedsFrom
        /\ job' = NoJob /\ UNCHANGED inv
     \/ /\ job.kind = "reconcile" => inv.status \in SucceedsFrom
        /\ inv' = WithMarker([inv EXCEPT !.status = job.to], job.marker)
        /\ job' = [job EXCEPT !.pc = IF job.kind = "collect" THEN "settle" ELSE "report"]
  /\ UNCHANGED <<pinv, settled, sub, queued, hook, faults>>

\* The finaliser and the collector write the status whatever it is by now; the
\* reconciler only from a status the transition is allowed from.
WriteInvoice ==
  /\ job.pc = "write"
  /\ \/ /\ job.kind = "reconcile" /\ inv.status \notin SucceedsFrom
        /\ job' = NoJob /\ UNCHANGED inv
     \/ /\ job.kind = "reconcile" => inv.status \in SucceedsFrom
        /\ inv' = WithMarker([inv EXCEPT !.status = job.to], job.marker)
        /\ job' = [job EXCEPT !.pc = IF job.kind = "collect" /\ job.to = "paid"
                                     THEN "settle" ELSE "report"]
  /\ UNCHANGED <<pinv, settled, sub, queued, hook, faults>>

\* The receivable is cleared, once: the wallet records the transfer by the
\* invoice's id.
Settle ==
  /\ job.pc = "settle"
  /\ \/ /\ settled' = TRUE /\ UNCHANGED faults
        /\ job' = [job EXCEPT !.pc = IF job.kind = "reconcile" THEN "write" ELSE "report"]
     \/ /\ Fails /\ settled' \in {settled, TRUE}
        /\ job' = GivesUp("keep")
  /\ UNCHANGED <<inv, pinv, sub, queued, hook>>

PaymentFailure == IF AcceptsPayment(sub) THEN "past_due" ELSE sub

Report ==
  /\ job.pc = "report" /\ job.kind \in {"finalize", "collect"}
  /\ sub' = CASE job.kind = "finalize" \/ job.to \in {"paid", "void"} -> AfterInvoice("success")
              [] job.kind = "collect" /\ job.to = "failed" -> PaymentFailure
              [] job.kind = "collect" /\ job.to \in {"unpaid", "waiting"} -> sub
  /\ job' = NoJob
  /\ UNCHANGED <<inv, pinv, settled, queued, hook, faults>>

JobOutcome == IF job.to = "failed" THEN "failure" ELSE "success"

\* The reconciler reports an outcome once; the machine may refuse it.
ReportReconciled ==
  /\ job.pc = "report" /\ job.kind = "reconcile"
  /\ LET accepted == IF job.to = "failed" THEN AcceptsPayment(sub) ELSE AcceptsInvoice(sub) IN
       IF job.marker = JobOutcome \/ ~ accepted
       THEN job' = NoJob /\ UNCHANGED sub
       ELSE /\ job' = [job EXCEPT !.pc = "mark"]
            /\ sub' = IF job.to = "failed" THEN "past_due" ELSE "active"
  /\ UNCHANGED <<inv, pinv, settled, queued, hook, faults>>

MarkReconciled ==
  /\ job.pc = "mark"
  /\ inv' = [inv EXCEPT !.marker = JobOutcome]
  /\ job' = NoJob
  /\ UNCHANGED <<pinv, settled, sub, queued, hook, faults>>

\* The finaliser and the collector tell the subscription that they failed.
Complain ==
  /\ job.pc = "complain"
  /\ inv' = WithMarker(inv, job.marker)
  /\ sub' = AfterInvoice("failure")
  /\ job' = NoJob
  /\ UNCHANGED <<pinv, settled, queued, hook, faults>>

JobDies ==
  /\ job.pc \notin {"idle", "dead"} /\ Fails
  /\ job' = [NoJob EXCEPT !.pc = "dead"]
  /\ UNCHANGED <<inv, pinv, settled, sub, queued, hook>>

LockExpires ==
  /\ job.pc = "dead"
  /\ job' = NoJob
  /\ UNCHANGED <<inv, pinv, settled, sub, queued, hook, faults>>

-----------------------------------------------------------------------------
(* Webhooks.  One handler at a time works on an event.  A delivery of a      *)
(* processed event is a duplicate and does nothing, so a processed event is *)
(* done with.  A delivery of an event a handler is working on is answered   *)
(* as a duplicate too, which acknowledges it.                                *)

\* Fault: an event that finds the invoice in its target status is dropped.
ReceivesNewsOnly(e) ==
  /\ hook[e].type # "none" /\ hook[e].pc = "idle"
  /\ hook' = [hook EXCEPT ![e] =
       IF inv.pid # hook[e].pid \/ inv.status = StatusAfter(hook[e].type) THEN NoEvent
       ELSE [@ EXCEPT !.marker = inv.marker,
                      !.pc = IF hook[e].type \in GoodNews THEN "settle" ELSE "status"]]
  /\ UNCHANGED <<inv, pinv, settled, sub, queued, job, faults>>

\* An event is delivered, for the first time or again, and the invoice is read.
HookReceives(e) ==
  /\ hook[e].type # "none" /\ hook[e].pc = "idle"
  /\ hook' = [hook EXCEPT ![e] =
       IF inv.pid # hook[e].pid THEN NoEvent
       ELSE [@ EXCEPT !.marker = inv.marker,
                      !.pc = IF hook[e].type \in GoodNews THEN "settle" ELSE "status"]]
  /\ UNCHANGED <<inv, pinv, settled, sub, queued, job, faults>>

HookSettles(e) ==
  /\ hook[e].pc = "settle"
  /\ settled' = TRUE
  /\ hook' = [hook EXCEPT ![e].pc = "status"]
  /\ UNCHANGED <<inv, pinv, sub, queued, job, faults>>

\* The status moves only from where the event may move it, and the metadata is
\* written as it was read; what follows happens either way.
HookUpdates(e) ==
  /\ hook[e].pc = "status"
  /\ LET allowed == inv.status \in AllowedFrom(hook[e].type) IN
       /\ inv' = IF allowed THEN [inv EXCEPT !.status = StatusAfter(hook[e].type),
                                             !.marker = hook[e].marker]
                 ELSE inv
       /\ hook' = [hook EXCEPT ![e].pc = "report", ![e].applied = allowed]
  /\ UNCHANGED <<pinv, settled, sub, queued, job, faults>>

\* The outcome recorded on the invoice as it was read is the event's own.
HookSkips(e) ==
  /\ hook[e].pc = "report" /\ hook[e].marker = OutcomeOf(hook[e].type)
  /\ hook' = [hook EXCEPT ![e] = NoEvent]
  /\ UNCHANGED <<inv, pinv, settled, sub, queued, job, faults>>

\* A first payment activates the subscription, which may fail and fail the event.
ActivationFails(e) ==
  /\ hook[e].type \in GoodNews /\ sub = "pending_payment" /\ Fails
  /\ sub' = "pending_activation"

\* The subscription hears of the outcome, under its lock.
HookReports(e) ==
  /\ hook[e].pc = "report" /\ hook[e].marker # OutcomeOf(hook[e].type)
  /\ LockFree /\ AcceptsPayment(sub)
  /\ \/ /\ sub' = IF hook[e].type \in GoodNews THEN "active" ELSE "past_due"
        /\ hook' = [hook EXCEPT ![e].pc = "mark"]
        /\ UNCHANGED faults
     \/ ActivationFails(e) /\ hook' = [hook EXCEPT ![e].pc = "idle"]
  /\ UNCHANGED <<inv, pinv, settled, queued, job>>

Refused(e) ==
  /\ hook[e].pc = "report" /\ hook[e].marker # OutcomeOf(hook[e].type)
  /\ ~ LockFree \/ ~ AcceptsPayment(sub)
  /\ UNCHANGED <<inv, pinv, settled, sub, queued, job, faults>>

HookIsRefused(e) == Refused(e) /\ hook' = [hook EXCEPT ![e].pc = "idle"]

\* The marker is written, or its write fails and is not missed.
HookMarks(e) ==
  /\ hook[e].pc = "mark"
  /\ \/ inv' = [inv EXCEPT !.marker = OutcomeOf(hook[e].type)] /\ UNCHANGED faults
     \/ Fails /\ UNCHANGED inv
  /\ hook' = [hook EXCEPT ![e] = NoEvent]
  /\ UNCHANGED <<pinv, settled, sub, queued, job>>

\* A call of the handler fails, before or after it took effect, or the handler
\* dies.
Interrupted(e) ==
  /\ hook[e].pc # "idle" /\ Fails
  /\ settled' \in IF hook[e].pc = "settle" THEN {settled, TRUE} ELSE {settled}
  /\ inv' \in IF hook[e].pc = "mark" THEN {inv, [inv EXCEPT !.marker = OutcomeOf(hook[e].type)]}
             ELSE {inv}
  /\ UNCHANGED <<pinv, sub, queued, job>>

\* The event is not processed and the provider delivers it again.
HookStops(e) == Interrupted(e) /\ hook' = [hook EXCEPT ![e].pc = "idle"]

\* The event was delivered again while the handler worked, and that delivery was
\* acknowledged as a duplicate; then the handler fails, and nobody delivers the
\* event once more.
HookForgotten(e) ==
  /\ \/ Interrupted(e)
     \/ Refused(e)
     \/ /\ hook[e].pc = "report" /\ LockFree /\ ActivationFails(e)
        /\ UNCHANGED <<inv, pinv, settled, queued, job>>
  /\ hook' = [hook EXCEPT ![e] = NoEvent]
  /\ unheard' = (unheard \/ hook[e].type = "payment.succeeded")

\* The activation sweep activates a subscription whose activation failed.
ActivationRetried ==
  /\ sub = "pending_activation" /\ LockFree
  /\ sub' = "active"
  /\ UNCHANGED <<inv, pinv, settled, queued, job, hook, faults>>

-----------------------------------------------------------------------------
Provider ==
  \E p \in ProviderInvoices :
    CustomerPays(p) \/ PaymentFails(p) \/ PaymentReversed(p) \/ OperatorEdits(p)

JobStep ==
  \/ LoadProviderInvoice \/ CreateProviderInvoice \/ StampProviderId \/ OpenProviderInvoice
  \/ AskProvider \/ SendInvoice \/ CollectPayment \/ WriteInvoice \/ Settle
  \/ Report \/ ReportReconciled \/ MarkReconciled \/ Complain \/ LockExpires

HookStep(e) ==
  HookReceives(e) \/ HookSettles(e) \/ HookUpdates(e) \/ HookSkips(e) \/ HookReports(e)
  \/ HookIsRefused(e) \/ HookMarks(e)

Move ==
  \/ Provider \/ JobStep \/ ProviderCallFails \/ JobDies
  \/ StartFinalize \/ StartCollect \/ StartReconcile \/ ActivationRetried
  \/ \E k \in Kinds : Schedule(k)
  \/ \E e \in Events : HookStep(e) \/ HookStops(e)

Next ==
  \/ Move /\ UNCHANGED unheard
  \/ \E e \in Events : HookForgotten(e)

Spec == Init /\ [][Next]_vars

\* A job that started goes on, the crons of the collector and the reconciler run
\* again and their jobs find the lock free now and then, and the provider delivers
\* an event until it is acknowledged.  Nothing is asked of the customer, the
\* finaliser or the report to the subscription.
Recurs(k) == WF_state(Schedule(k))
FairSpec ==
  /\ Spec
  /\ WF_state(JobStep)
  /\ Recurs("collect") /\ SF_state(StartCollect)
  /\ Recurs("reconcile") /\ SF_state(StartReconcile)
  /\ \A e \in Events : WF_state(HookStep(e))

-----------------------------------------------------------------------------
(* Properties.                                                             *)

Paid(p) == pinv[p] \in {"paid", "disputed"}

\* Money comes before the books: an invoice that is paid, or whose receivable
\* is cleared, was paid at the provider (or had nothing to collect).
BookedIsPaid ==
  settled \/ (inv.status = "paid" /\ inv.due = "collectable")
     => \E p \in ProviderInvoices : Paid(p)

\* The customer can be asked for the money once: whatever fails or is retried
\* while the provider's invoice is made, at most one leaves draft, and it is the
\* one the invoice is stamped with.
OneCollectable ==
  \A p \in ProviderInvoices : pinv[p] \in Collected => inv.pid = p

\* A paid invoice whose receivable is still open has someone who will clear it:
\* the collector about to, or a payment event not processed yet - unless the event
\* was acknowledged to a second delivery and its handler failed.
PaidIsSettled ==
  inv.status = "paid" /\ inv.due = "collectable" /\ ~ settled /\ ~ unheard
     => \/ job.kind = "collect" /\ job.pc = "settle"
        \/ \E e \in Events : hook[e].type = "payment.succeeded"

\* An event is about the invoice that is stamped, so no payment is ignored.
EventsFindTheirInvoice ==
  \A e \in Events : hook[e].type # "none" => hook[e].pid = inv.pid

\* A payment failure that comes late, when the invoice is paid or void and refuses
\* it, leaves the subscription as it is.
LateFailureHasNoEffect ==
  [][\A e \in Events :
       /\ hook[e].type = "payment.failed" /\ hook[e].pc = "report" /\ ~ hook[e].applied
       /\ hook'[e] # hook[e]
       => sub' = sub]_vars

\* A payment takes effect: where the provider reports no failure and no reversal,
\* in the end the receivable is cleared and the invoice is paid, and both stay so.
\* Two exceptions, as no job looks at a failed invoice again but to complain about
\* it: the customer pays just when the collector finds the invoice past due, and the
\* collector writes failed over paid; and the event of a payment that came for a
\* failed invoice is forgotten.  A forgotten event alone is made good by the jobs.
WrittenOff ==
  inv.status = "failed" /\ (unheard \/ (settled /\ inv.method = "send_invoice"))
PaymentTakesEffect ==
  [](\A e \in Events : hook[e].type \notin BadNews)
    => ((\E p \in ProviderInvoices : Paid(p))
          ~> []((settled /\ inv.status = "paid") \/ WrittenOff))
=============================================================================
