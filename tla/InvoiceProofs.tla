---------------------------- MODULE InvoiceProofs ----------------------------
(***************************************************************************)
(* Proofs about module InvoicePayment, for any number of notifications,    *)
(* provider invoices and faults.                                           *)
(*                                                                         *)
(* OneCollectable is not inductive: a step that opens the provider's       *)
(* invoice keeps it only because the job still holds the invoice that is   *)
(* stamped, and because a job makes another one only where the last one    *)
(* was deleted as a draft.  The books follow the money for a second        *)
(* reason: a job on its way to write paid, and an event of good news, keep *)
(* what they know, because a paid invoice stays paid at the provider.      *)
(***************************************************************************)
EXTENDS InvoicePayment, TLAPS

SomePaid == \E p \in ProviderInvoices : Paid(p)

\* The provider invoice the row is stamped with was made.
StampedExists == inv.pid # NoProviderInvoice => pinv[inv.pid] # "none"

\* An invoice that waits for its money is stamped with one that left draft.
OpenAtProvider == inv.pid # NoProviderInvoice /\ pinv[inv.pid] \in Collected
UnpaidIsOpen == inv.status \in {"unpaid", "waiting", "failed"} => OpenAtProvider

\* An invoice is a draft once.
NoSecondDraft == queued \cap {"collect", "reconcile"} # {} => inv.status # "draft"

\* What the job relies on at each of its steps.
JobKnowsInvoice ==
  /\ job.pc \in {"load", "open", "ask", "send", "pay"}
       => job.pid = inv.pid /\ inv.pid # NoProviderInvoice
  /\ job.pc \in {"ask", "send", "pay"} => OpenAtProvider
  /\ job.pc \in {"create", "stamp"}
       => inv.pid = NoProviderInvoice \/ pinv[inv.pid] = "deleted"
  /\ job.pc = "stamp" => job.pid # NoProviderInvoice /\ pinv[job.pid] # "none"
  /\ job.pc \in {"load", "create", "stamp", "open"} => job.to = "unpaid"
  /\ job.pc = "write" => job.to \in {"paid", "void"} \/ OpenAtProvider
  /\ job.pc \in {"write", "settle", "report"} => job.to # "draft"

\* The job settles what was paid, and writes paid what was, or had nothing due.
JobKnowsPayment ==
  /\ job.pc = "settle" => SomePaid
  /\ job.pc = "write" /\ job.to = "paid" =>
       SomePaid \/ (job.kind = "finalize" /\ inv.due # "collectable")

\* An event is about an invoice that left draft, good news about one that is paid.
EventsAreTrue ==
  \A e \in Events :
    /\ hook[e].pc # "idle" => hook[e].type # "none"
    /\ hook[e].pc = "settle" => hook[e].type \in GoodNews
    /\ hook[e].type # "none" =>
         hook[e].pid # NoProviderInvoice /\ pinv[hook[e].pid] \in Collected
    /\ hook[e].type \in GoodNews => Paid(hook[e].pid)

Safe ==
  /\ StampedExists /\ UnpaidIsOpen /\ NoSecondDraft /\ OneCollectable
  /\ JobKnowsInvoice /\ JobKnowsPayment /\ EventsAreTrue /\ BookedIsPaid

IInv == StateOK /\ Safe

\* Good news past its first step is settled, and a payment that is not settled
\* is announced, unless an event was forgotten.
Announced ==
  /\ \A e \in Events :
       hook[e].type \in GoodNews /\ hook[e].pc \in {"status", "report", "mark"} => settled
  /\ SomePaid /\ ~ settled => unheard \/ \E e \in Events : hook[e].type = "payment.succeeded"

USE ParametersAssumption DEF ProviderInvoices, NoProviderInvoice

-----------------------------------------------------------------------------
(* Types.                                                                  *)

JobMarkers == Outcomes \cup {"none", "keep"}
ProviderStatuses == Collected \cup {"none", "draft", "deleted"}

LEMMA NoJobType == NoJob \in Job
BY DEF NoJob, Job, Kinds, Statuses

LEMMA NoEventType == NoEvent \in Hook
BY DEF NoEvent, Hook, GoodNews, BadNews, Outcomes

\* A job that gives up is quiet: it holds nothing it relies on.
LEMMA GivesUpType ==
  ASSUME job \in Job, NEW marker \in JobMarkers
  PROVE  GivesUp(marker) \in Job /\ GivesUp(marker).pc \in {"idle", "complain"}
BY NoJobType DEF GivesUp, Job, NoJob, JobMarkers

LEMMA ComplaintType ==
  ASSUME job \in Job
  PROVE  ComplaintMarker \in JobMarkers
BY DEF ComplaintMarker, Job, JobMarkers

LEMMA JobGivesUp ==
  ASSUME StateOK
  PROVE  /\ GivesUp(ComplaintMarker) \in Job
         /\ GivesUp(ComplaintMarker).pc \in {"idle", "complain"}
BY GivesUpType, ComplaintType DEF StateOK

LEMMA EmitType ==
  ASSUME StateOK, NEW type \in GoodNews \cup BadNews, NEW p \in ProviderInvoices, Emit(type, p)
  PROVE  hook' \in [Events -> Hook]
<1>1. [NoEvent EXCEPT !.type = type, !.pid = p] \in Hook
  BY DEF NoEvent, Hook, GoodNews, BadNews, Outcomes
<1>2. CASE ~ Notifies
  BY <1>2 DEF Emit, StateOK
<1>3. CASE Notifies
  BY <1>1, <1>3 DEF Emit, StateOK
<1>. QED
  BY <1>2, <1>3

LEMMA ProviderType ==
  ASSUME StateOK, NEW p \in ProviderInvoices, NEW s \in ProviderStatuses
  PROVE  [pinv EXCEPT ![p] = s] \in [ProviderInvoices -> ProviderStatuses]
BY DEF StateOK, ProviderStatuses

LEMMA PaymentEventTypes ==
  ASSUME StateOK, NEW p \in ProviderInvoices,
         CustomerPays(p) \/ PaymentFails(p) \/ PaymentReversed(p) \/ OperatorEdits(p)
  PROVE  StateOK'
<1>1. CASE CustomerPays(p)
  <2>1. hook' \in [Events -> Hook]
    BY <1>1, EmitType DEF CustomerPays, GoodNews
  <2>2. pinv' \in [ProviderInvoices -> ProviderStatuses]
    BY <1>1, ProviderType DEF CustomerPays, ProviderStatuses, Collected
  <2>. QED
    BY <1>1, <2>1, <2>2 DEF StateOK, CustomerPays, ProviderStatuses
<1>2. CASE PaymentFails(p)
  <2>1. hook' \in [Events -> Hook]
    BY <1>2, EmitType DEF PaymentFails, BadNews
  <2>. QED
    BY <1>2, <2>1 DEF StateOK, PaymentFails
<1>3. CASE PaymentReversed(p)
  <2>1. hook' \in [Events -> Hook]
    BY <1>3, EmitType DEF PaymentReversed, GoodNews, BadNews
  <2>2. pinv' \in [ProviderInvoices -> ProviderStatuses]
    BY <1>3, ProviderType DEF PaymentReversed, ProviderStatuses, Collected
  <2>. QED
    BY <1>3, <2>1, <2>2 DEF StateOK, PaymentReversed, ProviderStatuses
<1>4. CASE OperatorEdits(p)
  <2>1. pinv' \in [ProviderInvoices -> ProviderStatuses]
    BY <1>4, ProviderType DEF OperatorEdits, ProviderStatuses, Collected
  <2>. QED
    BY <1>4, <2>1 DEF StateOK, OperatorEdits, ProviderStatuses
<1>. QED
  BY <1>1, <1>2, <1>3, <1>4

\* A job at "ask" hears one of four answers.
LEMMA AnswerType ==
  ASSUME IInv, job.pc = "ask"
  PROVE  Said(job.pid) \in {"open", "paid", "void", "uncollectible"}
BY DEF IInv, Safe, JobKnowsInvoice, OpenAtProvider, Said, Collected

LEMMA AskProviderType ==
  ASSUME IInv, AskProvider
  PROVE  StateOK'
<1>1. job \in Job /\ job.pc = "ask"
  BY DEF IInv, StateOK, AskProvider
<1>2. CASE AskedByCollect(Said(job.pid))
  <2>1. job' \in Job
    BY <1>1, <1>2 DEF AskedByCollect, Job, Statuses, Outcomes
  <2>. QED
    BY <2>1 DEF IInv, StateOK, AskProvider
<1>3. CASE AskedByReconcile(Said(job.pid))
  <2>1. CASE Said(job.pid) = "open"
    <3>1. job' \in Job
      BY <1>3, <2>1, NoJobType DEF AskedByReconcile
    <3>. QED
      BY <3>1 DEF IInv, StateOK, AskProvider
  <2>2. CASE Said(job.pid) # "open"
    <3>1. StatusFor(Said(job.pid)) \in Statuses
      BY <1>1, <2>2, AnswerType DEF StatusFor, Statuses
    <3>2. job' \in Job
      BY <1>1, <1>3, <2>2, <3>1, NoJobType DEF AskedByReconcile, Job
    <3>. QED
      BY <3>2 DEF IInv, StateOK, AskProvider
  <2>. QED
    BY <2>1, <2>2
<1>. QED
  BY <1>2, <1>3 DEF AskProvider

LEMMA SendInvoiceType ==
  ASSUME StateOK, SendInvoice
  PROVE  StateOK'
<1>1. [job EXCEPT !.pc = "write", !.to = "waiting"] \in Job
  BY DEF StateOK, Job, Statuses
<1>2. job' \in Job
  BY <1>1, JobGivesUp DEF SendInvoice
<1>. QED
  BY <1>2 DEF StateOK, SendInvoice

LEMMA CollectPaymentType ==
  ASSUME IInv, CollectPayment
  PROVE  StateOK'
<1>1. StateOK /\ job.pid \in ProviderInvoices
  BY DEF IInv, Safe, StateOK, JobKnowsInvoice, CollectPayment, Job
<1>2. \A s \in {"paid", "unpaid"} : [job EXCEPT !.pc = "write", !.to = s] \in Job
  BY <1>1 DEF StateOK, Job, Statuses
<1>3. job' \in Job
  BY <1>1, <1>2, JobGivesUp DEF CollectPayment
<1>4. hook' \in [Events -> Hook]
  BY <1>1, EmitType DEF CollectPayment, StateOK, GoodNews, BadNews
<1>5. pinv' \in [ProviderInvoices -> ProviderStatuses]
  BY <1>1, ProviderType DEF CollectPayment, StateOK, ProviderStatuses, Collected
<1>6. faults' \in 0 .. MaxFaults
  BY <1>1 DEF CollectPayment, StateOK, Fails
<1>. QED
  BY <1>1, <1>3, <1>4, <1>5, <1>6 DEF StateOK, CollectPayment, ProviderStatuses

LEMMA ProviderCallFailsType ==
  ASSUME StateOK, ProviderCallFails
  PROVE  StateOK'
<1>1. job' \in Job
  BY JobGivesUp DEF ProviderCallFails
<1>. QED
  BY <1>1 DEF StateOK, ProviderCallFails, Fails

LEMMA WriteInvoiceType ==
  ASSUME StateOK, WriteInvoice
  PROVE  StateOK'
<1>1. job' \in Job
  BY NoJobType DEF WriteInvoice, StateOK, Job
<1>2. inv' \in Invoice
  BY DEF WriteInvoice, StateOK, WithMarker, Invoice, Job
<1>. QED
  BY <1>1, <1>2 DEF StateOK, WriteInvoice

LEMMA SettleType ==
  ASSUME StateOK, Settle
  PROVE  StateOK'
<1>1. \A s \in {"write", "report"} : [job EXCEPT !.pc = s] \in Job
  BY DEF Job, StateOK
<1>2. job' \in Job
  BY <1>1, GivesUpType DEF Settle, JobMarkers, StateOK
<1>3. settled' \in BOOLEAN
  BY Zenon DEF Settle, StateOK
<1>4. UNCHANGED faults \/ Fails
  BY Zenon DEF Settle
<1>5. faults' \in 0 .. MaxFaults
  BY <1>4 DEF StateOK, Fails
<1>. QED
  BY <1>2, <1>3, <1>5 DEF StateOK, Settle

LEMMA HookReceivesType ==
  ASSUME StateOK, NEW e \in Events, HookReceives(e)
  PROVE  StateOK'
<1>1. hook[e] \in Hook /\ inv.marker \in Outcomes \cup {"none"}
  BY DEF StateOK, Invoice
<1>2. \A s \in {"settle", "status"} : [hook[e] EXCEPT !.marker = inv.marker, !.pc = s] \in Hook
  BY <1>1 DEF Hook
<1>3. hook' \in [Events -> Hook]
  BY <1>2, NoEventType DEF HookReceives, StateOK
<1>. QED
  BY <1>3 DEF StateOK, HookReceives

LEMMA HookUpdatesType ==
  ASSUME IInv, NEW e \in Events, HookUpdates(e)
  PROVE  StateOK'
<1>1. hook[e] \in Hook /\ hook[e].type \in GoodNews \cup BadNews
  BY DEF HookUpdates, IInv, Safe, StateOK, Hook, EventsAreTrue
<1>2. StatusAfter(hook[e].type) \in Statuses
  BY <1>1 DEF StatusAfter, Statuses, GoodNews, BadNews
<1>3. inv' \in Invoice
  BY <1>1, <1>2 DEF IInv, StateOK, HookUpdates, Hook, Invoice
<1>4. hook' \in [Events -> Hook]
  <2>. DEFINE allowed == inv.status \in AllowedFrom(hook[e].type)
  <2>1. [hook[e] EXCEPT !.pc = "report", !.applied = allowed] \in Hook
    <3>1. allowed \in BOOLEAN
      OBVIOUS
    <3>. HIDE DEF allowed
    <3>. QED
      BY <1>1, <3>1 DEF Hook
  <2>2. hook' = [hook EXCEPT ![e] = [hook[e] EXCEPT !.pc = "report", !.applied = allowed]]
    BY DEF HookUpdates, IInv, StateOK
  <2>. HIDE DEF allowed
  <2>. QED
    BY <2>1, <2>2 DEF IInv, StateOK
<1>. QED
  BY <1>3, <1>4 DEF IInv, StateOK, HookUpdates

\* What an interrupted handler leaves of everything but its event.
LEMMA InterruptedType ==
  ASSUME StateOK, NEW e \in Events, Interrupted(e)
  PROVE  /\ inv' \in Invoice
         /\ settled' \in BOOLEAN
         /\ faults' \in 0 .. MaxFaults
<1>0. [inv EXCEPT !.marker = OutcomeOf(hook[e].type)] \in Invoice
  BY DEF StateOK, Invoice, OutcomeOf, Outcomes
<1>1. inv' \in Invoice
  BY <1>0 DEF StateOK, Interrupted
<1>2. settled' \in BOOLEAN
  BY Zenon DEF StateOK, Interrupted
<1>3. faults' \in 0 .. MaxFaults
  BY DEF StateOK, Interrupted, Fails
<1>. QED
  BY <1>1, <1>2, <1>3

LEMMA HookStopsType ==
  ASSUME StateOK, NEW e \in Events, HookStops(e)
  PROVE  StateOK'
<1>1. Interrupted(e) /\ hook' = [hook EXCEPT ![e].pc = "idle"]
  BY DEF HookStops
<1>2. hook' \in [Events -> Hook]
  <2>1. [hook[e] EXCEPT !.pc = "idle"] \in Hook
    BY DEF StateOK, Hook
  <2>. QED
    BY <1>1, <2>1 DEF StateOK
<1>3. UNCHANGED <<pinv, sub, queued, job>>
  BY <1>1 DEF Interrupted
<1>. QED
  BY <1>1, <1>2, <1>3, InterruptedType DEF StateOK

LEMMA HookForgottenType ==
  ASSUME StateOK, NEW e \in Events, HookForgotten(e)
  PROVE  StateOK'
<1>1. hook' \in [Events -> Hook]
  BY NoEventType DEF StateOK, HookForgotten
<1>2. CASE Interrupted(e)
  BY <1>1, <1>2, InterruptedType DEF StateOK, Interrupted
<1>3. CASE Refused(e)
  BY <1>1, <1>3 DEF StateOK, Refused
<1>4. CASE ActivationFails(e) /\ UNCHANGED <<inv, pinv, settled, queued, job>>
  BY <1>1, <1>4 DEF StateOK, ActivationFails, Fails
<1>. QED
  BY <1>2, <1>3, <1>4 DEF HookForgotten

LEMMA HookSettlesType ==
  ASSUME StateOK, NEW e \in Events, HookSettles(e)
  PROVE  StateOK'
<1>1. hook' \in [Events -> Hook]
  BY DEF StateOK, HookSettles, Hook
<1>. QED
  BY <1>1 DEF StateOK, HookSettles

-----------------------------------------------------------------------------
(* What the invariant says beyond types.                                   *)

\* A quiet job relies on nothing.
LEMMA QuietJob ==
  ASSUME job'.pc \in {"idle", "complain", "dead", "mark"}
  PROVE  JobKnowsInvoice' /\ JobKnowsPayment'
BY DEF JobKnowsInvoice, JobKnowsPayment

\* A new event is as true as the invoice it is about.
LEMMA EmittedIsTrue ==
  ASSUME StateOK, EventsAreTrue, NEW type \in GoodNews \cup BadNews, NEW p \in ProviderInvoices,
         Emit(type, p), pinv'[p] \in Collected, type \in GoodNews => pinv'[p] \in {"paid", "disputed"},
         \A q \in ProviderInvoices :
           (pinv[q] \in Collected => pinv'[q] \in Collected) /\ (Paid(q) => pinv'[q] \in {"paid", "disputed"})
  PROVE  EventsAreTrue'
<1>1. SUFFICES ASSUME NEW e \in Events
               PROVE  /\ hook'[e].pc # "idle" => hook'[e].type # "none"
                      /\ hook'[e].pc = "settle" => hook'[e].type \in GoodNews
                      /\ hook'[e].type # "none" =>
                           /\ hook'[e].pid # NoProviderInvoice
                           /\ pinv'[hook'[e].pid] \in Collected
                      /\ hook'[e].type \in GoodNews
                           => pinv'[hook'[e].pid] \in {"paid", "disputed"}
  BY DEF EventsAreTrue, Paid
<1>2. CASE hook'[e] = hook[e]
  <2>1. hook[e] \in Hook /\ "none" \notin GoodNews
    BY DEF StateOK, GoodNews
  <2>2. hook[e].type # "none" => hook[e].pid \in ProviderInvoices
    BY <2>1 DEF EventsAreTrue, Hook
  <2>. QED
    BY <1>2, <2>1, <2>2 DEF EventsAreTrue, Paid
<1>3. CASE hook'[e] # hook[e]
  <2>1. hook'[e] = [NoEvent EXCEPT !.type = type, !.pid = p]
    BY <1>3 DEF Emit, StateOK
  <2>2. hook'[e].pc = "idle" /\ hook'[e].type = type /\ hook'[e].pid = p
    BY <2>1 DEF NoEvent
  <2>. QED
    BY <2>2
<1>. QED
  BY <1>2, <1>3

\* The provider moves an invoice between statuses past draft, or deletes a draft.
LEMMA ProviderSafe ==
  ASSUME IInv, NEW p \in ProviderInvoices,
         CustomerPays(p) \/ PaymentFails(p) \/ PaymentReversed(p) \/ OperatorEdits(p)
  PROVE  Safe'
<1>. USE DEF IInv, Safe
<1>1. /\ UNCHANGED <<inv, settled, sub, queued, job, faults>>
      /\ pinv' \in [ProviderInvoices -> ProviderStatuses]
      /\ \A q \in ProviderInvoices :
           /\ pinv[q] \in Collected <=> pinv'[q] \in Collected
           /\ Paid(q) => Paid(q)'
           /\ pinv[q] = "none" <=> pinv'[q] = "none"
           /\ pinv[q] = "deleted" => pinv'[q] = "deleted"
  BY DEF StateOK, ProviderStatuses, CustomerPays, PaymentFails, PaymentReversed, OperatorEdits,
         Paid, Collected
<1>2. EventsAreTrue'
  <2>1. CASE CustomerPays(p)
    BY <1>1, <2>1, EmittedIsTrue DEF CustomerPays, StateOK, Paid, Collected, GoodNews
  <2>2. CASE PaymentFails(p)
    BY <1>1, <2>2, EmittedIsTrue DEF PaymentFails, StateOK, Paid, Collected, GoodNews, BadNews
  <2>3. CASE PaymentReversed(p)
    BY <1>1, <2>3, EmittedIsTrue
       DEF PaymentReversed, StateOK, Paid, Collected, GoodNews, BadNews
  <2>4. CASE OperatorEdits(p)
    <3>1. hook' = hook /\ \A e \in Events : hook[e] \in Hook
      BY <2>4 DEF OperatorEdits, StateOK
    <3>. QED
      BY <1>1, <3>1 DEF EventsAreTrue, Hook, Paid, GoodNews
  <2>. QED
    BY <2>1, <2>2, <2>3, <2>4
<1>3. inv.pid \in {NoProviderInvoice} \cup ProviderInvoices
      /\ job.pid \in {NoProviderInvoice} \cup ProviderInvoices
  BY DEF StateOK, Invoice, Job
<1>4. SomePaid => SomePaid'
  BY <1>1 DEF SomePaid
<1>5. StampedExists' /\ UnpaidIsOpen' /\ NoSecondDraft' /\ OneCollectable'
  BY <1>1, <1>3 DEF StampedExists, UnpaidIsOpen, OpenAtProvider, NoSecondDraft, OneCollectable
<1>6. JobKnowsInvoice'
  BY <1>1, <1>3 DEF JobKnowsInvoice, OpenAtProvider
<1>7. JobKnowsPayment' /\ BookedIsPaid'
  BY <1>1, <1>4 DEF JobKnowsPayment, BookedIsPaid, SomePaid
<1>. QED
  BY <1>2, <1>5, <1>6, <1>7

\* A step of a job that leaves rows, provider and events alone, as most calls do.
LEMMA OnlyJobMoves ==
  ASSUME IInv, UNCHANGED <<inv, pinv, settled, queued, hook>>, JobKnowsInvoice', JobKnowsPayment'
  PROVE  Safe'
BY DEF IInv, Safe, StampedExists, UnpaidIsOpen, OpenAtProvider, NoSecondDraft, OneCollectable,
       EventsAreTrue, BookedIsPaid, Paid

LEMMA LoadSafe ==
  ASSUME IInv, LoadProviderInvoice
  PROVE  Safe'
<1>1. /\ job.pid = inv.pid /\ inv.pid \in ProviderInvoices
      /\ pinv[inv.pid] \in Collected \cup {"draft", "deleted"}
      /\ job \in Job /\ job.to = "unpaid" /\ job.pc = "load"
  BY DEF LoadProviderInvoice, IInv, Safe, StateOK, Invoice, StampedExists, JobKnowsInvoice
<1>2. UNCHANGED <<inv, pinv, settled, queued, hook>>
  BY DEF LoadProviderInvoice
<1>3. JobKnowsInvoice' /\ JobKnowsPayment'
  <2>1. CASE pinv[inv.pid] = "deleted"
    <3>1. job' = [job EXCEPT !.pc = "create", !.pid = NoProviderInvoice]
      BY <1>1, <2>1 DEF LoadProviderInvoice, Collected
    <3>. QED
      BY <1>1, <1>2, <2>1, <3>1 DEF JobKnowsInvoice, JobKnowsPayment, Job
  <2>2. CASE pinv[inv.pid] = "draft"
    <3>1. job' = [job EXCEPT !.pc = "open"]
      BY <1>1, <2>2 DEF LoadProviderInvoice, Collected
    <3>. QED
      BY <1>1, <1>2, <2>2, <3>1 DEF JobKnowsInvoice, JobKnowsPayment, Job
  <2>3. CASE pinv[inv.pid] \in Collected
    <3>1. job' = [job EXCEPT !.pc = "write"]
      BY <1>1, <2>3 DEF LoadProviderInvoice, Collected
    <3>. QED
      BY <1>1, <1>2, <2>3, <3>1 DEF JobKnowsInvoice, JobKnowsPayment, OpenAtProvider, Job
  <2>. QED
    BY <1>1, <2>1, <2>2, <2>3
<1>. QED
  BY <1>2, <1>3, OnlyJobMoves

LEMMA CreateSafe ==
  ASSUME IInv, CreateProviderInvoice
  PROVE  Safe'
<1>1. /\ job \in Job /\ job.pc = "create" /\ job.to = "unpaid"
      /\ inv.pid = NoProviderInvoice \/ pinv[inv.pid] = "deleted"
      /\ UNCHANGED <<inv, settled, sub, queued, hook>>
      /\ StateOK
  BY DEF CreateProviderInvoice, IInv, Safe, StateOK, JobKnowsInvoice
<1>2. PICK p \in ProviderInvoices :
        /\ pinv[p] = "none" /\ pinv' = [pinv EXCEPT ![p] = "draft"]
        /\ job' = [job EXCEPT !.pc = "stamp", !.pid = p] \/ job' = GivesUp(ComplaintMarker)
  BY DEF CreateProviderInvoice
<1>3. /\ \A q \in ProviderInvoices : q # p => pinv'[q] = pinv[q]
      /\ pinv'[p] = "draft"
  BY <1>1, <1>2 DEF StateOK
<1>4. inv.pid \in {NoProviderInvoice} \cup ProviderInvoices
  BY <1>1 DEF StateOK, Invoice
<1>5. JobKnowsInvoice' /\ JobKnowsPayment'
  <2>1. CASE job' = [job EXCEPT !.pc = "stamp", !.pid = p]
    BY <1>1, <1>2, <1>3, <1>4, <2>1 DEF JobKnowsInvoice, JobKnowsPayment, Job
  <2>2. CASE job' = GivesUp(ComplaintMarker)
    BY <1>1, <2>2, JobGivesUp, QuietJob
  <2>. QED
    BY <1>2, <2>1, <2>2
<1>6. StampedExists' /\ UnpaidIsOpen' /\ NoSecondDraft' /\ OneCollectable'
  BY <1>1, <1>2, <1>3, <1>4 DEF IInv, Safe, StampedExists, UnpaidIsOpen, OpenAtProvider,
     NoSecondDraft, OneCollectable, Collected
<1>7. EventsAreTrue'
  <2>1. \A e \in Events : hook[e].type # "none" => hook[e].pid \in ProviderInvoices \ {p}
    BY <1>1, <1>2 DEF IInv, Safe, EventsAreTrue, StateOK, Hook, Collected
  <2>. QED
    BY <1>1, <1>3, <2>1 DEF IInv, Safe, EventsAreTrue, Paid, GoodNews
<1>8. BookedIsPaid'
  <2>1. \A q \in ProviderInvoices : Paid(q) => Paid(q)'
    BY <1>2, <1>3 DEF Paid
  <2>. QED
    BY <1>1, <2>1 DEF IInv, Safe, BookedIsPaid
<1>. QED
  BY <1>5, <1>6, <1>7, <1>8 DEF Safe

LEMMA StampSafe ==
  ASSUME IInv, StampProviderId
  PROVE  Safe'
<1>1. /\ job \in Job /\ job.pc = "stamp" /\ job.to = "unpaid"
      /\ job.pid \in ProviderInvoices /\ pinv[job.pid] # "none"
      /\ inv.pid = NoProviderInvoice \/ pinv[inv.pid] = "deleted"
      /\ job' = [job EXCEPT !.pc = "open"] /\ inv' = [inv EXCEPT !.pid = job.pid]
      /\ UNCHANGED <<pinv, settled, sub, queued, hook, faults>>
      /\ StateOK
  BY DEF StampProviderId, IInv, Safe, StateOK, JobKnowsInvoice, Job
<1>2. \A q \in ProviderInvoices : pinv[q] \notin Collected
  BY <1>1 DEF IInv, Safe, OneCollectable, Collected
<1>3. \A e \in Events : hook[e].type = "none"
  BY <1>1, <1>2 DEF IInv, Safe, EventsAreTrue, StateOK, Hook
<1>4. inv'.pid = job.pid /\ inv'.status = inv.status /\ inv'.due = inv.due
  BY <1>1 DEF StateOK, Invoice
<1>5. inv.status \notin {"unpaid", "waiting", "failed"}
  BY <1>1, <1>2 DEF IInv, Safe, UnpaidIsOpen, OpenAtProvider, StateOK, Invoice
<1>6. JobKnowsInvoice' /\ JobKnowsPayment'
  BY <1>1, <1>4 DEF JobKnowsInvoice, JobKnowsPayment, Job
<1>7. StampedExists' /\ UnpaidIsOpen' /\ NoSecondDraft' /\ OneCollectable' /\ EventsAreTrue'
  BY <1>1, <1>2, <1>4, <1>5 DEF IInv, Safe, StampedExists, UnpaidIsOpen, NoSecondDraft,
     OneCollectable, EventsAreTrue, Paid
<1>8. BookedIsPaid'
  BY <1>1, <1>4 DEF IInv, Safe, BookedIsPaid, Paid
<1>. QED
  BY <1>6, <1>7, <1>8 DEF Safe

LEMMA OpenSafe ==
  ASSUME IInv, OpenProviderInvoice
  PROVE  Safe'
<1>1. /\ job \in Job /\ job.pc = "open" /\ job.to = "unpaid"
      /\ job.pid = inv.pid /\ inv.pid \in ProviderInvoices
      /\ UNCHANGED <<inv, settled, sub, queued, hook>>
      /\ StateOK
  BY DEF OpenProviderInvoice, IInv, Safe, StateOK, JobKnowsInvoice, Job, Invoice
<1>2. CASE pinv[job.pid] = "deleted"
  <2>1. UNCHANGED pinv /\ job' = GivesUp(ComplaintMarker)
    BY <1>2 DEF OpenProviderInvoice
  <2>. QED
    BY <1>1, <2>1, JobGivesUp, QuietJob, OnlyJobMoves
<1>3. CASE pinv[job.pid] = "draft"
  <2>1. /\ pinv' = [pinv EXCEPT ![inv.pid] = "open"]
        /\ job' = [job EXCEPT !.pc = "write"] \/ job' = GivesUp(ComplaintMarker)
    BY <1>1, <1>3 DEF OpenProviderInvoice
  <2>2. /\ pinv'[inv.pid] = "open"
        /\ \A q \in ProviderInvoices : q # inv.pid => pinv'[q] = pinv[q]
    BY <1>1, <2>1 DEF StateOK
  <2>3. JobKnowsInvoice' /\ JobKnowsPayment'
    <3>1. CASE job' = [job EXCEPT !.pc = "write"]
      BY <1>1, <2>2, <3>1 DEF JobKnowsInvoice, JobKnowsPayment, OpenAtProvider, Job, Collected
    <3>2. CASE job' = GivesUp(ComplaintMarker)
      BY <1>1, <3>2, JobGivesUp, QuietJob
    <3>. QED
      BY <2>1, <3>1, <3>2
  <2>4. StampedExists' /\ UnpaidIsOpen' /\ NoSecondDraft' /\ OneCollectable'
    BY <1>1, <2>2 DEF IInv, Safe, StampedExists, UnpaidIsOpen, OpenAtProvider, NoSecondDraft,
       OneCollectable, Collected
  <2>5. EventsAreTrue'
    <3>1. \A e \in Events : hook[e].type # "none" => hook[e].pid \in ProviderInvoices \ {inv.pid}
      BY <1>1, <1>3 DEF IInv, Safe, EventsAreTrue, StateOK, Hook, Collected
    <3>. QED
      BY <1>1, <2>2, <3>1 DEF IInv, Safe, EventsAreTrue, Paid, GoodNews
  <2>6. BookedIsPaid'
    <3>1. \A q \in ProviderInvoices : Paid(q) => Paid(q)'
      BY <1>1, <1>3, <2>2 DEF Paid
    <3>. QED
      BY <1>1, <3>1 DEF IInv, Safe, BookedIsPaid
  <2>. QED
    BY <2>3, <2>4, <2>5, <2>6 DEF Safe
<1>. QED
  BY <1>2, <1>3 DEF OpenProviderInvoice

LEMMA AskSafe ==
  ASSUME IInv, AskProvider
  PROVE  Safe'
<1>1. /\ job \in Job /\ job.pc = "ask" /\ job.pid = inv.pid
      /\ OpenAtProvider /\ inv.pid \in ProviderInvoices
      /\ UNCHANGED <<inv, pinv, settled, sub, queued, hook, faults>>
  BY DEF AskProvider, IInv, Safe, StateOK, JobKnowsInvoice, OpenAtProvider, Invoice
<1>2. Said(job.pid) = "paid" => SomePaid
  BY <1>1 DEF Said, SomePaid, Paid
<1>3. OpenAtProvider'
  BY <1>1 DEF OpenAtProvider
<1>4. SomePaid => SomePaid'
  BY <1>1 DEF SomePaid, Paid
<1>5. JobKnowsInvoice' /\ JobKnowsPayment'
  <2>1. CASE AskedByCollect(Said(job.pid))
    <3>1. \/ /\ job'.pc = "write" /\ job'.to = Said(job.pid)
             /\ Said(job.pid) \in {"paid", "void"}
          \/ job'.pc = "write" /\ job'.to = "failed"
          \/ job'.pc \in {"send", "pay"} /\ job'.pid = job.pid
      BY <1>1, <2>1 DEF AskedByCollect, Job
    <3>. QED
      BY <1>1, <1>2, <1>3, <1>4, <3>1 DEF JobKnowsInvoice, JobKnowsPayment
  <2>2. CASE AskedByReconcile(Said(job.pid))
    <3>1. CASE job' = NoJob
      BY <3>1, QuietJob DEF NoJob
    <3>2. CASE job' # NoJob
      <4>1. /\ Said(job.pid) \in {"paid", "void", "uncollectible"}
            /\ job' = [job EXCEPT !.pc = IF Said(job.pid) = "paid" THEN "settle" ELSE "write",
                                  !.to = StatusFor(Said(job.pid))]
        BY <1>1, <2>2, <3>2, AnswerType DEF AskedByReconcile
      <4>2. /\ StatusFor(Said(job.pid)) # "draft"
            /\ StatusFor(Said(job.pid)) = "paid" => Said(job.pid) = "paid"
        BY <4>1 DEF StatusFor
      <4>3. /\ job'.pc = IF Said(job.pid) = "paid" THEN "settle" ELSE "write"
            /\ job'.to = StatusFor(Said(job.pid))
        BY <1>1, <4>1 DEF Job
      <4>. QED
        BY <1>2, <1>3, <1>4, <4>2, <4>3 DEF JobKnowsInvoice, JobKnowsPayment
    <3>. QED
      BY <3>1, <3>2
  <2>. QED
    BY <2>1, <2>2 DEF AskProvider
<1>. QED
  BY <1>1, <1>5, OnlyJobMoves

LEMMA SendSafe ==
  ASSUME IInv, SendInvoice
  PROVE  Safe'
<1>1. /\ job \in Job /\ OpenAtProvider /\ StateOK
      /\ UNCHANGED <<inv, pinv, settled, sub, queued, hook, faults>>
      /\ job' = [job EXCEPT !.pc = "write", !.to = "waiting"] \/ job' = GivesUp(ComplaintMarker)
  BY DEF SendInvoice, IInv, Safe, StateOK, JobKnowsInvoice
<1>2. JobKnowsInvoice' /\ JobKnowsPayment'
  <2>1. CASE job' = [job EXCEPT !.pc = "write", !.to = "waiting"]
    BY <1>1, <2>1 DEF JobKnowsInvoice, JobKnowsPayment, OpenAtProvider, Job
  <2>2. CASE job' = GivesUp(ComplaintMarker)
    BY <1>1, <2>2, JobGivesUp, QuietJob
  <2>. QED
    BY <1>1, <2>1, <2>2
<1>. QED
  BY <1>1, <1>2, OnlyJobMoves

LEMMA PaySafe ==
  ASSUME IInv, CollectPayment
  PROVE  Safe'
<1>1. /\ job \in Job /\ job.pc = "pay" /\ StateOK
      /\ job.pid = inv.pid /\ inv.pid \in ProviderInvoices /\ OpenAtProvider
      /\ UNCHANGED <<inv, settled, sub, queued>>
      /\ pinv' = [pinv EXCEPT ![inv.pid] = "paid"] \/ UNCHANGED pinv
  BY DEF CollectPayment, IInv, Safe, StateOK, JobKnowsInvoice, OpenAtProvider, Invoice
<1>2. /\ pinv' = [pinv EXCEPT ![inv.pid] = "paid"] => pinv'[inv.pid] = "paid"
      /\ \A q \in ProviderInvoices : q # inv.pid => pinv'[q] = pinv[q]
      /\ \A q \in ProviderInvoices :
           /\ pinv[q] \in Collected => pinv'[q] \in Collected
           /\ Paid(q) => pinv'[q] \in {"paid", "disputed"}
      /\ pinv'[inv.pid] \in Collected
  BY <1>1 DEF StateOK, OpenAtProvider, Paid, Collected
<1>3. JobKnowsInvoice' /\ JobKnowsPayment'
  <2>1. CASE job' = GivesUp(ComplaintMarker)
    BY <1>1, <2>1, JobGivesUp, QuietJob
  <2>2. CASE job' = [job EXCEPT !.pc = "write", !.to = "unpaid"]
    BY <1>1, <1>2, <2>2 DEF JobKnowsInvoice, JobKnowsPayment, OpenAtProvider, Job
  <2>3. CASE /\ job' = [job EXCEPT !.pc = "write", !.to = "paid"]
             /\ pinv' = [pinv EXCEPT ![inv.pid] = "paid"]
    <3>1. SomePaid'
      BY <1>1, <1>2, <2>3 DEF SomePaid, Paid
    <3>. QED
      BY <1>1, <2>3, <3>1 DEF JobKnowsInvoice, JobKnowsPayment, Job
  <2>. QED
    BY <1>1, <2>1, <2>2, <2>3 DEF CollectPayment
<1>4. StampedExists' /\ UnpaidIsOpen' /\ NoSecondDraft' /\ OneCollectable'
  BY <1>1, <1>2 DEF IInv, Safe, StampedExists, UnpaidIsOpen, OpenAtProvider, NoSecondDraft,
     OneCollectable, Collected
<1>5. EventsAreTrue'
  <2>1. CASE UNCHANGED <<pinv, hook>>
    BY <2>1 DEF IInv, Safe, EventsAreTrue, Paid
  <2>2. CASE Emit("payment.failed", inv.pid)
    BY <1>1, <1>2, <2>2, EmittedIsTrue DEF IInv, Safe, GoodNews, BadNews
  <2>3. CASE pinv' = [pinv EXCEPT ![inv.pid] = "paid"] /\ Emit("payment.succeeded", inv.pid)
    BY <1>1, <1>2, <2>3, EmittedIsTrue DEF IInv, Safe, GoodNews
  <2>. QED
    BY <1>1, <2>1, <2>2, <2>3 DEF CollectPayment
<1>6. BookedIsPaid'
  BY <1>1, <1>2 DEF IInv, Safe, BookedIsPaid, Paid
<1>. QED
  BY <1>3, <1>4, <1>5, <1>6 DEF Safe

\* What a job may do to the row when it writes a status.
LEMMA WriteSafe ==
  ASSUME IInv, WriteInvoice
  PROVE  Safe'
<1>1. /\ job \in Job /\ job.pc = "write" /\ inv \in Invoice /\ StateOK
      /\ UNCHANGED <<pinv, settled, sub, queued, hook, faults>>
      /\ job.to \in {"paid", "void"} \/ OpenAtProvider
      /\ job.to # "draft"
      /\ job.to = "paid" => SomePaid \/ (job.kind = "finalize" /\ inv.due # "collectable")
  BY DEF WriteInvoice, IInv, Safe, StateOK, JobKnowsInvoice, JobKnowsPayment
<1>2. CASE job' = NoJob /\ UNCHANGED inv
  BY <1>1, <1>2, QuietJob, OnlyJobMoves DEF NoJob
<1>3. CASE /\ inv' = WithMarker([inv EXCEPT !.status = job.to], job.marker)
           /\ job' = [job EXCEPT !.pc = IF job.kind = "collect" /\ job.to = "paid"
                                        THEN "settle" ELSE "report"]
  <2>1. inv'.pid = inv.pid /\ inv'.due = inv.due /\ inv'.status = job.to
    BY <1>1, <1>3 DEF WithMarker, Invoice
  <2>2. /\ job'.pc = IF job.kind = "collect" /\ job.to = "paid" THEN "settle" ELSE "report"
        /\ job'.to = job.to
    BY <1>1, <1>3 DEF Job
  <2>3. SomePaid => SomePaid'
    BY <1>1 DEF SomePaid, Paid
  <2>4. JobKnowsInvoice' /\ JobKnowsPayment'
    BY <1>1, <2>2, <2>3 DEF JobKnowsInvoice, JobKnowsPayment
  <2>5. StampedExists' /\ UnpaidIsOpen' /\ NoSecondDraft' /\ OneCollectable' /\ EventsAreTrue'
    BY <1>1, <2>1 DEF IInv, Safe, StampedExists, UnpaidIsOpen, OpenAtProvider, NoSecondDraft,
       OneCollectable, EventsAreTrue, Paid
  <2>6. BookedIsPaid'
    BY <1>1, <2>1, <2>3 DEF IInv, Safe, BookedIsPaid, SomePaid
  <2>. QED
    BY <2>4, <2>5, <2>6 DEF Safe
<1>. QED
  BY <1>2, <1>3 DEF WriteInvoice

LEMMA SettleSafe ==
  ASSUME IInv, Settle
  PROVE  Safe'
<1>1. /\ job \in Job /\ job.pc = "settle" /\ job.to # "draft" /\ SomePaid /\ StateOK
      /\ UNCHANGED <<inv, pinv, sub, queued, hook>>
  BY DEF Settle, IInv, Safe, StateOK, JobKnowsInvoice, JobKnowsPayment
<1>2. SomePaid'
  BY <1>1 DEF SomePaid, Paid
<1>3. JobKnowsInvoice' /\ JobKnowsPayment'
  <2>1. CASE job' = GivesUp("keep")
    BY <1>1, <2>1, GivesUpType, QuietJob DEF JobMarkers
  <2>2. CASE job' = [job EXCEPT !.pc = IF job.kind = "reconcile" THEN "write" ELSE "report"]
    <3>1. /\ job'.pc = IF job.kind = "reconcile" THEN "write" ELSE "report"
          /\ job'.to = job.to
      BY <1>1, <2>2 DEF Job
    <3>2. OpenAtProvider'
      BY <1>1 DEF IInv, Safe, OneCollectable, OpenAtProvider, SomePaid, Paid, Collected
    <3>. QED
      BY <1>1, <1>2, <3>1, <3>2 DEF JobKnowsInvoice, JobKnowsPayment
  <2>. QED
    BY <2>1, <2>2 DEF Settle
<1>4. StampedExists' /\ UnpaidIsOpen' /\ NoSecondDraft' /\ OneCollectable' /\ EventsAreTrue'
  BY <1>1 DEF IInv, Safe, StampedExists, UnpaidIsOpen, OpenAtProvider, NoSecondDraft,
     OneCollectable, EventsAreTrue, Paid
<1>5. BookedIsPaid'
  BY <1>2 DEF BookedIsPaid, SomePaid
<1>. QED
  BY <1>3, <1>4, <1>5 DEF Safe

\* The steps of a job that only report, and its end.
LEMMA ReportSteps ==
  ASSUME IInv,
         \/ Report \/ ReportReconciled \/ MarkReconciled \/ Complain \/ JobDies
         \/ LockExpires \/ ProviderCallFails
  PROVE  IInv'
<1>1. StateOK /\ job \in Job /\ inv \in Invoice
  BY DEF IInv, StateOK
<1>2. StateOK'
  <2>1. CASE Report
    BY <1>1, <2>1, NoJobType DEF IInv, Safe, JobKnowsInvoice, StateOK, Job, Report, AfterInvoice,
       AcceptsInvoice, PaymentFailure, AcceptsPayment, Kinds, Statuses
  <2>2. CASE ReportReconciled
    BY <1>1, <2>2, NoJobType DEF StateOK, ReportReconciled, JobOutcome, Job
  <2>3. CASE MarkReconciled
    BY <1>1, <2>3, NoJobType DEF StateOK, MarkReconciled, JobOutcome, Invoice, Outcomes
  <2>4. CASE Complain
    BY <1>1, <2>4, NoJobType DEF StateOK, Complain, AfterInvoice, AcceptsInvoice, WithMarker,
       Invoice, Job
  <2>5. CASE JobDies
    BY <1>1, <2>5, NoJobType DEF StateOK, JobDies, Fails, Job
  <2>6. CASE LockExpires
    BY <1>1, <2>6, NoJobType DEF StateOK, LockExpires
  <2>7. CASE ProviderCallFails
    BY <1>1, <2>7, ProviderCallFailsType
  <2>. QED
    BY <2>1, <2>2, <2>3, <2>4, <2>5, <2>6, <2>7
<1>3. job'.pc \in {"idle", "complain", "dead", "mark"}
  BY <1>1, NoJobType, JobGivesUp DEF Report, ReportReconciled, MarkReconciled, Complain, JobDies,
     LockExpires, ProviderCallFails, NoJob, Job
<1>4. /\ UNCHANGED <<pinv, settled, queued, hook>>
      /\ inv'.pid = inv.pid /\ inv'.due = inv.due /\ inv'.status = inv.status
  BY <1>1 DEF Report, ReportReconciled, MarkReconciled, Complain, JobDies, LockExpires,
     ProviderCallFails, WithMarker, Invoice
<1>5. StampedExists' /\ UnpaidIsOpen' /\ NoSecondDraft' /\ OneCollectable'
  BY <1>4 DEF IInv, Safe, StampedExists, UnpaidIsOpen, OpenAtProvider, NoSecondDraft, OneCollectable
<1>6. EventsAreTrue' /\ BookedIsPaid'
  BY <1>4 DEF IInv, Safe, EventsAreTrue, BookedIsPaid, Paid
<1>. QED
  BY <1>2, <1>3, <1>5, <1>6, QuietJob DEF IInv, Safe

\* A job starts with what the row says.
LEMMA StartSteps ==
  ASSUME IInv, StartFinalize \/ StartCollect \/ StartReconcile
  PROVE  IInv'
<1>1. StateOK /\ inv \in Invoice /\ queued \subseteq Kinds
  BY DEF IInv, StateOK
<1>2. /\ UNCHANGED <<inv, pinv, settled, sub, hook, faults>>
      /\ queued' \subseteq queued
  BY DEF StartFinalize, StartCollect, StartReconcile, Start
<1>3. /\ job' \in Job /\ JobKnowsInvoice' /\ JobKnowsPayment'
  <2>1. CASE StartFinalize
    <3>1. /\ FinalStatus(inv.due) \in Statuses
          /\ inv.due = "collectable" => FinalStatus(inv.due) = "unpaid"
          /\ inv.due # "collectable" => FinalStatus(inv.due) \in {"paid", "void"}
      BY <1>1 DEF FinalStatus, Invoice, Statuses
    <3>2. CASE inv.status # "draft"
      <4>1. job' = NoJob
        BY <2>1, <3>2 DEF StartFinalize, Start
      <4>. QED
        BY <4>1, NoJobType, QuietJob DEF NoJob
    <3>3. CASE inv.status = "draft"
      <4>1. PICK s \in {"write", "create", "load"} :
              /\ job' = [kind |-> "finalize", pc |-> s, status |-> inv.status, pid |-> inv.pid,
                         to |-> FinalStatus(inv.due), marker |-> inv.marker]
              /\ s = "write" => inv.due # "collectable"
              /\ s = "create" => inv.due = "collectable" /\ inv.pid = NoProviderInvoice
              /\ s = "load" => inv.due = "collectable" /\ inv.pid # NoProviderInvoice
        BY <1>1, <2>1, <3>3 DEF StartFinalize, Start
      <4>2. job' \in Job
        <5>1. inv.marker \in Outcomes \cup {"none", "keep"} /\ inv.status \in Statuses
              /\ inv.pid \in {NoProviderInvoice} \cup ProviderInvoices
          BY <1>1 DEF Invoice
        <5>. QED
          BY <3>1, <4>1, <5>1 DEF Job, Kinds
      <4>3. /\ job'.pc = s /\ job'.to = FinalStatus(inv.due) /\ job'.kind = "finalize"
            /\ job'.pid = inv.pid
        BY <4>1
      <4>4. JobKnowsInvoice'
        BY <1>2, <3>1, <4>1, <4>3 DEF JobKnowsInvoice
      <4>5. JobKnowsPayment'
        BY <1>2, <3>1, <4>1, <4>3 DEF JobKnowsPayment
      <4>. QED
        BY <4>2, <4>4, <4>5
    <3>. QED
      BY <3>2, <3>3
  <2>2. CASE StartCollect
    BY <1>1, <1>2, <2>2, NoJobType DEF StartCollect, Start, FirstCollectStep, IInv, Safe,
       UnpaidIsOpen, OpenAtProvider, NoJob, Job, Kinds, Invoice, Statuses, JobKnowsInvoice,
       JobKnowsPayment
  <2>3. CASE StartReconcile
    BY <1>1, <1>2, <2>3, NoJobType DEF StartReconcile, Start, IInv, Safe, UnpaidIsOpen,
       OpenAtProvider, NoSecondDraft, NoJob, Job, Kinds, Invoice, Statuses, JobKnowsInvoice,
       JobKnowsPayment
  <2>. QED
    BY <2>1, <2>2, <2>3
<1>4. StateOK'
  BY <1>1, <1>2, <1>3 DEF StateOK
<1>5. StampedExists' /\ UnpaidIsOpen' /\ NoSecondDraft' /\ OneCollectable'
  BY <1>2 DEF IInv, Safe, StampedExists, UnpaidIsOpen, OpenAtProvider, NoSecondDraft, OneCollectable
<1>6. EventsAreTrue' /\ BookedIsPaid'
  BY <1>2 DEF IInv, Safe, EventsAreTrue, BookedIsPaid, Paid
<1>. QED
  BY <1>3, <1>4, <1>5, <1>6 DEF IInv, Safe

\* A handler moves the row only from a status its event may move it from.
LEMMA HookSteps ==
  ASSUME IInv, NEW e \in Events, HookStep(e) \/ HookStops(e) \/ HookForgotten(e)
  PROVE  IInv'
<1>1. StateOK /\ hook[e] \in Hook /\ inv \in Invoice
  BY DEF IInv, StateOK
<1>2. StateOK'
  <2>1. CASE HookReceives(e)
    BY <1>1, <2>1, HookReceivesType
  <2>2. CASE HookSettles(e)
    BY <1>1, <2>2, HookSettlesType
  <2>3. CASE HookUpdates(e)
    BY <2>3, HookUpdatesType
  <2>4. CASE HookSkips(e)
    BY <1>1, <2>4, NoEventType DEF StateOK, HookSkips
  <2>5. CASE HookReports(e)
    <3>1. hook' \in [Events -> Hook]
      BY <1>1, <2>5, SMTT(30) DEF StateOK, HookReports, ActivationFails, Hook
    <3>. QED
      BY <1>1, <2>5, <3>1 DEF StateOK, HookReports, ActivationFails, Fails
  <2>6. CASE HookIsRefused(e)
    BY <1>1, <2>6 DEF StateOK, HookIsRefused, Refused, Hook
  <2>7. CASE HookMarks(e)
    BY <1>1, <2>7, NoEventType DEF StateOK, HookMarks, Fails, OutcomeOf, Outcomes, Invoice
  <2>8. CASE HookStops(e)
    BY <1>1, <2>8, HookStopsType
  <2>9. CASE HookForgotten(e)
    BY <1>1, <2>9, HookForgottenType
  <2>. QED
    BY <2>1, <2>2, <2>3, <2>4, <2>5, <2>6, <2>7, <2>8, <2>9 DEF HookStep
<1>3. /\ UNCHANGED <<pinv, queued, job>>
      /\ inv'.pid = inv.pid /\ inv'.due = inv.due
      /\ \A d \in Events \ {e} : hook'[d] = hook[d]
      /\ hook'[e].type \in {hook[e].type, "none"}
      /\ hook'[e].type # "none" => hook'[e].pid = hook[e].pid
      /\ hook'[e].pc # "idle" => hook'[e].type # "none"
      /\ hook'[e].pc = "settle" => hook'[e].type \in GoodNews
  <2>1. CASE HookReceives(e)
    BY <1>1, <2>1 DEF IInv, Safe, EventsAreTrue, StateOK, NoEvent, Hook, HookReceives
  <2>2. CASE HookSettles(e) \/ HookIsRefused(e)
    BY <1>1, <2>2 DEF IInv, Safe, EventsAreTrue, StateOK, Hook, HookSettles, HookIsRefused,
       Refused
  <2>3. CASE HookUpdates(e)
    BY <1>1, <2>3 DEF IInv, Safe, EventsAreTrue, StateOK, Hook, Invoice, HookUpdates
  <2>4. CASE HookSkips(e)
    BY <1>1, <2>4 DEF StateOK, NoEvent, HookSkips
  <2>5. CASE HookReports(e)
    BY <1>1, <2>5 DEF IInv, Safe, EventsAreTrue, StateOK, Hook, HookReports, ActivationFails
  <2>6. CASE HookMarks(e)
    BY <1>1, <2>6 DEF StateOK, NoEvent, Invoice, HookMarks
  <2>7. CASE HookStops(e)
    BY <1>1, <2>7 DEF StateOK, Hook, Invoice, HookStops, Interrupted
  <2>8. CASE HookForgotten(e)
    <3>1. hook' = [hook EXCEPT ![e] = NoEvent]
      BY <2>8 DEF HookForgotten
    <3>2. UNCHANGED <<pinv, queued, job>> /\ inv'.pid = inv.pid /\ inv'.due = inv.due
      BY <1>1, <2>8 DEF HookForgotten, Interrupted, Refused, Invoice
    <3>. QED
      BY <1>1, <3>1, <3>2 DEF StateOK, NoEvent
  <2>. QED
    BY <2>1, <2>2, <2>3, <2>4, <2>5, <2>6, <2>7, <2>8 DEF HookStep
<1>4. \/ inv'.status = inv.status
      \/ /\ hook[e].type # "none"
         /\ inv'.status = StatusAfter(hook[e].type)
         /\ inv.status \in AllowedFrom(hook[e].type)
  BY <1>1 DEF IInv, Safe, EventsAreTrue, Invoice, HookStep, HookReceives, HookSettles,
     HookUpdates, HookSkips, HookReports, HookIsRefused, HookMarks, HookStops, HookForgotten,
     Interrupted, Refused
<1>5. hook[e].type # "none" => OpenAtProvider /\ hook[e].pid = inv.pid
  BY <1>1 DEF IInv, Safe, EventsAreTrue, OneCollectable, OpenAtProvider, Hook
<1>6. settled' => settled \/ SomePaid
  <2>1. hook[e].pc = "settle" => SomePaid
    BY <1>1 DEF IInv, Safe, EventsAreTrue, SomePaid, Paid, Hook, GoodNews
  <2>2. settled' => settled \/ hook[e].pc = "settle"
    BY Zenon DEF HookStep, HookReceives, HookSettles, HookUpdates, HookSkips, HookReports,
       HookIsRefused, HookMarks, HookStops, HookForgotten, Interrupted, Refused
  <2>. QED
    BY <2>1, <2>2
<1>7. hook[e].type # "none" => /\ StatusAfter(hook[e].type) # "draft"
                               /\ StatusAfter(hook[e].type) = "paid" => hook[e].type \in GoodNews
  BY <1>1 DEF StatusAfter, Hook, GoodNews, BadNews
<1>8. StampedExists' /\ UnpaidIsOpen' /\ NoSecondDraft' /\ OneCollectable'
  BY <1>3, <1>4, <1>5, <1>7 DEF IInv, Safe, StampedExists, UnpaidIsOpen, OpenAtProvider,
     NoSecondDraft, OneCollectable
<1>9. JobKnowsInvoice' /\ JobKnowsPayment'
  BY <1>3 DEF IInv, Safe, JobKnowsInvoice, JobKnowsPayment, OpenAtProvider, SomePaid, Paid
<1>10. EventsAreTrue'
  BY <1>3 DEF IInv, Safe, EventsAreTrue, Paid, GoodNews
<1>11. BookedIsPaid'
  <2>1. hook[e].type \in GoodNews => SomePaid
    BY <1>1 DEF IInv, Safe, EventsAreTrue, SomePaid, Hook, GoodNews
  <2>. QED
    BY <1>3, <1>4, <1>6, <1>7, <2>1 DEF IInv, Safe, BookedIsPaid, SomePaid, Paid
<1>. QED
  BY <1>2, <1>8, <1>9, <1>10, <1>11 DEF IInv, Safe

-----------------------------------------------------------------------------
(* The invariant.                                                          *)

LEMMA Initially == Init => IInv
<1>1. SUFFICES ASSUME Init PROVE IInv
  OBVIOUS
<1>2. inv \in Invoice /\ inv.status = "draft" /\ inv.pid = NoProviderInvoice
  BY <1>1 DEF Init, Invoice, Statuses
<1>3. StateOK
  <2>1. settled \in BOOLEAN
    BY <1>1 DEF Init
  <2>3. faults \in 0 .. MaxFaults
    BY <1>1 DEF Init
  <2>4. hook \in [Events -> Hook]
    BY <1>1, NoEventType, Zenon DEF Init
  <2>2. pinv \in [ProviderInvoices -> ProviderStatuses]
    BY <1>1 DEF Init, ProviderStatuses
  <2>. QED
    BY <1>1, <1>2, <2>1, <2>2, <2>3, <2>4, NoJobType DEF Init, StateOK, ProviderStatuses
<1>4. Safe
  BY <1>1, <1>2 DEF Init, NoJob, NoEvent, GoodNews, Collected, Safe, StampedExists, UnpaidIsOpen,
     NoSecondDraft, OneCollectable, JobKnowsInvoice, JobKnowsPayment, EventsAreTrue, BookedIsPaid
<1>. QED
  BY <1>3, <1>4 DEF IInv

LEMMA JobSteps ==
  ASSUME IInv, JobStep
  PROVE  IInv'
<1>1. StateOK /\ Safe
  BY DEF IInv
<1>2. CASE LoadProviderInvoice
  <2>1. pinv[job.pid] \in Collected \cup {"draft", "deleted"}
    BY <1>1, <1>2 DEF LoadProviderInvoice, StateOK, Safe, StampedExists, JobKnowsInvoice, Invoice
  <2>2. job' \in {[job EXCEPT !.pc = "create", !.pid = NoProviderInvoice],
                  [job EXCEPT !.pc = "open"], [job EXCEPT !.pc = "write"]}
    BY <1>2, <2>1 DEF LoadProviderInvoice
  <2>3. job' \in Job
    BY <1>1, <2>2 DEF StateOK, Job
  <2>4. StateOK'
    BY <1>1, <1>2, <2>3 DEF LoadProviderInvoice, StateOK
  <2>. QED
    BY <1>2, <2>4, LoadSafe DEF IInv
<1>3. CASE CreateProviderInvoice
  <2>1. job' \in Job
    BY <1>1, <1>3, JobGivesUp DEF CreateProviderInvoice, StateOK, Job
  <2>2. pinv' \in [ProviderInvoices -> ProviderStatuses]
    BY <1>1, <1>3, ProviderType DEF CreateProviderInvoice, ProviderStatuses
  <2>3. StateOK'
    BY <1>1, <1>3, <2>1, <2>2 DEF CreateProviderInvoice, StateOK, Fails, ProviderStatuses
  <2>. QED
    BY <1>3, <2>3, CreateSafe DEF IInv
<1>4. CASE StampProviderId
  <2>1. StateOK'
    BY <1>1, <1>4 DEF StampProviderId, StateOK, Job, Invoice
  <2>. QED
    BY <1>4, <2>1, StampSafe DEF IInv
<1>5. CASE OpenProviderInvoice
  <2>1. job' \in Job
    BY <1>1, <1>5, JobGivesUp DEF OpenProviderInvoice, StateOK, Job
  <2>2. pinv' \in [ProviderInvoices -> ProviderStatuses]
    BY <1>1, <1>5, ProviderType DEF OpenProviderInvoice, StateOK, ProviderStatuses, Collected
  <2>3. StateOK'
    BY <1>1, <1>5, <2>1, <2>2 DEF OpenProviderInvoice, StateOK, Fails, ProviderStatuses
  <2>. QED
    BY <1>5, <2>3, OpenSafe DEF IInv
<1>6. CASE AskProvider
  BY <1>6, AskProviderType, AskSafe DEF IInv
<1>7. CASE SendInvoice
  BY <1>7, SendInvoiceType, SendSafe DEF IInv
<1>8. CASE CollectPayment
  BY <1>8, CollectPaymentType, PaySafe DEF IInv
<1>9. CASE WriteInvoice
  BY <1>9, WriteInvoiceType, WriteSafe DEF IInv
<1>10. CASE Settle
  BY <1>10, SettleType, SettleSafe DEF IInv
<1>11. CASE Report \/ ReportReconciled \/ MarkReconciled \/ Complain \/ LockExpires
  BY <1>11, ReportSteps
<1>. QED
  BY <1>2, <1>3, <1>4, <1>5, <1>6, <1>7, <1>8, <1>9, <1>10, <1>11 DEF JobStep

LEMMA Inductive == IInv /\ [Next]_vars => IInv'
<1>1. SUFFICES ASSUME IInv, [Next]_vars PROVE IInv'
  OBVIOUS
<1>2. CASE Provider
  <2>1. PICK p \in ProviderInvoices :
          CustomerPays(p) \/ PaymentFails(p) \/ PaymentReversed(p) \/ OperatorEdits(p)
    BY <1>2 DEF Provider
  <2>. QED
    BY <1>1, <2>1, PaymentEventTypes, ProviderSafe DEF IInv
<1>3. CASE JobStep
  BY <1>1, <1>3, JobSteps
<1>4. CASE ProviderCallFails \/ JobDies
  BY <1>1, <1>4, ReportSteps
<1>5. CASE StartFinalize \/ StartCollect \/ StartReconcile
  BY <1>1, <1>5, StartSteps
<1>6. CASE ActivationRetried
  BY <1>1, <1>6 DEF ActivationRetried, IInv, Safe, StateOK, StampedExists, UnpaidIsOpen,
     OpenAtProvider, NoSecondDraft, OneCollectable, JobKnowsInvoice, JobKnowsPayment, SomePaid,
     EventsAreTrue, BookedIsPaid, Paid
<1>7. ASSUME NEW k \in Kinds, Schedule(k) PROVE IInv'
  <2>1. /\ queued' = queued \cup {k} /\ Due(k)
        /\ UNCHANGED <<inv, pinv, settled, sub, job, hook, faults>>
    BY <1>7 DEF Schedule
  <2>2. NoSecondDraft'
    BY <1>1, <2>1 DEF IInv, Safe, NoSecondDraft, Due, Kinds
  <2>. QED
    BY <1>1, <1>7, <2>1, <2>2 DEF IInv, Safe, StateOK, StampedExists, UnpaidIsOpen,
       OpenAtProvider, OneCollectable, JobKnowsInvoice, JobKnowsPayment, SomePaid,
       EventsAreTrue, BookedIsPaid, Paid
<1>8. CASE \E e \in Events : HookStep(e) \/ HookStops(e) \/ HookForgotten(e)
  BY <1>1, <1>8, HookSteps
<1>9. CASE UNCHANGED vars
  BY <1>1, <1>9 DEF vars, IInv, Safe, StateOK, StampedExists, UnpaidIsOpen, OpenAtProvider,
     NoSecondDraft, OneCollectable, JobKnowsInvoice, JobKnowsPayment, SomePaid, EventsAreTrue,
     BookedIsPaid, Paid
<1>. QED
  BY <1>1, <1>2, <1>3, <1>4, <1>5, <1>6, <1>7, <1>8, <1>9 DEF Next, Move

\* The inductive invariant holds in every behaviour.
THEOREM IInvHolds == Spec => []IInv
BY Initially, Inductive, PTL DEF Spec

\* Every variable keeps its type.
THEOREM TypesHold == Spec => []TypeOK
<1> DEFINE Heard == unheard \in BOOLEAN
<1>1. Init => Heard
  BY DEF Init
<1>2. Heard /\ [Next]_vars => Heard'
  BY Zenon DEF Next, HookForgotten, vars
<1>3. IInv /\ Heard => TypeOK
  BY DEF IInv, TypeOK
<1>4. Spec => []Heard
  BY <1>1, <1>2, PTL DEF Spec
<1>. QED
  BY <1>3, <1>4, IInvHolds, PTL

\* The customer can be asked for the money once, whatever fails or is retried
\* while the provider's invoice is made (_upsertPaymentProviderInvoice).
THEOREM CustomerIsAskedOnce == Spec => []OneCollectable
<1>1. IInv => OneCollectable
  BY DEF IInv, Safe
<1>. QED
  BY <1>1, IInvHolds, PTL

\* No notification is ignored for being about another invoice
\* (findInvoiceByProviderId).
THEOREM NoEventIsLost == Spec => []EventsFindTheirInvoice
<1>1. IInv => EventsFindTheirInvoice
  BY DEF IInv, Safe, EventsAreTrue, OneCollectable, EventsFindTheirInvoice, StateOK, Hook
<1>. QED
  BY <1>1, IInvHolds, PTL

\* Neither the invoice nor the wallet says paid before the provider does, in any
\* order of the jobs and the webhooks.
THEOREM MoneyComesFirst == Spec => []BookedIsPaid
<1>1. IInv => BookedIsPaid
  BY DEF IInv, Safe
<1>. QED
  BY <1>1, IInvHolds, PTL

-----------------------------------------------------------------------------
(* Settlement, where the provider notifies.                                *)

\* Steps that neither pay nor touch an event keep the announcement.
LEMMA AnnouncementStays ==
  ASSUME Announced, UNCHANGED hook, settled => settled', unheard => unheard',
         SomePaid' => SomePaid
  PROVE  Announced'
BY DEF Announced

\* A notification takes a free place and leaves the others.
LEMMA EmitAnnounces ==
  ASSUME IInv, Announced, Notifies, NEW type \in GoodNews \cup BadNews,
         NEW p \in ProviderInvoices, Emit(type, p), UNCHANGED <<settled, unheard>>,
         SomePaid' => SomePaid \/ type = "payment.succeeded"
  PROVE  Announced'
<1>1. PICK e \in Events :
        hook[e].type = "none" /\ hook' = [hook EXCEPT ![e] = [NoEvent EXCEPT !.type = type, !.pid = p]]
  BY DEF Emit
<1>2. /\ hook'[e].type = type /\ hook'[e].pc = "idle"
      /\ \A d \in Events : d # e => hook'[d] = hook[d]
  BY <1>1 DEF IInv, StateOK, NoEvent
<1>. QED
  BY <1>1, <1>2 DEF Announced

\* Good news is processed only once it is settled.
LEMMA HookAnnounces ==
  ASSUME IInv, Announced, NEW e \in Events, HookStep(e) \/ HookStops(e), UNCHANGED unheard
  PROVE  Announced'
<1>1. hook[e] \in Hook /\ hook \in [Events -> Hook]
  BY DEF IInv, StateOK
<1>2. UNCHANGED pinv /\ \A d \in Events : d # e => hook'[d] = hook[d]
  BY <1>1 DEF HookStep, HookReceives, HookSettles, HookUpdates, HookSkips, HookReports,
     HookIsRefused, HookMarks, HookStops, Refused, Interrupted
<1>3. settled => settled'
  BY Zenon DEF HookStep, HookReceives, HookSettles, HookUpdates, HookSkips, HookReports,
     HookIsRefused, HookMarks, HookStops, Refused, Interrupted
<1>4. SomePaid' <=> SomePaid
  BY <1>2 DEF SomePaid, Paid
<1>5. hook[e].type # "none" => hook[e].pid = inv.pid
  BY <1>1 DEF IInv, Safe, EventsAreTrue, OneCollectable, Hook
<1>6. hook[e].type = "payment.succeeded" => hook'[e].type = "payment.succeeded" \/ settled
  <2>1. CASE HookReceives(e)
    BY <1>1, <1>5, <2>1 DEF HookReceives
  <2>2. CASE HookUpdates(e)
    BY <1>1, <2>2 DEF HookUpdates, Hook
  <2>4. CASE HookSettles(e) \/ HookIsRefused(e) \/ HookStops(e)
    <3>1. \E pc \in {"status", "idle"} : hook' = [hook EXCEPT ![e].pc = pc]
      BY <2>4 DEF HookSettles, HookIsRefused, HookStops
    <3>. QED
      BY <1>1, <3>1 DEF Hook
  <2>3. CASE HookSkips(e) \/ HookReports(e) \/ HookMarks(e)
    <3>1. hook[e].pc \in {"report", "mark"}
      BY <2>3 DEF HookSkips, HookReports, HookMarks
    <3>. QED
      BY <3>1 DEF Announced, GoodNews
  <2>. QED
    BY <2>1, <2>2, <2>3, <2>4 DEF HookStep
<1>7. hook'[e].type \in GoodNews /\ hook'[e].pc \in {"status", "report", "mark"} => settled'
  <2>1. CASE HookReceives(e)
    BY <1>1, <1>5, <2>1 DEF HookReceives, NoEvent
  <2>2. CASE HookSettles(e)
    BY <2>2 DEF HookSettles
  <2>3. CASE HookUpdates(e)
    BY <1>1, <1>3, <2>3 DEF HookUpdates, Announced
  <2>4. CASE HookReports(e)
    <3>1. hook[e].pc = "report" /\ hook'[e].type = hook[e].type
      BY <1>1, <2>4 DEF HookReports, ActivationFails, Hook
    <3>. QED
      BY <1>3, <3>1 DEF Announced
  <2>5. CASE HookSkips(e) \/ HookMarks(e)
    <3>1. hook'[e] = NoEvent
      BY <1>1, <2>5 DEF HookSkips, HookMarks
    <3>. QED
      BY <3>1 DEF NoEvent
  <2>6. CASE HookIsRefused(e) \/ HookStops(e)
    <3>1. hook' = [hook EXCEPT ![e].pc = "idle"]
      BY <2>6 DEF HookIsRefused, HookStops
    <3>. QED
      BY <1>1, <3>1 DEF Hook
  <2>. QED
    BY <2>1, <2>2, <2>3, <2>4, <2>5, <2>6 DEF HookStep
<1>. QED
  BY <1>2, <1>3, <1>4, <1>6, <1>7 DEF Announced

\* An event that is forgotten says so.
LEMMA ForgottenAnnounces ==
  ASSUME IInv, Announced, NEW e \in Events, HookForgotten(e)
  PROVE  Announced'
<1>1. hook' = [hook EXCEPT ![e] = NoEvent] /\ hook \in [Events -> Hook]
  BY DEF IInv, StateOK, HookForgotten
<1>2. hook'[e] = NoEvent /\ \A d \in Events : d # e => hook'[d] = hook[d]
  BY <1>1
<1>3. (settled => settled') /\ UNCHANGED pinv
  <2>1. settled => settled'
    BY Zenon DEF HookForgotten, Interrupted, Refused
  <2>2. UNCHANGED pinv
    BY DEF HookForgotten, Interrupted, Refused
  <2>. QED
    BY <2>1, <2>2
<1>4. (unheard \/ hook[e].type = "payment.succeeded") => unheard'
  BY Zenon DEF HookForgotten
<1>5. SomePaid' <=> SomePaid
  BY <1>3 DEF SomePaid, Paid
<1>. QED
  BY <1>2, <1>3, <1>4, <1>5 DEF Announced, NoEvent

LEMMA JobAnnounces ==
  ASSUME IInv, Announced, Notifies, JobStep, UNCHANGED unheard
  PROVE  Announced'
<1>1. StateOK /\ job \in Job
  BY DEF IInv, StateOK
<1>2. CASE CollectPayment
  <2>1. job.pid \in ProviderInvoices
    BY <1>1, <1>2 DEF IInv, Safe, JobKnowsInvoice, CollectPayment, Job
  <2>2. CASE Emit("payment.succeeded", job.pid)
    BY <1>2, <2>1, <2>2, EmitAnnounces DEF CollectPayment, GoodNews
  <2>3. CASE Emit("payment.failed", job.pid) /\ UNCHANGED pinv
    BY <1>2, <2>1, <2>3, EmitAnnounces DEF CollectPayment, BadNews, SomePaid, Paid
  <2>4. CASE UNCHANGED <<pinv, hook>>
    BY <1>2, <2>4, AnnouncementStays DEF CollectPayment, SomePaid, Paid
  <2>. QED
    BY <1>2, <2>2, <2>3, <2>4 DEF CollectPayment
<1>3. CASE CreateProviderInvoice \/ OpenProviderInvoice
  <2>1. UNCHANGED <<hook, settled>>
    BY <1>3 DEF CreateProviderInvoice, OpenProviderInvoice
  <2>2. \A q \in ProviderInvoices : Paid(q)' => Paid(q)
    BY <1>1, <1>3 DEF CreateProviderInvoice, OpenProviderInvoice, StateOK, Paid
  <2>. QED
    BY <2>1, <2>2, AnnouncementStays DEF SomePaid
<1>4. CASE Settle
  <2>1. settled => settled'
    BY <1>4, Zenon DEF Settle
  <2>. QED
    BY <1>4, <2>1, AnnouncementStays DEF Settle, SomePaid, Paid
<1>5. CASE \/ LoadProviderInvoice \/ StampProviderId \/ AskProvider \/ SendInvoice \/ WriteInvoice
           \/ Report \/ ReportReconciled \/ MarkReconciled \/ Complain \/ LockExpires
  <2>1. UNCHANGED <<hook, settled, pinv>>
    BY <1>5 DEF LoadProviderInvoice, StampProviderId, AskProvider, SendInvoice, WriteInvoice,
       Report, ReportReconciled, MarkReconciled, Complain, LockExpires
  <2>. QED
    BY <2>1, AnnouncementStays DEF SomePaid, Paid
<1>. QED
  BY <1>2, <1>3, <1>4, <1>5 DEF JobStep

LEMMA AnnouncedStep ==
  ASSUME Notifies
  PROVE  IInv /\ Announced /\ [Next]_vars => Announced'
<1>1. SUFFICES ASSUME IInv, Announced, [Next]_vars PROVE Announced'
  OBVIOUS
<1>0. CASE \E e \in Events : HookForgotten(e)
  BY <1>0, <1>1, ForgottenAnnounces
<1>2. CASE Provider /\ UNCHANGED unheard
  <2>1. PICK p \in ProviderInvoices :
          CustomerPays(p) \/ PaymentFails(p) \/ PaymentReversed(p) \/ OperatorEdits(p)
    BY <1>2 DEF Provider
  <2>2. CASE CustomerPays(p)
    BY <1>1, <1>2, <2>2, EmitAnnounces DEF CustomerPays, GoodNews
  <2>3. CASE PaymentFails(p)
    BY <1>1, <1>2, <2>3, EmitAnnounces DEF PaymentFails, BadNews, SomePaid, Paid
  <2>4. CASE PaymentReversed(p)
    <3>1. SomePaid' => SomePaid
      BY <1>1, <2>4 DEF PaymentReversed, SomePaid, Paid, IInv, StateOK
    <3>. QED
      BY <1>1, <1>2, <2>4, <3>1, EmitAnnounces DEF PaymentReversed, GoodNews, BadNews
  <2>5. CASE OperatorEdits(p)
    <3>1. SomePaid' => SomePaid
      BY <1>1, <2>5 DEF OperatorEdits, SomePaid, Paid, IInv, StateOK
    <3>. QED
      BY <1>1, <1>2, <2>5, <3>1, AnnouncementStays DEF OperatorEdits
  <2>. QED
    BY <2>1, <2>2, <2>3, <2>4, <2>5
<1>3. CASE JobStep /\ UNCHANGED unheard
  BY <1>1, <1>3, JobAnnounces
<1>4. CASE UNCHANGED unheard /\ \E e \in Events : HookStep(e) \/ HookStops(e)
  BY <1>1, <1>4, HookAnnounces
<1>5. CASE UNCHANGED <<hook, settled, pinv, unheard>>
  BY <1>1, <1>5, AnnouncementStays DEF SomePaid, Paid
<1>6. ASSUME NEW k \in Kinds, Schedule(k) PROVE UNCHANGED <<hook, settled, pinv>>
  BY <1>6 DEF Schedule
<1>. QED
  BY <1>0, <1>1, <1>2, <1>3, <1>4, <1>5, <1>6 DEF Next, Move, vars, ProviderCallFails, JobDies,
     StartFinalize, StartCollect, StartReconcile, Start, ActivationRetried

\* Where the provider notifies, a paid invoice whose receivable is open has a
\* payment event left that will clear it, unless one was forgotten:
\* processWebhookEvent settles before it acknowledges, whatever the collector did
\* meanwhile.
THEOREM PaidGetsSettled ==
  ASSUME Notifies
  PROVE  Spec => []PaidIsSettled
<1>1. Init => Announced
  BY DEF Init, Announced, NoEvent, GoodNews, SomePaid, Paid
<1>2. IInv /\ Announced => PaidIsSettled
  BY DEF IInv, Safe, BookedIsPaid, Announced, SomePaid, PaidIsSettled
<1>. QED
  BY <1>1, <1>2, Initially, Inductive, AnnouncedStep, PTL DEF Spec
=============================================================================
