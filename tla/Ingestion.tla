------------------------------ MODULE Ingestion ------------------------------
(***************************************************************************)
(* The events of one customer, from the ingestion queue to the published   *)
(* report.  A consumer takes a batch of messages, has every entitlement    *)
(* window count them, one window after the other, hands the outcome to the *)
(* reporting queue and only then acknowledges.  The queue delivers at      *)
(* least once; consumers die, calls fail, messages are dead-lettered after *)
(* their last delivery.  The same event may also come from a synchronous   *)
(* caller, from a client that sends it again, and from the replay of a     *)
(* failed one.                                                             *)
(*                                                                         *)
(* Of a window (the durable object of module EntitlementWindow) this       *)
(* module keeps the table of idempotency keys, the meter, and the books of *)
(* its reservation; the object runs one request at a time between awaits.  *)
(* A batch is staged in memory from what was read at its start.            *)
(*                                                                         *)
(* Every event matches every window and is not held back by a usage limit; *)
(* at a window it is priced at one unit of money or is free.               *)
(***************************************************************************)
EXTENDS Integers, FiniteSets, FiniteSetsExt

CONSTANTS
  Events,         \* idempotency keys of one customer
  Free,           \* <<window, event>>: what costs nothing there
  Windows,        \* entitlement windows of the customer
  NoWindow,       \* a worker that has no call under way is at no window
  Workers,        \* consumers and synchronous requests at work at once (a bound)
  Amounts,        \* what the wallet may grant at a time
  MaxDeliveries,  \* deliveries of a message before it is dead-lettered
  MaxAlloc,       \* bound: what a reservation holds
  MaxSends,       \* bound: messages sent by clients
  MaxExtras       \* bound: synchronous requests, replays of failed events,
                  \* closed reservations, events that get too old, calls that
                  \* fail and consumers that die, taken together

ASSUME ConstantsAssumption ==
  /\ NoWindow \notin Windows
  /\ Free \subseteq Windows \X Events
  /\ IsFiniteSet(Events)
  /\ MaxAlloc \in Nat /\ Amounts \subseteq 0 .. MaxAlloc /\ MaxDeliveries \in Nat \ {0}
  /\ MaxSends \in Nat /\ MaxExtras \in Nat

VARIABLES
  queue,      \* messages waiting, by event and by the delivery that comes next
  worker,     \* consumers and synchronous requests
  win,        \* the entitlement windows
  wallet,     \* the wallet's reservation of each window
  reports,    \* envelopes in the reporting queue
  published,  \* what the reporting consumer has published
  old,        \* events past the maximum age
  abandoned,  \* history: events dead-lettered, or failed to the caller's face
  overtaken,  \* history: windows that changed under a call opening a reservation
  left        \* what is left of each bound on the environment

vars == <<queue, worker, win, wallet, reports, published, old, abandoned,
          overtaken, left>>

-----------------------------------------------------------------------------
NotOpen == -1
States == {"processed", "rejected", "failed"}
Deliveries == 1 .. MaxDeliveries
Facts == Windows \X Events

NewWindow ==
  [idem |-> [e \in Events |-> "none"], counted |-> [e \in Events |-> 0],
   open |-> FALSE, alloc |-> 0, consumed |-> 0, paid |-> 0]

NoWorker ==
  [pc |-> "idle", sync |-> FALSE, orphan |-> FALSE, held |-> [e \in Events |-> 0],
   late |-> {}, fresh |-> {}, todo |-> {}, at |-> NoWindow, snap |-> NewWindow,
   grant |-> NotOpen, reused |-> FALSE, tried |-> 0, facts |-> {}]

Window == [idem : [Events -> {"none", "allowed", "denied"}], counted : [Events -> Nat],
           open : BOOLEAN, alloc : 0 .. MaxAlloc, consumed : Nat, paid : Nat]
Worker == [pc : {"idle", "late", "apply", "create", "recreate", "join", "grow",
                 "report", "failed"},
           sync : BOOLEAN, orphan : BOOLEAN, held : [Events -> 0 .. MaxDeliveries],
           late : SUBSET Events, fresh : SUBSET Events, todo : SUBSET Windows,
           at : Windows \cup {NoWindow}, snap : Window,
           grant : {NotOpen} \cup 0 .. MaxAlloc, reused : BOOLEAN,
           tried : Nat, facts : SUBSET Facts]
Envelope == [state : [Events -> States \cup {"none"}], facts : SUBSET Facts,
             delivery : Deliveries]
Bounds == [sends : Nat, extras : Nat]

TypeOK ==
  /\ queue \in [Events -> [Deliveries -> Nat]]
  /\ worker \in [Workers -> Worker]
  /\ win \in [Windows -> Window]
  /\ wallet \in [Windows -> {NotOpen} \cup 0 .. MaxAlloc]
  /\ reports \subseteq Envelope
  /\ published \in [status : [Events -> SUBSET States], facts : SUBSET Facts]
  /\ old \subseteq Events /\ abandoned \subseteq Events
  /\ overtaken \subseteq Windows
  /\ left \in Bounds

Init ==
  /\ queue = [e \in Events |-> [n \in Deliveries |-> 0]]
  /\ worker = [c \in Workers |-> NoWorker]
  /\ win = [d \in Windows |-> NewWindow]
  /\ wallet = [d \in Windows |-> NotOpen]
  /\ reports = {}
  /\ published = [status |-> [e \in Events |-> {}], facts |-> {}]
  /\ old = {} /\ abandoned = {} /\ overtaken = {}
  /\ left = [sends |-> MaxSends, extras |-> MaxExtras]

-----------------------------------------------------------------------------
(* The queue and its users.                                                *)

Idle(c) == worker[c].pc = "idle"
Become(c, new) == worker' = [worker EXCEPT ![c] = new]
Spend(bound) == left[bound] > 0 /\ left' = [left EXCEPT ![bound] = @ - 1]
Enqueue(e) == queue' = [queue EXCEPT ![e][1] = @ + 1]

\* A client sends an event, perhaps not for the first time.
Send(e) ==
  /\ Spend("sends") /\ Enqueue(e)
  /\ UNCHANGED <<worker, win, wallet, reports, published, old, abandoned, overtaken>>

\* The payload of an event that is published as failed is sent again.
Replay(e) ==
  /\ "failed" \in published.status[e]
  /\ Spend("extras") /\ Enqueue(e)
  /\ UNCHANGED <<worker, win, wallet, reports, published, old, abandoned, overtaken>>

\* Fault: the age of an event is not looked at.
NeverTooOld(e) == FALSE
TooOld(e) == e \in old

\* A batch: of every event in it one message is worked on, and further copies
\* in the same batch are acknowledged at once.  Events past the maximum age
\* are set apart.
Take(c) ==
  /\ Idle(c)
  /\ \E batch \in SUBSET Events \ {{}} :
     \E held \in [Events -> 0 .. MaxDeliveries], copied \in SUBSET batch :
       /\ \A e \in Events :
            IF e \in batch THEN held[e] > 0 /\ queue[e][held[e]] > 0 ELSE held[e] = 0
       /\ queue' = [e \in Events |-> [n \in Deliveries |->
                      IF e \in copied THEN 0
                      ELSE IF held[e] = n THEN queue[e][n] - 1 ELSE queue[e][n]]]
       /\ LET late == {e \in batch : TooOld(e)}
          IN  Become(c, [NoWorker EXCEPT
                !.pc = IF late = {} THEN "apply" ELSE "late",
                !.held = held, !.late = late, !.fresh = batch \ late,
                !.todo = Windows])
  /\ UNCHANGED <<win, wallet, reports, published, old, abandoned, overtaken, left>>

\* ingestFeatureSync: one event, one window, no message behind it.
IngestFeatureSync(c, e, d) ==
  /\ Idle(c) /\ Spend("extras")
  /\ Become(c, [NoWorker EXCEPT
        !.pc = IF TooOld(e) THEN "late" ELSE "apply", !.sync = TRUE,
        !.late = IF TooOld(e) THEN {e} ELSE {},
        !.fresh = IF TooOld(e) THEN {} ELSE {e}, !.todo = {d}])
  /\ UNCHANGED <<queue, win, wallet, reports, published, old, abandoned, overtaken>>

LastDelivery(held) == {e \in Events : held[e] = MaxDeliveries}

\* Messages that are not acknowledged come back, or are dead-lettered; a caller
\* waiting for told is given an error.
Return(held, told) ==
  /\ queue' = [e \in Events |-> [n \in Deliveries |->
                 IF n > 1 /\ held[e] = n - 1 THEN queue[e][n] + 1 ELSE queue[e][n]]]
  /\ abandoned' = abandoned \cup told \cup LastDelivery(held)

-----------------------------------------------------------------------------
(* A batch in its window.  x is the window now, s as the batch read it.    *)

Room(x) == Max({0, x.alloc - x.consumed})
\* Fault: deliveries of one event are taken for different events.
Everything(s, batch) == batch
Unseen(s, batch) == {e \in batch : s.idem[e] = "none"}
Priced(d, s, batch) == {e \in Unseen(s, batch) : <<d, e>> \notin Free}
Funded(x, need) == need = {} \/ (x.open /\ Cardinality(need) <= Room(x))

\* Fault: the answer to an event seen before does not carry its facts.
OnlyNew(s, batch, denied) == Unseen(s, batch) \ denied
Allowed(s, batch, denied) == {e \in batch \ denied : s.idem[e] # "denied"}

\* The window after a draft is committed: seals, meter and books in one
\* transaction.  The meter is the draft's, and so are the seals of the events
\* the draft had not seen; the books are as read after the last await.
Sealed(d, x, s, batch, denied) ==
  LET new == Unseen(s, batch)
      counts == new \ denied
  IN  [x EXCEPT
        !.idem = [e \in Events |-> IF e \in counts THEN "allowed"
                                   ELSE IF e \in new THEN "denied" ELSE @[e]],
        !.counted = IF counts = {} THEN @
                    ELSE [e \in Events |-> s.counted[e] + (IF e \in counts THEN 1 ELSE 0)],
        !.consumed = @ + Cardinality(Priced(d, s, counts))]

\* The call returns, and the consumer goes on to the next window.
Returned(c, d, s, denied) ==
  IF worker[c].orphan THEN NoWorker
  ELSE [worker[c] EXCEPT
         !.pc = IF worker[c].todo = {d} THEN "report" ELSE "apply",
         !.todo = @ \ {d}, !.at = NoWindow, !.snap = NewWindow,
         !.grant = NotOpen, !.reused = FALSE, !.tried = 0,
         !.facts = @ \cup {<<d, e>> : e \in Allowed(s, worker[c].fresh, denied)}]

Commit(c, d, x, s, denied) ==
  /\ win' = [win EXCEPT ![d] = Sealed(d, x, s, worker[c].fresh, denied)]
  /\ Become(c, Returned(c, d, s, denied))
  /\ UNCHANGED abandoned

\* The call waits for the wallet.
Wait(c, d, x, pc) ==
  /\ win' = [win EXCEPT ![d] = x]
  /\ Become(c, [worker[c] EXCEPT
        !.pc = pc, !.at = d, !.grant = NotOpen, !.reused = FALSE,
        !.snap = IF pc = "create" THEN x ELSE NewWindow])
  /\ UNCHANGED abandoned

\* The call throws: a consumer reports its events as failed, a synchronous
\* caller gets the error.
Throw(c, d, x) ==
  /\ win' = [win EXCEPT ![d] = x]
  /\ Become(c, IF worker[c].orphan \/ worker[c].sync THEN NoWorker
               ELSE [worker[c] EXCEPT
                      !.pc = "failed", !.todo = {}, !.at = NoWindow, !.snap = NewWindow,
                      !.grant = NotOpen, !.reused = FALSE, !.tried = 0])
  /\ abandoned' = abandoned \cup (IF worker[c].sync THEN worker[c].fresh ELSE {})

\* Single applies share one opening; batches open for themselves.
Opening(d) == \E u \in Workers :
  worker[u].sync /\ worker[u].at = d /\ worker[u].pc = "create"

Open(c, d, x) ==
  IF worker[c].sync /\ Opening(d) THEN Wait(c, d, x, "join") ELSE Wait(c, d, x, "create")

\* A call runs: it commits without waiting, is short of money, or needs a first
\* reservation.  A batch that has staged a free event by then starts over once
\* the reservation is there.
Run(c, d, x) ==
  LET batch == worker[c].fresh
      need == Priced(d, x, batch)
  IN  \/ Funded(x, need) /\ Commit(c, d, x, x, {})
      \/ ~Funded(x, need) /\ x.open /\ Wait(c, d, x, "grow")
      \/ ~Funded(x, need) /\ ~x.open /\ Open(c, d, x)
      \/ /\ ~Funded(x, need) /\ ~x.open /\ Unseen(x, batch) # need
         /\ Wait(c, d, x, "recreate")

ApplyBatch(c, d) ==
  /\ worker[c].pc = "apply" /\ d \in worker[c].todo
  /\ Run(c, d, win[d])
  /\ UNCHANGED <<queue, wallet, reports, published, old, overtaken, left>>

\* The wallet opens the reservation, or finds it open.
CreateReservation(c) ==
  LET d == worker[c].at
  IN  /\ worker[c].pc \in {"create", "recreate"} /\ worker[c].grant = NotOpen
      /\ \/ /\ wallet[d] # NotOpen
            /\ Become(c, [worker[c] EXCEPT !.grant = wallet[d], !.reused = TRUE])
            /\ UNCHANGED wallet
         \/ /\ wallet[d] = NotOpen
            /\ \E amount \in Amounts :
                 /\ wallet' = [wallet EXCEPT ![d] = amount]
                 /\ Become(c, [worker[c] EXCEPT !.grant = amount])
      /\ UNCHANGED <<queue, win, reports, published, old, abandoned, overtaken, left>>

\* persistBootstrapReservation
Opened(x, grant, reused) ==
  [x EXCEPT !.open = TRUE, !.alloc = grant, !.consumed = IF reused THEN @ ELSE 0]

\* The window has moved while the call waited: a batch's draft is older than the
\* window, a denial is sealed over an answer, or books in use are reset.
Overtaken(c, d) ==
  LET s == worker[c].snap
  IN  \/ /\ worker[c].pc = "create" /\ ~worker[c].sync
         /\ (s.idem # win[d].idem \/ s.counted # win[d].counted)
      \/ worker[c].sync /\ worker[c].grant = 0 /\ s.idem # win[d].idem
      \/ ~worker[c].reused /\ win[d].open

\* The wallet's answer: the row is written, and the call goes on.
ReservationCreated(c) ==
  LET d == worker[c].at
      x == Opened(win[d], worker[c].grant, worker[c].reused)
      s == worker[c].snap
      need == Priced(d, s, worker[c].fresh)
  IN  /\ worker[c].pc \in {"create", "recreate"} /\ worker[c].grant # NotOpen
      /\ overtaken' = overtaken \cup (IF Overtaken(c, d) THEN {d} ELSE {})
      /\ \/ /\ worker[c].sync
            /\ IF worker[c].grant = 0
               THEN Commit(c, d, x, s, need)
               ELSE Run(c, d, x)
         \/ /\ ~worker[c].sync /\ worker[c].pc = "create"
            /\ IF worker[c].grant = 0
               THEN IF Cardinality(need) = 1 THEN Commit(c, d, x, s, need)
                    ELSE Wait(c, d, x, "recreate")
               ELSE IF Funded(x, need) THEN Commit(c, d, x, s, {}) ELSE Wait(c, d, x, "grow")
         \/ /\ worker[c].pc = "recreate"
            /\ IF worker[c].grant > 0 /\ Funded(x, Priced(d, x, worker[c].fresh))
               THEN Commit(c, d, x, x, {}) ELSE Throw(c, d, x)
      /\ UNCHANGED <<queue, wallet, reports, published, old, left>>

\* A single apply that met another's opening: it goes on if that went well.
Joined(c) ==
  LET d == worker[c].at
  IN  /\ worker[c].pc = "join" /\ ~Opening(d)
      /\ IF win[d].open THEN Run(c, d, win[d]) ELSE Throw(c, d, win[d])
      /\ UNCHANGED <<queue, wallet, reports, published, old, overtaken, left>>

\* Fault: the policy's cap is not looked at.
GrowsPastCap(d) == wallet[d] = win[d].alloc
MayGrow(d) == wallet[d] = win[d].alloc /\ win[d].alloc < MaxAlloc

\* A flush has grown the reservation, perhaps not by enough.  What still does
\* not fit is denied once growth was tried for it.
Grown(c) ==
  LET d == worker[c].at
      tried == worker[c].tried + 1
      rerun(x) ==
        LET need == Priced(d, x, worker[c].fresh)
            short == Cardinality(need) - Room(x)
        IN  \/ Funded(x, need) /\ Commit(c, d, x, x, {})
            \/ /\ ~Funded(x, need) /\ short <= tried
               /\ \E denied \in kSubset(short, need) : Commit(c, d, x, x, denied)
            \/ /\ short > tried
               /\ win' = [win EXCEPT ![d] = x]
               /\ Become(c, [worker[c] EXCEPT !.tried = tried]) /\ UNCHANGED abandoned
  IN  /\ worker[c].pc = "grow"
      /\ \/ rerun(win[d]) /\ UNCHANGED wallet
         \/ /\ MayGrow(d)
            /\ wallet' = [wallet EXCEPT ![d] = @ + 1]
            /\ rerun([win[d] EXCEPT !.alloc = @ + 1])
      /\ UNCHANGED <<queue, reports, published, old, overtaken, left>>

\* Growth is not possible now: another flush is under way, or the window waits
\* for an operator.
NoGrowth(c) ==
  /\ worker[c].pc = "grow"
  /\ \/ /\ worker[c].sync
        /\ Commit(c, worker[c].at, win[worker[c].at], win[worker[c].at],
                  Priced(worker[c].at, win[worker[c].at], worker[c].fresh))
     \/ ~worker[c].sync /\ Throw(c, worker[c].at, win[worker[c].at])
  /\ UNCHANGED <<queue, wallet, reports, published, old, overtaken, left>>

\* The wallet does not answer, or the object is evicted.
CallFails(c) ==
  /\ worker[c].pc \in {"create", "recreate", "grow"}
  /\ Spend("extras")
  /\ Throw(c, worker[c].at, win[worker[c].at])
  /\ UNCHANGED <<queue, wallet, reports, published, old, overtaken>>

\* A close: what was consumed is captured and the rest given back.  It is put
\* off while a growth is under way; a call that met an opening goes on at once
\* when it ends.
Busy(d) == \E c \in Workers :
  worker[c].at = d /\ (worker[c].pc = "grow" \/ (worker[c].pc = "join" /\ ~Opening(d)))

Close(d) ==
  /\ win[d].open /\ ~Busy(d) /\ Spend("extras")
  /\ win' = [win EXCEPT ![d].open = FALSE, ![d].alloc = 0, ![d].consumed = 0,
                        ![d].paid = @ + win[d].consumed]
  /\ wallet' = [wallet EXCEPT ![d] = NotOpen]
  /\ UNCHANGED <<queue, worker, reports, published, old, abandoned, overtaken>>

-----------------------------------------------------------------------------
(* Outcomes.                                                               *)

Report(outcome, events, facts) ==
  [state |-> [e \in Events |-> IF e \in events THEN outcome[e] ELSE "none"],
   facts |-> facts, delivery |-> 1]

\* A message is processed if any window allowed it.
Outcome(c) ==
  LET w == worker[c]
  IN  CASE w.pc = "late" -> Report([e \in w.late |-> "rejected"], w.late, {})
        [] w.pc = "report" ->
             Report([e \in w.fresh |-> IF \E d \in Windows : <<d, e>> \in w.facts
                                       THEN "processed" ELSE "rejected"], w.fresh, w.facts)
        [] OTHER -> Report([e \in w.fresh |-> "failed"], w.fresh, {})

Reporting(c) == worker[c].pc \in {"late", "report", "failed"}

\* The outcomes are in the reporting queue: the messages are acknowledged, or
\* the rest of the batch is worked on.
EnqueueOutcomes(c) ==
  /\ Reporting(c)
  /\ reports' = reports \cup {Outcome(c)}
  /\ Become(c, IF worker[c].pc = "late" /\ worker[c].fresh # {}
               THEN [worker[c] EXCEPT !.pc = "apply"] ELSE NoWorker)
  /\ UNCHANGED <<queue, win, wallet, published, old, abandoned, overtaken, left>>

\* Fault: the messages are acknowledged although their outcome is not queued.
Acknowledged(c) == [e \in Events |-> 0]
\* What is not finalized: everything while the old events are being reported,
\* the fresh events after that.
Unfinalized(c) ==
  [e \in Events |-> IF worker[c].pc = "late" \/ e \in worker[c].fresh
                    THEN worker[c].held[e] ELSE 0]

\* The reporting queue refuses the outcomes, or takes them and seems not to:
\* messages that are not finalized are delivered again.
EnqueueFails(c) ==
  /\ Reporting(c) /\ Spend("extras")
  /\ reports' \in {reports, reports \cup {Outcome(c)}}
  /\ Return(Unfinalized(c), IF worker[c].sync THEN worker[c].fresh ELSE {})
  /\ Become(c, NoWorker)
  /\ UNCHANGED <<win, wallet, published, old, overtaken>>

\* A consumer dies: its messages come back, its call to the window runs on.
Die(c) ==
  /\ ~Idle(c) /\ ~worker[c].orphan /\ Spend("extras")
  /\ Return(worker[c].held, IF worker[c].sync THEN worker[c].fresh ELSE {})
  /\ Become(c, IF worker[c].at # NoWindow
               THEN [worker[c] EXCEPT !.orphan = TRUE, !.held = [e \in Events |-> 0]]
               ELSE NoWorker)
  /\ UNCHANGED <<win, wallet, reports, published, old, overtaken>>

\* The reporting consumer publishes facts first and the status of events last.
Publish(r) ==
  /\ reports' = reports \ {r}
  /\ published' =
       [facts |-> published.facts \cup r.facts,
        status |-> [e \in Events |-> published.status[e] \cup ({r.state[e]} \ {"none"})]]
  /\ UNCHANGED <<queue, worker, win, wallet, old, abandoned, overtaken, left>>

PublishFails(r) ==
  /\ Spend("extras")
  /\ published' \in {published, [published EXCEPT !.facts = @ \cup r.facts]}
  /\ \/ /\ r.delivery < MaxDeliveries
        /\ reports' = (reports \ {r}) \cup {[r EXCEPT !.delivery = @ + 1]}
        /\ UNCHANGED abandoned
     \/ /\ r.delivery = MaxDeliveries
        /\ reports' = reports \ {r}
        /\ abandoned' = abandoned \cup {e \in Events : r.state[e] # "none"}
  /\ UNCHANGED <<queue, worker, win, wallet, old, overtaken>>

-----------------------------------------------------------------------------
(* Time.                                                                   *)

Age(e) ==
  /\ e \notin old /\ Spend("extras")
  /\ old' = old \cup {e}
  /\ UNCHANGED <<queue, worker, win, wallet, reports, published, abandoned, overtaken>>

\* Seals are kept a week longer than an event is accepted, which is longer than
\* a message is worked on.
Forget(d, e) ==
  /\ e \in old /\ win[d].idem[e] # "none"
  /\ \A c \in Workers : e \notin worker[c].fresh
  /\ win' = [win EXCEPT ![d].idem[e] = "none"]
  /\ UNCHANGED <<queue, worker, wallet, reports, published, old, abandoned, overtaken, left>>

-----------------------------------------------------------------------------
WorkerStep(c) ==
  \/ \E d \in Windows : ApplyBatch(c, d)
  \/ CreateReservation(c) \/ ReservationCreated(c) \/ Joined(c)
  \/ Grown(c) \/ NoGrowth(c)
  \/ EnqueueOutcomes(c)

Next ==
  \/ \E e \in Events : Send(e) \/ Replay(e) \/ Age(e)
  \/ \E c \in Workers :
       \/ Take(c) \/ WorkerStep(c)
       \/ CallFails(c) \/ EnqueueFails(c) \/ Die(c)
  \/ \E c \in Workers, e \in Events, d \in Windows : IngestFeatureSync(c, e, d)
  \/ \E d \in Windows : Close(d)
  \/ \E d \in Windows, e \in Events : Forget(d, e)
  \/ \E r \in reports : Publish(r) \/ PublishFails(r)

Spec == Init /\ [][Next]_vars

-----------------------------------------------------------------------------
(* Properties.                                                             *)

\* However often an event is sent, delivered, replayed or raced by a
\* synchronous request, a window counts it at most once, and spends money for
\* it exactly when it counts it.
CountedOnce == \A d \in Windows \ overtaken :
  /\ \A e \in Events : win[d].counted[e] <= 1
  /\ \A e \in Events : win[d].idem[e] = "allowed" => win[d].counted[e] = 1
  /\ win[d].paid + win[d].consumed
       = Cardinality({e \in Events : <<d, e>> \notin Free /\ win[d].counted[e] = 1})

\* What a window has counted is published, or will be: a report is waiting to
\* be published, or a message of the event is waiting or worked on - unless
\* somebody was told otherwise (the event is published as failed, its message is
\* dead-lettered, its caller got an error), it was too old by the time it came
\* again, or its seal was overwritten.
Underway(e) ==
  \/ \E n \in Deliveries : queue[e][n] > 0
  \/ \E c \in Workers : worker[c].held[e] > 0 \/ (worker[c].sync /\ e \in worker[c].fresh)
UsageIsReported == \A d \in Windows \ overtaken, e \in Events \ (old \cup abandoned) :
  win[d].idem[e] = "allowed" =>
    \/ <<d, e>> \in published.facts \/ "failed" \in published.status[e]
    \/ \E r \in reports : <<d, e>> \in r.facts \/ r.state[e] = "failed"
    \/ Underway(e)
=============================================================================
