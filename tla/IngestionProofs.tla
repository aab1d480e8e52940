-------------------------- MODULE IngestionProofs ---------------------------
(***************************************************************************)
(* Proofs about module Ingestion, for every set of events, windows and     *)
(* workers and every bound.                                                *)
(*                                                                         *)
(* The seven steps of a call to a window come in four kinds: it commits,   *)
(* it waits, it throws, or it tries to grow once more (CallStep).  The     *)
(* steps are shown to be of these kinds once; each part of the inductive   *)
(* invariant is then kept by the kinds, and by the other actions.          *)
(***************************************************************************)
EXTENDS Ingestion, FiniteSetTheorems, TLAPS

Waiting == {"create", "recreate", "join", "grow"}

\* A worker by itself: it is at a window exactly while it waits there, only a call
\* outlives its consumer, what is reported has been applied everywhere, and a
\* consumer holds a message of every event it works on.  A synchronous request has
\* one event; the draft it denies if the wallet is empty has not seen it.
Sound(w) ==
  /\ w.at # NoWindow <=> w.pc \in Waiting
  /\ w.orphan => w.pc \in Waiting
  /\ w.pc = "idle" => w.fresh = {}
  /\ w.pc = "report" => w.todo = {}
  /\ \A f \in w.facts : f[2] \in w.fresh
  /\ ~w.orphan /\ ~w.sync => \A e \in w.fresh : w.held[e] > 0
  /\ w.sync => w.pc # "recreate" /\ \A e, f \in w.fresh : e = f
  /\ w.sync /\ w.pc = "create" =>
       \A e \in w.fresh : w.snap.idem[e] = "none" /\ <<w.at, e>> \notin Free

WorkersAreSound == \A c \in Workers : Sound(worker[c])

\* Growth is tried under an open reservation.
GrowthIsOpen == \A c \in Workers : worker[c].pc = "grow" => win[worker[c].at].open

\* A closed reservation has nothing consumed.
ClosedIsEmpty == \A d \in Windows : ~win[d].open => win[d].consumed = 0

\* The meter counts what is sealed, once; the seal of a counted event is gone only
\* when the event is too old to be worked on.
SealsCount == \A d \in Windows \ overtaken, e \in Events :
  /\ win[d].counted[e] \in {0, 1}
  /\ win[d].idem[e] = "allowed" => win[d].counted[e] = 1
  /\ win[d].counted[e] = 1 /\ win[d].idem[e] # "allowed" =>
       e \in old /\ \A c \in Workers : e \notin worker[c].fresh

Spent(d) == {e \in Events : <<d, e>> \notin Free /\ win[d].counted[e] = 1}
BooksCount == \A d \in Windows \ overtaken :
  win[d].paid + win[d].consumed = Cardinality(Spent(d))

\* A fact is reported with the state of its event.
ReportsCarryState == \A r \in reports : \A f \in r.facts : r.state[f[2]] # "none"

\* A worker that will report what window d says of an event, or that it failed.
Answers(c, d, e) ==
  /\ ~worker[c].orphan /\ e \in worker[c].fresh
  /\ worker[c].pc = "failed" \/ d \in worker[c].todo \/ <<d, e>> \in worker[c].facts
Answered(d, e) ==
  \/ <<d, e>> \in published.facts \/ "failed" \in published.status[e]
  \/ \E r \in reports : <<d, e>> \in r.facts \/ r.state[e] = "failed"
  \/ \E n \in Deliveries : queue[e][n] > 0
  \/ \E c \in Workers : Answers(c, d, e)
\* The window has counted the event, or a call may count it whose consumer is dead.
Counting(d, e) ==
  \/ win[d].idem[e] = "allowed"
  \/ /\ win[d].idem[e] = "none"
     /\ \E c \in Workers : worker[c].orphan /\ worker[c].at = d /\ e \in worker[c].fresh
UsageIsAnswered == \A d \in Windows \ overtaken, e \in Events \ (old \cup abandoned) :
  Counting(d, e) => Answered(d, e)

IInv ==
  /\ TypeOK /\ WorkersAreSound /\ GrowthIsOpen /\ ClosedIsEmpty
  /\ SealsCount /\ BooksCount
  /\ ReportsCarryState /\ UsageIsAnswered

-----------------------------------------------------------------------------
(* The operators.                                                          *)

LEMMA Constants ==
  /\ NoWindow \notin Windows /\ Free \subseteq Windows \X Events /\ IsFiniteSet(Events)
  /\ MaxAlloc \in Nat /\ Amounts \subseteq 0 .. MaxAlloc /\ MaxDeliveries \in Nat \ {0}
  /\ MaxSends \in Nat /\ MaxExtras \in Nat
BY ConstantsAssumption

\* A set of events has a size.
LEMMA SizeOfEvents ==
  ASSUME NEW S \in SUBSET Events
  PROVE  IsFiniteSet(S) /\ Cardinality(S) \in Nat
BY Constants, FS_Subset, FS_CardinalityType

\* Sizes of sets of events that share none add up.
LEMMA SizesAddUp ==
  ASSUME NEW S \in SUBSET Events, NEW T \in SUBSET Events, S \cap T = {}
  PROVE  Cardinality(S \cup T) = Cardinality(S) + Cardinality(T)
<1>1. Cardinality(S \cup T) = Cardinality(S) + Cardinality(T) - Cardinality(S \cap T)
  BY SizeOfEvents, FS_Union
<1>2. Cardinality(S \cap T) = 0
  BY FS_EmptySet
<1>. QED
  BY <1>1, <1>2, SizeOfEvents

LEMMA FreshTypes == NewWindow \in Window /\ NoWorker \in Worker /\ Sound(NoWorker)
<1>1. NewWindow \in Window
  BY Constants DEF NewWindow, Window
<1>. QED
  BY <1>1, Constants DEF NoWorker, Worker, NotOpen, Sound, Waiting, Deliveries

\* What a batch prices it has not seen, and nothing else is staged.
LEMMA PricedIsUnseen ==
  ASSUME NEW d, NEW s, NEW batch
  PROVE  Priced(d, s, batch) \subseteq Unseen(s, batch) /\ Unseen(s, batch) \subseteq batch
BY DEF Priced, Unseen

\* A committed draft leaves a window.
LEMMA SealedType ==
  ASSUME NEW d \in Windows, NEW x \in Window, NEW s \in Window,
         NEW batch \in SUBSET Events, NEW denied
  PROVE  Sealed(d, x, s, batch, denied) \in Window
<1> DEFINE new == Unseen(s, batch)
           counts == new \ denied
<1>1. Priced(d, s, counts) \in SUBSET Events
  BY DEF Priced, Unseen
<1>2. Cardinality(Priced(d, s, counts)) \in Nat
  BY <1>1, SizeOfEvents
<1>3. [e \in Events |-> IF e \in counts THEN "allowed"
                         ELSE IF e \in new THEN "denied" ELSE x.idem[e]]
        \in [Events -> {"none", "allowed", "denied"}]
  BY DEF Window
<1>4. (IF counts = {} THEN x.counted
       ELSE [e \in Events |-> s.counted[e] + (IF e \in counts THEN 1 ELSE 0)]) \in [Events -> Nat]
  BY DEF Window
<1>5. PICK idem \in [Events -> {"none", "allowed", "denied"}], counted \in [Events -> Nat],
           consumed \in Nat :
        Sealed(d, x, s, batch, denied) =
          [x EXCEPT !.idem = idem, !.counted = counted, !.consumed = consumed]
  <2>1. x.consumed + Cardinality(Priced(d, s, counts)) \in Nat
    BY <1>2 DEF Window
  <2>. QED
    BY <2>1, <1>3, <1>4 DEF Sealed
<1>. QED
  BY <1>5 DEF Window

\* The fields of a committed window.
LEMMA SealedRow ==
  ASSUME NEW d \in Windows, NEW x \in Window, NEW s \in Window,
         NEW batch \in SUBSET Events, NEW denied
  PROVE  /\ Sealed(d, x, s, batch, denied).open = x.open
         /\ Sealed(d, x, s, batch, denied).paid = x.paid
BY DEF Sealed, Window

LEMMA SealedSpends ==
  ASSUME NEW d \in Windows, NEW x \in Window, NEW s \in Window,
         NEW batch \in SUBSET Events, NEW denied
  PROVE  Sealed(d, x, s, batch, denied).consumed
           = x.consumed + Cardinality(Priced(d, s, Unseen(s, batch) \ denied))
BY DEF Sealed, Window

LEMMA SealedKeys ==
  ASSUME NEW d \in Windows, NEW x \in Window, NEW s \in Window,
         NEW batch \in SUBSET Events, NEW denied, NEW e \in Events
  PROVE  Sealed(d, x, s, batch, denied).idem[e] =
           IF e \in Unseen(s, batch) \ denied THEN "allowed"
           ELSE IF e \in Unseen(s, batch) THEN "denied" ELSE x.idem[e]
BY DEF Sealed, Window

LEMMA SealedMeter ==
  ASSUME NEW d \in Windows, NEW x \in Window, NEW s \in Window,
         NEW batch \in SUBSET Events, NEW denied, NEW e \in Events
  PROVE  Sealed(d, x, s, batch, denied).counted[e] =
           IF Unseen(s, batch) \ denied = {} THEN x.counted[e]
           ELSE s.counted[e] + (IF e \in Unseen(s, batch) \ denied THEN 1 ELSE 0)
BY DEF Sealed, Window

-----------------------------------------------------------------------------
(* The kinds of steps of a call.                                           *)

\* The worker's call is at the window.
At(c, d) ==
  \/ worker[c].pc = "apply" /\ d \in worker[c].todo
  \/ worker[c].pc \in Waiting /\ worker[c].at = d

\* The window as it is, or with a reservation opened or grown.
Follows(d, x) ==
  /\ x \in Window
  /\ x.idem = win[d].idem /\ x.counted = win[d].counted /\ x.paid = win[d].paid
  /\ win[d].open => x.open
  /\ ~x.open => x.consumed = 0
  /\ d \notin overtaken' => x.consumed = win[d].consumed

\* A draft is committed: it denies only what has a price, spends only from an open
\* reservation, and was read from the window as it is.
Commits(c, d, x) == \E s \in Window, denied \in SUBSET Events :
  /\ Commit(c, d, x, s, denied)
  /\ denied \subseteq Priced(d, s, worker[c].fresh)
  /\ x.open \/ Priced(d, s, worker[c].fresh) = {}
  /\ d \notin overtaken' =>
       /\ s.idem = x.idem
       /\ s.counted = x.counted \/ Unseen(s, worker[c].fresh) \ denied = {}

Waits(c, d, x) == \E pc \in Waiting :
  /\ Wait(c, d, x, pc)
  /\ pc = "grow" => x.open
  /\ worker[c].sync => pc # "recreate"
  /\ worker[c].sync /\ pc = "create" =>
       \A e \in worker[c].fresh : x.idem[e] = "none" /\ <<d, e>> \notin Free

Retries(c, d, x) == 
  /\ worker[c].pc = "grow"
  /\ win' = [win EXCEPT ![d] = x]
  /\ Become(c, [worker[c] EXCEPT !.tried = @ + 1])
  /\ UNCHANGED abandoned

CallStep(c) ==
  /\ \E d \in Windows : \E x \in Window :
       /\ At(c, d) /\ Follows(d, x)
       /\ Commits(c, d, x) \/ Waits(c, d, x) \/ Throw(c, d, x) \/ Retries(c, d, x)
  /\ overtaken \subseteq overtaken' /\ overtaken' \subseteq Windows
  /\ wallet' \in [Windows -> {NotOpen} \cup 0 .. MaxAlloc]
  /\ left' \in Bounds
  /\ UNCHANGED <<queue, reports, published, old>>

\* A call that waits is at a window.
LEMMA WaitingIsAt ==
  ASSUME TypeOK, WorkersAreSound, NEW c \in Workers, worker[c].pc \in Waiting
  PROVE  worker[c].at \in Windows /\ At(c, worker[c].at)
BY DEF TypeOK, WorkersAreSound, Sound, Worker, At

\* The window as it is.
LEMMA UnmovedFollows ==
  ASSUME TypeOK, ClosedIsEmpty, NEW d \in Windows
  PROVE  Follows(d, win[d])
BY DEF TypeOK, ClosedIsEmpty, Follows

\* A call that runs commits or waits.
LEMMA RunCommitsOrWaits ==
  ASSUME TypeOK, WorkersAreSound, NEW c \in Workers, NEW d \in Windows,
         NEW x \in Window, Run(c, d, x)
  PROVE  Commits(c, d, x) \/ Waits(c, d, x)
<1> DEFINE batch == worker[c].fresh
           need == Priced(d, x, batch)
<1>1. need \subseteq Unseen(x, batch) /\ Unseen(x, batch) \subseteq batch
  BY PricedIsUnseen
<1>2. batch \subseteq Events /\ worker[c].sync \in BOOLEAN
  BY DEF TypeOK, Worker
<1>3. ~Funded(x, need) => need # {}
  BY DEF Funded
<1>4. worker[c].sync /\ need # {} => batch = need /\ Unseen(x, batch) = need
  <2>1. worker[c].sync => \A e, f \in batch : e = f
    BY DEF WorkersAreSound, Sound
  <2>. HIDE DEF batch, need
  <2>. QED
    BY <1>1, <2>1
<1>5. CASE Funded(x, need) /\ Commit(c, d, x, x, {})
  <2>1. x.open \/ need = {}
    BY <1>5 DEF Funded
  <2>. QED
    BY <1>5, <2>1 DEF Commits
<1>6. CASE ~Funded(x, need) /\ x.open /\ Wait(c, d, x, "grow")
  BY <1>6 DEF Waits, Waiting
<1>7. CASE ~Funded(x, need) /\ ~x.open /\ Open(c, d, x)
  <2>1. worker[c].sync => \A e \in batch : x.idem[e] = "none" /\ <<d, e>> \notin Free
    BY <1>3, <1>4, <1>7 DEF Priced, Unseen
  <2>2. Wait(c, d, x, "join") \/ Wait(c, d, x, "create")
    BY <1>7 DEF Open
  <2>. QED
    BY <2>1, <2>2 DEF Waits, Waiting
<1>8. CASE ~Funded(x, need) /\ ~x.open /\ Unseen(x, batch) # need /\ Wait(c, d, x, "recreate")
  BY <1>3, <1>4, <1>8 DEF Waits, Waiting
<1>. QED
  BY <1>5, <1>6, <1>7, <1>8 DEF Run

\* The window itself may be taken for the draft.
LEMMA CommitsAsItIs ==
  ASSUME TypeOK, NEW c \in Workers, NEW d \in Windows, NEW x \in Window, x.open,
         NEW denied \in SUBSET Events, denied \subseteq Priced(d, x, worker[c].fresh),
         Commit(c, d, x, x, denied)
  PROVE  Commits(c, d, x)
BY DEF Commits

LEMMA ApplyBatchIsCall ==
  ASSUME IInv, NEW c \in Workers, NEW d \in Windows, ApplyBatch(c, d)
  PROVE  CallStep(c)
<1>1. At(c, d) /\ Follows(d, win[d]) /\ win[d] \in Window
  BY UnmovedFollows DEF ApplyBatch, At, IInv, TypeOK
<1>2. Commits(c, d, win[d]) \/ Waits(c, d, win[d])
  BY <1>1, RunCommitsOrWaits DEF ApplyBatch, IInv
<1>. QED
  BY <1>1, <1>2 DEF CallStep, ApplyBatch, IInv, TypeOK

LEMMA JoinedIsCall ==
  ASSUME IInv, NEW c \in Workers, Joined(c)
  PROVE  CallStep(c)
<1> DEFINE d == worker[c].at
<1>1. d \in Windows /\ At(c, d)
  BY WaitingIsAt DEF Joined, Waiting, IInv
<1>2. Follows(d, win[d]) /\ win[d] \in Window
  BY <1>1, UnmovedFollows DEF IInv, TypeOK
<1>3. Run(c, d, win[d]) \/ Throw(c, d, win[d])
  BY DEF Joined
<1>4. Commits(c, d, win[d]) \/ Waits(c, d, win[d]) \/ Throw(c, d, win[d])
  BY <1>1, <1>2, <1>3, RunCommitsOrWaits DEF IInv
<1>5. UNCHANGED <<queue, wallet, reports, published, old, overtaken, left>>
  BY DEF Joined
<1>. QED
  BY <1>1, <1>2, <1>4, <1>5 DEF CallStep, IInv, TypeOK

\* The window with a reservation.
LEMMA OpenedFollows ==
  ASSUME IInv, NEW c \in Workers, ReservationCreated(c)
  PROVE  LET d == worker[c].at
             x == Opened(win[d], worker[c].grant, worker[c].reused)
         IN  /\ d \in Windows /\ At(c, d) /\ x \in Window /\ x.open /\ Follows(d, x)
             /\ overtaken' = overtaken \cup (IF Overtaken(c, d) THEN {d} ELSE {})
<1> DEFINE d == worker[c].at
           x == Opened(win[d], worker[c].grant, worker[c].reused)
<1>1. /\ worker[c].pc \in {"create", "recreate"} /\ worker[c].grant # NotOpen
      /\ overtaken' = overtaken \cup (IF Overtaken(c, d) THEN {d} ELSE {})
  BY DEF ReservationCreated
<1>2. d \in Windows /\ At(c, d)
  BY <1>1, WaitingIsAt DEF Waiting, IInv
<1>3. win[d] \in Window /\ worker[c].grant \in 0 .. MaxAlloc /\ worker[c].reused \in BOOLEAN
  BY <1>1, <1>2 DEF IInv, TypeOK, Worker
<1>4. /\ x \in Window /\ x.open
      /\ x.idem = win[d].idem /\ x.counted = win[d].counted /\ x.paid = win[d].paid
      /\ x.consumed = IF worker[c].reused THEN win[d].consumed ELSE 0
  BY <1>3 DEF Opened, Window
<1>5. d \notin overtaken' /\ ~worker[c].reused => win[d].consumed = 0
  BY <1>1, <1>2 DEF Overtaken, IInv, ClosedIsEmpty
<1>. QED
  BY <1>1, <1>2, <1>4, <1>5 DEF Follows

LEMMA ReservationCreatedIsCall ==
  ASSUME IInv, NEW c \in Workers, ReservationCreated(c)
  PROVE  CallStep(c)
<1> DEFINE d == worker[c].at
           x == Opened(win[d], worker[c].grant, worker[c].reused)
           s == worker[c].snap
           batch == worker[c].fresh
           need == Priced(d, s, batch)
<1>1. /\ d \in Windows /\ At(c, d) /\ x \in Window /\ x.open /\ Follows(d, x)
      /\ overtaken' = overtaken \cup (IF Overtaken(c, d) THEN {d} ELSE {})
  BY OpenedFollows
<1>2. s \in Window /\ batch \subseteq Events /\ need \in SUBSET Events /\ worker[c].sync \in BOOLEAN
  BY PricedIsUnseen DEF IInv, TypeOK, Worker
<1>3. x.idem = win[d].idem /\ x.counted = win[d].counted
  BY <1>1 DEF Follows
<1>4. Commits(c, d, x) \/ Waits(c, d, x) \/ Throw(c, d, x)
  <2>1. CASE worker[c].sync /\ worker[c].grant = 0 /\ Commit(c, d, x, s, need)
    <3>1. worker[c].pc = "create"
      BY <2>1 DEF ReservationCreated, IInv, WorkersAreSound, Sound
    <3>2. Unseen(s, batch) \ need = {}
      BY <2>1, <3>1 DEF IInv, WorkersAreSound, Sound, Unseen, Priced
    <3>3. d \notin overtaken' => s.idem = x.idem
      BY <1>1, <1>3, <2>1 DEF Overtaken
    <3>. QED
      BY <1>1, <1>2, <2>1, <3>2, <3>3 DEF Commits
  <2>2. CASE worker[c].sync /\ Run(c, d, x)
    BY <1>1, <2>2, RunCommitsOrWaits DEF IInv
  <2>3. CASE /\ ~worker[c].sync /\ worker[c].pc = "create"
             /\ Commit(c, d, x, s, need) \/ Commit(c, d, x, s, {})
    <3>1. d \notin overtaken' => s.idem = x.idem /\ s.counted = x.counted
      BY <1>1, <1>3, <2>3 DEF Overtaken
    <3>2. PICK denied \in {need, {}} : Commit(c, d, x, s, denied)
      BY <2>3
    <3>. QED
      BY <1>1, <1>2, <3>1, <3>2 DEF Commits
  <2>4. CASE /\ ~worker[c].sync
             /\ Wait(c, d, x, "recreate") \/ Wait(c, d, x, "grow")
    BY <1>1, <2>4 DEF Waits, Waiting
  <2>5. CASE Commit(c, d, x, x, {}) \/ Throw(c, d, x)
    BY <1>1, <2>5, CommitsAsItIs DEF IInv
  <2>. QED
    BY <2>1, <2>2, <2>3, <2>4, <2>5 DEF ReservationCreated
<1>5. UNCHANGED <<queue, wallet, reports, published, old, left>>
  BY DEF ReservationCreated
<1>6. overtaken \subseteq overtaken' /\ overtaken' \subseteq Windows
  BY <1>1 DEF IInv, TypeOK
<1>. QED
  BY <1>1, <1>4, <1>5, <1>6 DEF CallStep, IInv, TypeOK

\* A window whose reservation has grown.
LEMMA GrownFollows ==
  ASSUME IInv, NEW d \in Windows, MayGrow(d), overtaken' = overtaken
  PROVE  LET x == [win[d] EXCEPT !.alloc = @ + 1]
         IN  x \in Window /\ Follows(d, x) /\ x.open = win[d].open
<1> DEFINE x == [win[d] EXCEPT !.alloc = @ + 1]
<1>1. win[d] \in Window /\ win[d].alloc + 1 \in 0 .. MaxAlloc
  BY Constants DEF IInv, TypeOK, MayGrow, Window
<1>2. /\ x \in Window /\ x.open = win[d].open /\ x.consumed = win[d].consumed
      /\ x.idem = win[d].idem /\ x.counted = win[d].counted /\ x.paid = win[d].paid
  BY <1>1 DEF Window
<1>. QED
  BY <1>2 DEF Follows, IInv, ClosedIsEmpty

LEMMA GrownIsCall ==
  ASSUME IInv, NEW c \in Workers, Grown(c)
  PROVE  CallStep(c)
<1> DEFINE d == worker[c].at
           tried == worker[c].tried + 1
           more == [win[d] EXCEPT !.alloc = @ + 1]
           rerun(x) ==
             LET need == Priced(d, x, worker[c].fresh)
                 short == Cardinality(need) - Room(x)
             IN  \/ Funded(x, need) /\ Commit(c, d, x, x, {})
                 \/ /\ ~Funded(x, need) /\ short <= tried
                    /\ \E denied \in kSubset(short, need) : Commit(c, d, x, x, denied)
                 \/ /\ short > tried
                    /\ win' = [win EXCEPT ![d] = x]
                    /\ Become(c, [worker[c] EXCEPT !.tried = tried]) /\ UNCHANGED abandoned
<1>1. /\ worker[c].pc = "grow"
      /\ UNCHANGED <<queue, reports, published, old, overtaken, left>>
      /\ \/ rerun(win[d]) /\ UNCHANGED wallet
         \/ MayGrow(d) /\ wallet' = [wallet EXCEPT ![d] = @ + 1] /\ rerun(more)
  BY DEF Grown
<1>2. d \in Windows /\ At(c, d) /\ win[d].open /\ win[d] \in Window /\ worker[c].fresh \subseteq Events
  BY <1>1, WaitingIsAt DEF Waiting, IInv, GrowthIsOpen, TypeOK, Worker
<1>3. ASSUME NEW x \in Window, x.open, rerun(x)
      PROVE  Commits(c, d, x) \/ Retries(c, d, x)
  <2> DEFINE need == Priced(d, x, worker[c].fresh)
             short == Cardinality(need) - Room(x)
  <2>1. need \subseteq Events
    BY <1>2, PricedIsUnseen
  <2>2. CASE Commit(c, d, x, x, {})
    BY <1>2, <1>3, <2>2, CommitsAsItIs DEF IInv
  <2>3. CASE \E denied \in kSubset(short, need) : Commit(c, d, x, x, denied)
    <3>1. PICK denied \in SUBSET need : Commit(c, d, x, x, denied)
      BY <2>3 DEF kSubset
    <3>. QED
      BY <1>2, <1>3, <2>1, <3>1, CommitsAsItIs DEF IInv
  <2>4. CASE /\ win' = [win EXCEPT ![d] = x]
             /\ Become(c, [worker[c] EXCEPT !.tried = tried]) /\ UNCHANGED abandoned
    BY <1>1, <2>4 DEF Retries
  <2>. QED
    BY <1>3, <2>2, <2>3, <2>4
<1>. HIDE DEF rerun
<1>4. CASE rerun(win[d]) /\ UNCHANGED wallet
  <2>1. Commits(c, d, win[d]) \/ Retries(c, d, win[d])
    BY <1>2, <1>3, <1>4
  <2>2. Follows(d, win[d])
    BY <1>2, UnmovedFollows DEF IInv
  <2>. QED
    BY <1>1, <1>2, <1>4, <2>1, <2>2 DEF CallStep, IInv, TypeOK
<1>5. CASE MayGrow(d) /\ wallet' = [wallet EXCEPT ![d] = @ + 1] /\ rerun(more)
  <2>1. more \in Window /\ Follows(d, more) /\ more.open
    BY <1>1, <1>2, <1>5, GrownFollows
  <2>2. Commits(c, d, more) \/ Retries(c, d, more)
    BY <1>3, <1>5, <2>1
  <2>3. wallet[d] + 1 \in 0 .. MaxAlloc
    BY <1>2, <1>5, Constants DEF MayGrow, Window
  <2>4. wallet' \in [Windows -> {NotOpen} \cup 0 .. MaxAlloc]
    BY <1>5, <2>3 DEF IInv, TypeOK
  <2>. QED
    BY <1>1, <1>2, <2>1, <2>2, <2>4 DEF CallStep, IInv, TypeOK
<1>. QED
  BY <1>1, <1>4, <1>5

LEMMA NoGrowthIsCall ==
  ASSUME IInv, NEW c \in Workers, NoGrowth(c)
  PROVE  CallStep(c)
<1> DEFINE d == worker[c].at
           need == Priced(d, win[d], worker[c].fresh)
<1>1. d \in Windows /\ At(c, d) /\ win[d].open /\ win[d] \in Window
  BY WaitingIsAt DEF NoGrowth, Waiting, IInv, GrowthIsOpen, TypeOK
<1>2. Follows(d, win[d])
  BY <1>1, UnmovedFollows DEF IInv
<1>3. need \in SUBSET Events
  BY PricedIsUnseen DEF IInv, TypeOK, Worker
<1>4. Commits(c, d, win[d]) \/ Throw(c, d, win[d])
  BY <1>1, <1>3, CommitsAsItIs DEF NoGrowth, IInv
<1>5. UNCHANGED <<queue, wallet, reports, published, old, overtaken, left>>
  BY DEF NoGrowth
<1>. QED
  BY <1>1, <1>2, <1>4, <1>5 DEF CallStep, IInv, TypeOK

\* What is left of a bound.
LEMMA SpendType ==
  ASSUME TypeOK, NEW bound \in {"sends", "extras"}, Spend(bound)
  PROVE  left' \in Bounds
BY DEF TypeOK, Spend, Bounds

LEMMA CallFailsIsCall ==
  ASSUME IInv, NEW c \in Workers, CallFails(c)
  PROVE  CallStep(c)
<1> DEFINE d == worker[c].at
<1>1. d \in Windows /\ At(c, d)
  BY WaitingIsAt DEF CallFails, Waiting, IInv
<1>2. Follows(d, win[d]) /\ win[d] \in Window
  BY <1>1, UnmovedFollows DEF IInv, TypeOK
<1>3. Throw(c, d, win[d]) /\ left' \in Bounds
  BY SpendType DEF CallFails, IInv
<1>4. UNCHANGED <<queue, wallet, reports, published, old, overtaken>>
  BY DEF CallFails
<1>. QED
  BY <1>1, <1>2, <1>3, <1>4 DEF CallStep, IInv, TypeOK

-----------------------------------------------------------------------------
(* Types.                                                                  *)

\* A worker whose call is over.
MovedOn(w, pc, todo, facts) ==
  [w EXCEPT !.pc = pc, !.todo = todo, !.at = NoWindow, !.snap = NewWindow,
            !.grant = NotOpen, !.reused = FALSE, !.tried = 0, !.facts = facts]

LEMMA MovedOnType ==
  ASSUME NEW w \in Worker, NEW pc \in {"report", "apply", "failed"},
         NEW todo \in SUBSET Windows, NEW facts \in SUBSET Facts
  PROVE  /\ MovedOn(w, pc, todo, facts) \in Worker
         /\ MovedOn(w, pc, todo, facts).pc = pc
         /\ MovedOn(w, pc, todo, facts).todo = todo
         /\ MovedOn(w, pc, todo, facts).facts = facts
         /\ MovedOn(w, pc, todo, facts).at = NoWindow
         /\ MovedOn(w, pc, todo, facts).orphan = w.orphan
         /\ MovedOn(w, pc, todo, facts).sync = w.sync
         /\ MovedOn(w, pc, todo, facts).fresh = w.fresh
         /\ MovedOn(w, pc, todo, facts).held = w.held
BY FreshTypes DEF Worker, MovedOn

\* What becomes of a worker is a worker, at the windows it had or at none.
LEMMA ReturnedType ==
  ASSUME TypeOK, WorkersAreSound, NEW c \in Workers, NEW d \in Windows, NEW s \in Window, NEW denied,
         At(c, d)
  PROVE  LET w == Returned(c, d, s, denied) IN w \in Worker /\ Sound(w)
<1> DEFINE v == worker[c]
           facts == {<<d, e>> : e \in Allowed(s, v.fresh, denied)}
<1>1. v \in Worker /\ Sound(v)
  BY DEF TypeOK, WorkersAreSound
<1>2. v.fresh \subseteq Events /\ Allowed(s, v.fresh, denied) \subseteq v.fresh
  BY <1>1 DEF Worker, Allowed
<1>3. /\ v.facts \cup facts \subseteq Facts
      /\ \A f \in v.facts \cup facts : f[2] \in v.fresh
  BY <1>1, <1>2 DEF Worker, Facts, Sound
<1>4. v.todo \ {d} \subseteq Windows /\ (v.todo = {d} => v.todo \ {d} = {})
  BY <1>1 DEF Worker
<1>5. CASE v.orphan
  BY <1>5, FreshTypes DEF Returned
<1>6. CASE ~v.orphan
  <2> DEFINE w == Returned(c, d, s, denied)
  <2>. HIDE DEF facts
  <2>1. w = MovedOn(v, IF v.todo = {d} THEN "report" ELSE "apply", v.todo \ {d}, v.facts \cup facts)
    BY <1>6 DEF Returned, facts, MovedOn
  <2>2. PICK pc \in {"report", "apply"} : pc = IF v.todo = {d} THEN "report" ELSE "apply"
    OBVIOUS
  <2>3. /\ w \in Worker
        /\ w.pc = pc /\ w.todo = v.todo \ {d} /\ w.at = NoWindow /\ w.facts = v.facts \cup facts
        /\ w.orphan = v.orphan /\ w.fresh = v.fresh /\ w.sync = v.sync /\ w.held = v.held
    BY <1>1, <1>3, <1>4, <2>1, <2>2, MovedOnType
  <2>4. Sound(w)
    BY <1>1, <1>3, <1>4, <1>6, <2>2, <2>3 DEF Sound, Waiting
  <2>. QED
    BY <2>3, <2>4
<1>. QED
  BY <1>5, <1>6

\* A worker that waits for the wallet, whose call has thrown, or that tries to grow
\* again.
Paused(w, d, x, pc) ==
  [w EXCEPT !.pc = pc, !.at = d, !.grant = NotOpen, !.reused = FALSE,
            !.snap = IF pc = "create" THEN x ELSE NewWindow]
Failed(w) ==
  [w EXCEPT !.pc = "failed", !.todo = {}, !.at = NoWindow, !.snap = NewWindow,
            !.grant = NotOpen, !.reused = FALSE, !.tried = 0]
Again(w) == [w EXCEPT !.tried = @ + 1]

LEMMA WaitingType ==
  ASSUME IInv, NEW c \in Workers, NEW d \in Windows, NEW x \in Window, At(c, d),
         NEW pc \in Waiting,
         worker[c].sync => pc # "recreate",
         worker[c].sync /\ pc = "create" =>
           \A e \in worker[c].fresh : x.idem[e] = "none" /\ <<d, e>> \notin Free
  PROVE  LET w == Paused(worker[c], d, x, pc)
         IN  w \in Worker /\ Sound(w) /\ w.fresh = worker[c].fresh /\ w.orphan = worker[c].orphan
             /\ w.todo = worker[c].todo /\ w.facts = worker[c].facts /\ w.pc = pc /\ w.at = d
             /\ w.held = worker[c].held
<1> DEFINE v == worker[c]
           w == Paused(v, d, x, pc)
<1>1. v \in Worker /\ Sound(v)
  BY DEF IInv, TypeOK, WorkersAreSound
<1>2. PICK snap \in Window : snap = IF pc = "create" THEN x ELSE NewWindow
  BY FreshTypes
<1>3. w = [v EXCEPT !.pc = pc, !.at = d, !.grant = NotOpen, !.reused = FALSE, !.snap = snap]
  BY <1>2 DEF Paused
<1>. HIDE DEF w, v
<1>4. /\ w \in Worker
      /\ w.pc = pc /\ w.at = d /\ w.snap = snap /\ w.todo = v.todo /\ w.facts = v.facts
      /\ w.orphan = v.orphan /\ w.fresh = v.fresh /\ w.sync = v.sync /\ w.held = v.held
  BY <1>1, <1>3 DEF Worker, Waiting
<1>5. Sound(w)
  BY <1>1, <1>2, <1>4, Constants DEF Sound, Waiting, v
<1>. QED
  BY <1>4, <1>5 DEF w, v

LEMMA ThrownType ==
  ASSUME IInv, NEW c \in Workers
  PROVE  LET w == Failed(worker[c])
         IN  /\ w \in Worker /\ w.pc = "failed" /\ w.fresh = worker[c].fresh
             /\ w.orphan = worker[c].orphan
             /\ ~worker[c].orphan => Sound(w)
<1> DEFINE v == worker[c]
           w == Failed(v)
<1>1. v \in Worker /\ Sound(v)
  BY DEF IInv, TypeOK, WorkersAreSound
<1>. HIDE DEF v
<1>2. /\ w \in Worker
      /\ w.pc = "failed" /\ w.at = NoWindow /\ w.todo = {} /\ w.facts = v.facts
      /\ w.orphan = v.orphan /\ w.fresh = v.fresh /\ w.sync = v.sync /\ w.held = v.held
  BY <1>1, FreshTypes DEF Worker, Failed
<1>3. ~v.orphan => Sound(w)
  BY <1>1, <1>2 DEF Sound, Waiting
<1>. QED
  BY <1>2, <1>3 DEF v

LEMMA RetriedType ==
  ASSUME IInv, NEW c \in Workers
  PROVE  LET w == Again(worker[c])
         IN  w \in Worker /\ Sound(w) /\ w.fresh = worker[c].fresh /\ w.orphan = worker[c].orphan
             /\ w.todo = worker[c].todo /\ w.facts = worker[c].facts /\ w.pc = worker[c].pc
             /\ w.at = worker[c].at /\ w.held = worker[c].held
<1> DEFINE v == worker[c]
           w == Again(v)
<1>1. v \in Worker /\ Sound(v)
  BY DEF IInv, TypeOK, WorkersAreSound
<1>. HIDE DEF v
<1>2. /\ w \in Worker
      /\ w.pc = v.pc /\ w.at = v.at /\ w.todo = v.todo /\ w.facts = v.facts /\ w.snap = v.snap
      /\ w.orphan = v.orphan /\ w.fresh = v.fresh /\ w.sync = v.sync /\ w.held = v.held
  BY <1>1 DEF Worker, Again
<1>3. Sound(w)
  BY <1>1, <1>2 DEF Sound
<1>. QED
  BY <1>2, <1>3 DEF v

\* A call's step changes one window and one worker, which works on the same events
\* or on none.
LEMMA CallChanges ==
  ASSUME IInv, NEW c \in Workers, NEW d \in Windows, NEW x \in Window, At(c, d),
         Commits(c, d, x) \/ Waits(c, d, x) \/ Throw(c, d, x) \/ Retries(c, d, x)
  PROVE  /\ \E y \in Window : win' = [win EXCEPT ![d] = y]
         /\ \E w \in Worker : /\ worker' = [worker EXCEPT ![c] = w]
                              /\ Sound(w) /\ w.fresh \subseteq worker[c].fresh
         /\ abandoned \subseteq abandoned' /\ abandoned' \subseteq Events
<1>1. worker[c].fresh \subseteq Events /\ abandoned \subseteq Events
  BY DEF IInv, TypeOK, Worker
<1>2. CASE Commits(c, d, x)
  <2>1. PICK s \in Window, denied \in SUBSET Events : Commit(c, d, x, s, denied)
    BY <1>2 DEF Commits
  <2>2. Sealed(d, x, s, worker[c].fresh, denied) \in Window
    BY <1>1, SealedType
  <2>3. Returned(c, d, s, denied) \in Worker /\ Sound(Returned(c, d, s, denied))
    BY ReturnedType DEF IInv
  <2>4. Returned(c, d, s, denied).fresh \subseteq worker[c].fresh
    BY DEF Returned, NoWorker, IInv, TypeOK, Worker
  <2>. QED
    BY <1>1, <2>1, <2>2, <2>3, <2>4 DEF Commit, Become
<1>3. CASE Waits(c, d, x)
  <2>1. PICK pc \in Waiting :
          /\ win' = [win EXCEPT ![d] = x] /\ worker' = [worker EXCEPT ![c] = Paused(worker[c], d, x, pc)]
          /\ UNCHANGED abandoned
          /\ worker[c].sync => pc # "recreate"
          /\ worker[c].sync /\ pc = "create" =>
               \A e \in worker[c].fresh : x.idem[e] = "none" /\ <<d, e>> \notin Free
    BY <1>3 DEF Waits, Wait, Become, Paused
  <2>2. LET w == Paused(worker[c], d, x, pc)
        IN  w \in Worker /\ Sound(w) /\ w.fresh = worker[c].fresh
    BY <2>1, WaitingType
  <2>. QED
    BY <1>1, <2>1, <2>2
<1>4. CASE Throw(c, d, x)
  <2>1. NoWorker \in Worker /\ Sound(NoWorker) /\ NoWorker.fresh = {}
    BY FreshTypes DEF NoWorker
  <2>. QED
    BY <1>1, <1>4, <2>1, ThrownType DEF Throw, Become, Failed
<1>5. CASE Retries(c, d, x)
  BY <1>1, <1>5, RetriedType DEF Retries, Become, Again
<1>. QED
  BY <1>2, <1>3, <1>4, <1>5

LEMMA CallKeepsTypes ==
  ASSUME IInv, NEW c \in Workers, CallStep(c)
  PROVE  TypeOK' /\ WorkersAreSound'
<1>1. PICK d \in Windows, x \in Window :
        /\ At(c, d) /\ Follows(d, x)
        /\ Commits(c, d, x) \/ Waits(c, d, x) \/ Throw(c, d, x) \/ Retries(c, d, x)
  BY DEF CallStep
<1>2. PICK y \in Window : win' = [win EXCEPT ![d] = y]
  BY <1>1, CallChanges
<1>3. PICK w \in Worker : worker' = [worker EXCEPT ![c] = w] /\ Sound(w)
  BY <1>1, CallChanges
<1>4. abandoned' \subseteq Events
  BY <1>1, CallChanges
<1>. QED
  BY <1>2, <1>3, <1>4 DEF IInv, TypeOK, WorkersAreSound, CallStep

-----------------------------------------------------------------------------
(* A call and the books.                                                   *)

\* Steps that commit nothing leave the window's seals and meter alone.
LEMMA UncommittedIsTheWindow ==
  ASSUME TypeOK, NEW c \in Workers, NEW d \in Windows, NEW x,
         Waits(c, d, x) \/ Throw(c, d, x) \/ Retries(c, d, x)
  PROVE  win' = [win EXCEPT ![d] = x] /\ win'[d] = x
BY DEF Waits, Wait, Throw, Retries, TypeOK

\* A reservation stays open during a call, and a closed one stays empty.
LEMMA CallKeepsWindows ==
  ASSUME IInv, NEW c \in Workers, CallStep(c)
  PROVE  /\ \A d \in Windows : win[d].open => win'[d].open
         /\ ClosedIsEmpty'
<1>1. PICK d \in Windows, x \in Window :
        /\ At(c, d) /\ Follows(d, x)
        /\ Commits(c, d, x) \/ Waits(c, d, x) \/ Throw(c, d, x) \/ Retries(c, d, x)
  BY DEF CallStep
<1>2. (win[d].open => x.open) /\ (~x.open => x.consumed = 0)
  BY <1>1 DEF Follows
<1>3. win \in [Windows -> Window] /\ worker[c].fresh \in SUBSET Events
  BY DEF IInv, TypeOK, Worker
<1>4. ASSUME NEW y, win' = [win EXCEPT ![d] = y], y.open = x.open, ~y.open => y.consumed = 0
      PROVE  /\ \A e \in Windows : win[e].open => win'[e].open
             /\ ClosedIsEmpty'
  BY <1>2, <1>3, <1>4 DEF ClosedIsEmpty, IInv
<1>5. CASE Commits(c, d, x)
  <2>1. PICK s \in Window, denied \in SUBSET Events :
          /\ Commit(c, d, x, s, denied)
          /\ x.open \/ Priced(d, s, worker[c].fresh) = {}
    BY <1>5 DEF Commits
  <2> DEFINE y == Sealed(d, x, s, worker[c].fresh, denied)
             counts == Unseen(s, worker[c].fresh) \ denied
  <2>2. y.open = x.open /\ y.consumed = x.consumed + Cardinality(Priced(d, s, counts))
    BY <1>3, SealedRow, SealedSpends
  <2>3. Priced(d, s, counts) \subseteq Priced(d, s, worker[c].fresh)
    BY DEF Priced, Unseen
  <2>4. ~x.open => Cardinality(Priced(d, s, counts)) = 0
    <3>1. ~x.open => Priced(d, s, counts) = {}
      BY <2>1, <2>3
    <3>. QED
      BY <3>1, FS_EmptySet
  <2>5. win' = [win EXCEPT ![d] = y]
    BY <2>1 DEF Commit
  <2>6. ~y.open => y.consumed = 0
    BY <1>2, <2>2, <2>4
  <2>. HIDE DEF y
  <2>. QED
    BY <1>4, <2>2, <2>5, <2>6
<1>6. CASE Waits(c, d, x) \/ Throw(c, d, x) \/ Retries(c, d, x)
  BY <1>2, <1>4, <1>6, UncommittedIsTheWindow DEF IInv
<1>. QED
  BY <1>1, <1>5, <1>6

\* Growth goes on, or is begun, under an open reservation.
LEMMA CallKeepsGrowthOpen ==
  ASSUME IInv, NEW c \in Workers, CallStep(c)
  PROVE  GrowthIsOpen'
<1>1. PICK d \in Windows, x \in Window :
        /\ At(c, d) /\ Follows(d, x)
        /\ Commits(c, d, x) \/ Waits(c, d, x) \/ Throw(c, d, x) \/ Retries(c, d, x)
  BY DEF CallStep
<1>2. PICK w \in Worker : worker' = [worker EXCEPT ![c] = w] /\ Sound(w)
  BY <1>1, CallChanges
<1>3. worker \in [Workers -> Worker] /\ win \in [Windows -> Window]
  BY DEF IInv, TypeOK
<1>4. \A e \in Windows : win[e].open => win'[e].open
  BY CallKeepsWindows
<1>5. \A b \in Workers \ {c} : worker[b].pc = "grow" => win'[worker[b].at].open
  BY <1>4, WaitingIsAt DEF IInv, GrowthIsOpen, Waiting
<1>6. w.pc = "grow" => w.at = d /\ win'[d].open
  <2>1. CASE Commits(c, d, x)
    <3>1. PICK s, denied : worker' = [worker EXCEPT ![c] = Returned(c, d, s, denied)]
      BY <2>1 DEF Commits, Commit, Become
    <3>2. Returned(c, d, s, denied).pc # "grow"
      BY <1>3 DEF Returned, NoWorker, Worker
    <3>. QED
      BY <1>2, <1>3, <3>1, <3>2
  <2>2. CASE Waits(c, d, x)
    <3>1. PICK pc \in Waiting : Wait(c, d, x, pc) /\ (pc = "grow" => x.open)
      BY <2>2 DEF Waits
    <3>2. w = Paused(worker[c], d, x, pc)
      BY <1>2, <1>3, <3>1 DEF Wait, Become, Paused
    <3>3. w.pc = pc /\ w.at = d
      BY <1>3, <3>2 DEF Paused, Worker
    <3>. QED
      BY <1>3, <3>1, <3>3 DEF Wait
  <2>3. CASE Throw(c, d, x)
    <3>1. w = NoWorker \/ w = Failed(worker[c])
      BY <1>2, <1>3, <2>3 DEF Throw, Become, Failed
    <3>2. worker[c] \in Worker
      BY <1>3
    <3>3. NoWorker.pc = "idle" /\ Failed(worker[c]).pc = "failed"
      BY <3>2 DEF NoWorker, Failed, Worker
    <3>. QED
      BY <3>1, <3>3
  <2>4. CASE Retries(c, d, x)
    <3>1. w = Again(worker[c])
      BY <1>2, <1>3, <2>4 DEF Retries, Become, Again
    <3>2. w.pc = worker[c].pc /\ w.at = worker[c].at
      BY <1>3, <3>1 DEF Again, Worker
    <3>. QED
      BY <1>1, <1>4, <2>4, <3>2 DEF Retries, At, IInv, GrowthIsOpen
  <2>. QED
    BY <1>1, <2>1, <2>2, <2>3, <2>4
<1>. QED
  BY <1>2, <1>3, <1>5, <1>6 DEF GrowthIsOpen

\* A committed draft counts what it had not seen, which had not been counted, and
\* pays for what of it has a price.
LEMMA CommitCounts ==
  ASSUME IInv, NEW c \in Workers, NEW d \in Windows, d \notin overtaken,
         NEW x \in Window, NEW s \in Window, NEW denied,
         x.idem = win[d].idem, x.counted = win[d].counted, s.idem = x.idem,
         s.counted = x.counted \/ Unseen(s, worker[c].fresh) \ denied = {},
         Commit(c, d, x, s, denied), NEW e \in Events
  PROVE  /\ win'[d].counted[e] = IF e \in Unseen(s, worker[c].fresh) \ denied THEN 1
                                 ELSE win[d].counted[e]
         /\ win'[d].idem[e] = IF e \in Unseen(s, worker[c].fresh) \ denied THEN "allowed"
                              ELSE IF e \in Unseen(s, worker[c].fresh) THEN "denied"
                              ELSE win[d].idem[e]
         /\ e \in Unseen(s, worker[c].fresh) \ denied => win[d].counted[e] = 0
         /\ e \in Unseen(s, worker[c].fresh) => e \in worker[c].fresh /\ win[d].idem[e] = "none"
<1> DEFINE batch == worker[c].fresh
           y == Sealed(d, x, s, batch, denied)
           counts == Unseen(s, batch) \ denied
<1>1. batch \in SUBSET Events /\ win'[d] = y
  BY DEF IInv, TypeOK, Worker, Commit
<1>2. e \in Unseen(s, batch) => e \in batch /\ win[d].idem[e] = "none"
  BY DEF Unseen
<1>3. e \in counts => win[d].counted[e] = 0
  BY <1>2 DEF IInv, SealsCount
<1>4. /\ y.idem[e] = IF e \in counts THEN "allowed"
                     ELSE IF e \in Unseen(s, batch) THEN "denied" ELSE x.idem[e]
      /\ y.counted[e] = IF counts = {} THEN x.counted[e]
                        ELSE s.counted[e] + (IF e \in counts THEN 1 ELSE 0)
  BY <1>1, SealedKeys, SealedMeter
<1>5. win[d].counted[e] \in Nat
  BY DEF IInv, TypeOK, Window
<1>6. counts # {} => s.counted = win[d].counted
  OBVIOUS
<1>. HIDE DEF y, counts
<1>7. y.counted[e] = IF e \in counts THEN 1 ELSE win[d].counted[e]
  BY <1>3, <1>4, <1>5, <1>6
<1>. QED
  BY <1>1, <1>2, <1>3, <1>4, <1>7 DEF counts

\* Seals and meter agree after a call, wherever it has overtaken nobody.
LEMMA CallKeepsSeals ==
  ASSUME IInv, NEW c \in Workers, CallStep(c)
  PROVE  SealsCount'
<1>1. PICK d \in Windows, x \in Window :
        /\ At(c, d) /\ Follows(d, x)
        /\ Commits(c, d, x) \/ Waits(c, d, x) \/ Throw(c, d, x) \/ Retries(c, d, x)
  BY DEF CallStep
<1>2. PICK w \in Worker : worker' = [worker EXCEPT ![c] = w] /\ w.fresh \subseteq worker[c].fresh
  BY <1>1, CallChanges
<1>3. worker \in [Workers -> Worker] /\ win \in [Windows -> Window]
  BY DEF IInv, TypeOK
<1>4. \A e \in Events : (\A b \in Workers : e \notin worker[b].fresh) =>
                         \A b \in Workers : e \notin worker'[b].fresh
  BY <1>2, <1>3
<1>5. overtaken \subseteq overtaken' /\ old' = old
  BY DEF CallStep
<1>6. PICK y \in Window : win' = [win EXCEPT ![d] = y]
  BY <1>1, CallChanges
<1>7. \A f \in Windows \ overtaken', e \in Events : f # d =>
        /\ win'[f].counted[e] \in {0, 1}
        /\ win'[f].idem[e] = "allowed" => win'[f].counted[e] = 1
        /\ win'[f].counted[e] = 1 /\ win'[f].idem[e] # "allowed" =>
             e \in old' /\ \A b \in Workers : e \notin worker'[b].fresh
  BY <1>3, <1>4, <1>5, <1>6 DEF IInv, SealsCount
<1>8. ASSUME d \notin overtaken', NEW e \in Events
      PROVE  /\ y.counted[e] \in {0, 1}
             /\ y.idem[e] = "allowed" => y.counted[e] = 1
             /\ y.counted[e] = 1 /\ y.idem[e] # "allowed" =>
                  e \in old' /\ \A b \in Workers : e \notin worker'[b].fresh
  <2>1. /\ win[d].counted[e] \in {0, 1}
        /\ win[d].idem[e] = "allowed" => win[d].counted[e] = 1
        /\ win[d].counted[e] = 1 /\ win[d].idem[e] # "allowed" =>
             e \in old' /\ (\A b \in Workers : e \notin worker[b].fresh)
    BY <1>5, <1>8 DEF IInv, SealsCount
  <2>2. x.idem = win[d].idem /\ x.counted = win[d].counted
    BY <1>1 DEF Follows
  <2>3. CASE Commits(c, d, x)
    <3>1. PICK s \in Window, denied \in SUBSET Events :
            /\ Commit(c, d, x, s, denied)
            /\ s.idem = x.idem
            /\ s.counted = x.counted \/ Unseen(s, worker[c].fresh) \ denied = {}
      BY <1>8, <2>3 DEF Commits
    <3>2. y = win'[d] /\ d \notin overtaken
      BY <1>3, <1>5, <1>6, <1>8
    <3> DEFINE counts == Unseen(s, worker[c].fresh) \ denied
    <3>3. /\ y.counted[e] = IF e \in counts THEN 1 ELSE win[d].counted[e]
          /\ y.idem[e] = IF e \in counts THEN "allowed"
                         ELSE IF e \in Unseen(s, worker[c].fresh) THEN "denied" ELSE win[d].idem[e]
          /\ e \in Unseen(s, worker[c].fresh) => e \in worker[c].fresh /\ win[d].idem[e] = "none"
      BY <2>2, <3>1, <3>2, CommitCounts
    <3>4. counts \subseteq Unseen(s, worker[c].fresh)
      OBVIOUS
    <3>. HIDE DEF counts
    <3>. QED
      BY <1>4, <2>1, <3>3, <3>4
  <2>4. CASE Waits(c, d, x) \/ Throw(c, d, x) \/ Retries(c, d, x)
    <3>1. y = x
      <4>1. win'[d] = x
        BY <2>4, UncommittedIsTheWindow DEF IInv
      <4>2. win'[d] = y
        BY <1>3, <1>6
      <4>. QED
        BY <4>1, <4>2
    <3>. QED
      BY <1>4, <2>1, <2>2, <3>1
  <2>. QED
    BY <1>1, <2>3, <2>4
<1>. QED
  BY <1>3, <1>6, <1>7, <1>8 DEF SealsCount

\* What a call counts it pays for.
LEMMA CallKeepsBooks ==
  ASSUME IInv, NEW c \in Workers, CallStep(c)
  PROVE  BooksCount'
<1>1. PICK d \in Windows, x \in Window :
        /\ At(c, d) /\ Follows(d, x)
        /\ Commits(c, d, x) \/ Waits(c, d, x) \/ Throw(c, d, x) \/ Retries(c, d, x)
  BY DEF CallStep
<1>2. win \in [Windows -> Window] /\ worker[c].fresh \in SUBSET Events
  BY DEF IInv, TypeOK, Worker
<1>3. overtaken \subseteq overtaken'
  BY DEF CallStep
<1>4. PICK y \in Window : win' = [win EXCEPT ![d] = y]
  BY <1>1, CallChanges
<1>5. \A f \in Windows \ overtaken' : f # d =>
        win'[f].paid + win'[f].consumed = Cardinality({e \in Events : <<f, e>> \notin Free /\ win'[f].counted[e] = 1})
  BY <1>2, <1>3, <1>4 DEF IInv, BooksCount, Spent
<1>6. ASSUME d \notin overtaken'
      PROVE  y.paid + y.consumed = Cardinality({e \in Events : <<d, e>> \notin Free /\ y.counted[e] = 1})
  <2>1. win[d].paid + win[d].consumed = Cardinality(Spent(d))
    BY <1>3, <1>6 DEF IInv, BooksCount
  <2>2. /\ x.idem = win[d].idem /\ x.counted = win[d].counted
        /\ x.paid = win[d].paid /\ x.consumed = win[d].consumed
    BY <1>1, <1>6 DEF Follows
  <2>3. CASE Commits(c, d, x)
    <3>1. PICK s \in Window, denied \in SUBSET Events :
            /\ Commit(c, d, x, s, denied)
            /\ s.idem = x.idem
            /\ s.counted = x.counted \/ Unseen(s, worker[c].fresh) \ denied = {}
      BY <1>6, <2>3 DEF Commits
    <3>2. y = Sealed(d, x, s, worker[c].fresh, denied)
      BY <1>2, <1>4, <3>1 DEF Commit
    <3> DEFINE counts == Unseen(s, worker[c].fresh) \ denied
               priced == Priced(d, s, counts)
               spent == {e \in Events : <<d, e>> \notin Free /\ y.counted[e] = 1}
    <3>3. \A e \in Events : /\ y.counted[e] = IF e \in counts THEN 1 ELSE win[d].counted[e]
                            /\ e \in counts => win[d].counted[e] = 0
      <4>1. y = win'[d] /\ d \notin overtaken
        BY <1>2, <1>3, <1>4, <1>6
      <4>. QED
        BY <2>2, <3>1, <4>1, CommitCounts
    <3>4. y.paid = x.paid /\ y.consumed = x.consumed + Cardinality(priced)
      BY <1>2, <3>2, SealedRow, SealedSpends
    <3>5. priced = {e \in counts : <<d, e>> \notin Free} /\ counts \subseteq Events
      BY <1>2 DEF Priced, Unseen
    <3>. HIDE DEF counts
    <3>6. spent = Spent(d) \cup priced /\ Spent(d) \cap priced = {}
      BY <3>3, <3>5 DEF Spent
    <3>7. Spent(d) \in SUBSET Events /\ priced \in SUBSET Events
      BY <3>5 DEF Spent
    <3>. HIDE DEF priced, spent
    <3>8. Cardinality(spent) = Cardinality(Spent(d)) + Cardinality(priced)
      BY <3>6, <3>7, SizeOfEvents, SizesAddUp
    <3>9. win[d].paid \in Nat /\ win[d].consumed \in Nat
      BY <1>2 DEF Window
    <3>10. Cardinality(Spent(d)) \in Nat /\ Cardinality(priced) \in Nat
      BY <3>7, SizeOfEvents
    <3>11. y.paid + y.consumed = Cardinality(spent)
      BY <2>1, <2>2, <3>4, <3>8, <3>9, <3>10
    <3>. QED
      BY <3>11 DEF spent
  <2>4. CASE Waits(c, d, x) \/ Throw(c, d, x) \/ Retries(c, d, x)
    <3>1. y = x
      <4>1. win'[d] = x
        BY <2>4, UncommittedIsTheWindow DEF IInv
      <4>2. win'[d] = y
        BY <1>2, <1>4
      <4>. QED
        BY <4>1, <4>2
    <3>. QED
      BY <2>1, <2>2, <3>1 DEF Spent
  <2>. QED
    BY <1>1, <2>3, <2>4
<1>. QED
  BY <1>2, <1>4, <1>5, <1>6 DEF BooksCount, Spent

-----------------------------------------------------------------------------
(* A call and the answers.                                                 *)

\* Answers that do not come from this worker stay.
LEMMA AnsweredByOthers ==
  ASSUME NEW c \in Workers, NEW d, NEW e, Answered(d, e), ~Answers(c, d, e),
         UNCHANGED <<queue, reports, published>>,
         \A b \in Workers \ {c} : worker'[b] = worker[b]
  PROVE  Answered(d, e)'
BY DEF Answered, Answers

\* What a worker answers after the step is answered.
LEMMA AnsweredByWorker ==
  ASSUME NEW c \in Workers, NEW d, NEW e, Answers(c, d, e)'
  PROVE  Answered(d, e)'
BY DEF Answered

\* The worker whose call has returned.
LEMMA ReturnedAlive ==
  ASSUME TypeOK, NEW c \in Workers, NEW d \in Windows, NEW s \in Window, NEW denied,
         ~worker[c].orphan
  PROVE  Returned(c, d, s, denied).orphan = FALSE
BY DEF TypeOK, Worker, Returned

LEMMA ReturnedWork ==
  ASSUME TypeOK, NEW c \in Workers, NEW d \in Windows, NEW s \in Window, NEW denied,
         ~worker[c].orphan
  PROVE  Returned(c, d, s, denied).fresh = worker[c].fresh
BY DEF TypeOK, Worker, Returned

LEMMA ReturnedTodo ==
  ASSUME TypeOK, NEW c \in Workers, NEW d \in Windows, NEW s \in Window, NEW denied,
         ~worker[c].orphan
  PROVE  Returned(c, d, s, denied).todo = worker[c].todo \ {d}
BY DEF TypeOK, Worker, Returned

LEMMA ReturnedFacts ==
  ASSUME TypeOK, NEW c \in Workers, NEW d \in Windows, NEW s \in Window, NEW denied,
         ~worker[c].orphan
  PROVE  Returned(c, d, s, denied).facts
           = worker[c].facts \cup {<<d, e>> : e \in Allowed(s, worker[c].fresh, denied)}
BY DEF TypeOK, Worker, Returned

LEMMA CommitKeepsAnswers ==
  ASSUME IInv, NEW c \in Workers, NEW d \in Windows, NEW x \in Window, At(c, d), Follows(d, x),
         Commits(c, d, x), overtaken \subseteq overtaken',
         UNCHANGED <<queue, reports, published, old>>
  PROVE  UsageIsAnswered'
<1>1. PICK s \in Window, denied \in SUBSET Events :
        /\ Commit(c, d, x, s, denied)
        /\ denied \subseteq Priced(d, s, worker[c].fresh)
        /\ d \notin overtaken' =>
             /\ s.idem = x.idem
             /\ s.counted = x.counted \/ Unseen(s, worker[c].fresh) \ denied = {}
  BY DEF Commits
<1>2. /\ worker \in [Workers -> Worker] /\ win \in [Windows -> Window]
      /\ worker[c].orphan \in BOOLEAN
  BY DEF IInv, TypeOK, Worker
<1> DEFINE w == Returned(c, d, s, denied)
<1>3. worker' = [worker EXCEPT ![c] = w] /\ abandoned' = abandoned
  BY <1>1 DEF Commit, Become
<1>4. /\ \A b \in Workers \ {c} : worker'[b] = worker[b]
      /\ worker'[c] = w
  BY <1>2, <1>3
<1>5. \A f \in Windows : f # d => win'[f] = win[f]
  BY <1>1, <1>2 DEF Commit
<1>6. w.orphan = FALSE
  BY <1>2, ReturnedAlive DEF Returned, NoWorker, IInv
<1>7. worker[c].pc # "failed" /\ (worker[c].orphan => worker[c].at = d)
  BY <1>2 DEF At, Waiting, IInv, WorkersAreSound, Sound
<1>8. ASSUME ~worker[c].orphan
      PROVE  /\ w.fresh = worker[c].fresh /\ w.todo = worker[c].todo \ {d}
             /\ w.facts = worker[c].facts \cup {<<d, e>> : e \in Allowed(s, worker[c].fresh, denied)}
  <2>1. TypeOK
    BY DEF IInv
  <2>2. w.fresh = worker[c].fresh
    BY <2>1, <1>8, ReturnedWork
  <2>3. w.todo = worker[c].todo \ {d}
    BY <2>1, <1>8, ReturnedTodo
  <2>4. w.facts = worker[c].facts \cup {<<d, e>> : e \in Allowed(s, worker[c].fresh, denied)}
    BY <2>1, <1>8, ReturnedFacts
  <2>. QED
    BY <2>2, <2>3, <2>4
<1>. HIDE DEF w
<1>. SUFFICES ASSUME NEW f \in Windows \ overtaken', NEW e \in Events \ (old' \cup abandoned'),
                     Counting(f, e)'
              PROVE  Answered(f, e)'
  BY DEF UsageIsAnswered
<1>9. f \notin overtaken /\ e \notin old /\ e \notin abandoned
  BY <1>3
<1>10. /\ win'[f].idem[e] \in {"allowed", "none"}
       /\ win'[f].idem[e] = "none" =>
            \E b \in Workers \ {c} : worker[b].orphan /\ worker[b].at = f /\ e \in worker[b].fresh
  BY <1>4, <1>6 DEF Counting
<1>11. f = d => /\ win'[d].idem[e] = IF e \in Unseen(s, worker[c].fresh) \ denied THEN "allowed"
                              ELSE IF e \in Unseen(s, worker[c].fresh) THEN "denied"
                              ELSE win[d].idem[e]
                /\ e \in Unseen(s, worker[c].fresh) <=> e \in worker[c].fresh /\ win[d].idem[e] = "none"
                /\ s.idem[e] = win[d].idem[e]
  <2>1. f = d => s.idem = win[d].idem /\ x.idem = win[d].idem /\ x.counted = win[d].counted
    BY <1>1 DEF Follows
  <2>2. f = d => win'[d].idem[e] = IF e \in Unseen(s, worker[c].fresh) \ denied THEN "allowed"
                              ELSE IF e \in Unseen(s, worker[c].fresh) THEN "denied"
                              ELSE win[d].idem[e]
    BY <1>1, <1>9, <2>1, CommitCounts
  <2>. QED
    BY <2>1, <2>2 DEF Unseen
<1>12. CASE f = d /\ e \in worker[c].fresh /\ ~worker[c].orphan
  <2>1. win'[d].idem[e] = "allowed" /\ e \notin denied /\ s.idem[e] # "denied"
    <3>1. e \in denied => e \in Unseen(s, worker[c].fresh)
      BY <1>1, PricedIsUnseen
    <3>2. e \in worker[c].fresh /\ win'[d].idem[e] \in {"allowed", "none"}
      BY <1>10, <1>12
    <3>3. win'[d].idem[e] = "allowed"
      BY <1>11, <1>12, <3>2
    <3>4. e \notin denied /\ win[d].idem[e] # "denied"
      BY <1>11, <1>12, <3>1, <3>2
    <3>. QED
      BY <1>11, <1>12, <3>3, <3>4
  <2>2. e \in Allowed(s, worker[c].fresh, denied)
    BY <1>12, <2>1 DEF Allowed
  <2>3. w.fresh = worker[c].fresh /\ <<d, e>> \in w.facts
    BY <1>12, <1>8, <2>2
  <2>4. Answers(c, d, e)'
    BY <1>4, <1>6, <1>12, <2>3 DEF Answers
  <2>. QED
    BY <1>12, <2>4, AnsweredByWorker
<1>13. CASE ~(f = d /\ e \in worker[c].fresh /\ ~worker[c].orphan)
  <2>1. Counting(f, e)
    BY <1>2, <1>5, <1>7, <1>10, <1>11, <1>13 DEF Counting
  <2>2. Answered(f, e)
    BY <1>9, <2>1 DEF IInv, UsageIsAnswered
  <2>3. CASE Answers(c, f, e)
    <3>1. ~worker[c].orphan /\ e \in worker[c].fresh /\ f # d
      BY <1>13, <2>3 DEF Answers
    <3>2. f \in worker[c].todo \/ <<f, e>> \in worker[c].facts
      BY <1>7, <2>3 DEF Answers
    <3>3. w.fresh = worker[c].fresh /\ (f \in w.todo \/ <<f, e>> \in w.facts)
      BY <1>8, <3>1, <3>2
    <3>4. Answers(c, f, e)'
      BY <1>4, <1>6, <3>1, <3>3 DEF Answers
    <3>. QED
      BY <3>4, AnsweredByWorker
  <2>4. CASE ~Answers(c, f, e)
    BY <1>4, <2>2, <2>4, AnsweredByOthers
  <2>. QED
    BY <2>3, <2>4
<1>. QED
  BY <1>12, <1>13

\* A worker that goes on with the same events goes on answering for them.
LEMMA SameAnswers ==
  ASSUME TypeOK, NEW c \in Workers, NEW w, worker' = [worker EXCEPT ![c] = w],
         w.orphan = worker[c].orphan, w.fresh = worker[c].fresh,
         w.todo = worker[c].todo, w.facts = worker[c].facts, worker[c].pc # "failed",
         UNCHANGED <<queue, reports, published>>,
         NEW d, NEW e, Answered(d, e)
  PROVE  Answered(d, e)'
<1>1. worker'[c] = w /\ \A b \in Workers \ {c} : worker'[b] = worker[b]
  BY DEF TypeOK
<1>2. CASE Answers(c, d, e)
  <2>1. Answers(c, d, e)'
    BY <1>1, <1>2 DEF Answers
  <2>. QED
    BY <2>1, AnsweredByWorker
<1>3. CASE ~Answers(c, d, e)
  BY <1>1, <1>3, AnsweredByOthers
<1>. QED
  BY <1>2, <1>3

\* Steps that commit nothing count nothing.
LEMMA UncommittedKeepsAnswers ==
  ASSUME IInv, NEW c \in Workers, NEW d \in Windows, NEW x \in Window, At(c, d), Follows(d, x),
         Waits(c, d, x) \/ Throw(c, d, x) \/ Retries(c, d, x),
         overtaken \subseteq overtaken',
         UNCHANGED <<queue, reports, published, old>>
  PROVE  UsageIsAnswered'
<1>1. worker \in [Workers -> Worker] /\ win \in [Windows -> Window] /\ worker[c].orphan \in BOOLEAN
  BY DEF IInv, TypeOK, Worker
<1>2. \A f \in Windows, e \in Events : win'[f].idem[e] = win[f].idem[e]
  <2>1. win' = [win EXCEPT ![d] = x] /\ x.idem = win[d].idem
    BY UncommittedIsTheWindow DEF IInv, Follows
  <2>. QED
    BY <1>1, <2>1
<1>3. worker[c].pc # "failed" /\ (worker[c].orphan => worker[c].at = d)
  BY <1>1 DEF At, Waiting, IInv, WorkersAreSound, Sound
<1>4. abandoned \subseteq abandoned'
  BY CallChanges
<1>. SUFFICES ASSUME NEW f \in Windows \ overtaken', NEW e \in Events \ (old' \cup abandoned'),
                     Counting(f, e)'
              PROVE  Answered(f, e)'
  BY DEF UsageIsAnswered
<1>5. f \notin overtaken /\ e \notin old /\ e \notin abandoned
  BY <1>4
<1>6. ASSUME NEW w, worker' = [worker EXCEPT ![c] = w],
             w.orphan => worker[c].orphan /\ w.fresh = worker[c].fresh /\ w.at = d
      PROVE  Answered(f, e)
  <2>1. Counting(f, e)
    BY <1>1, <1>2, <1>3, <1>6 DEF Counting
  <2>. QED
    BY <1>5, <2>1 DEF IInv, UsageIsAnswered
<1>7. CASE Waits(c, d, x)
  <2>1. PICK pc \in Waiting :
          /\ worker' = [worker EXCEPT ![c] = Paused(worker[c], d, x, pc)]
          /\ worker[c].sync => pc # "recreate"
          /\ worker[c].sync /\ pc = "create" =>
               \A g \in worker[c].fresh : x.idem[g] = "none" /\ <<d, g>> \notin Free
    BY <1>7 DEF Waits, Wait, Become, Paused
  <2>2. LET w == Paused(worker[c], d, x, pc)
        IN  /\ w.fresh = worker[c].fresh /\ w.orphan = worker[c].orphan
            /\ w.todo = worker[c].todo /\ w.facts = worker[c].facts /\ w.at = d
    BY <2>1, WaitingType
  <2>3. Answered(f, e)
    BY <1>6, <2>1, <2>2
  <2>. QED
    BY <1>3, <2>1, <2>2, <2>3, SameAnswers DEF IInv
<1>8. CASE Retries(c, d, x)
  <2>1. worker' = [worker EXCEPT ![c] = Again(worker[c])]
    BY <1>8 DEF Retries, Become, Again
  <2>2. LET w == Again(worker[c])
        IN  /\ w.fresh = worker[c].fresh /\ w.orphan = worker[c].orphan
            /\ w.todo = worker[c].todo /\ w.facts = worker[c].facts /\ w.at = worker[c].at
    BY RetriedType
  <2>3. Answered(f, e)
    BY <1>3, <1>6, <2>1, <2>2
  <2>. QED
    BY <1>3, <2>1, <2>2, <2>3, SameAnswers DEF IInv
<1>9. CASE Throw(c, d, x)
  <2>1. CASE worker[c].orphan \/ worker[c].sync
    <3>1. worker' = [worker EXCEPT ![c] = NoWorker] /\ NoWorker.orphan = FALSE
      BY <1>9, <2>1 DEF Throw, Become, NoWorker
    <3>2. Answered(f, e)
      BY <1>6, <3>1
    <3>3. e \notin worker[c].fresh \/ worker[c].orphan
      BY <1>9, <2>1 DEF Throw
    <3>4. ~Answers(c, f, e) /\ \A b \in Workers \ {c} : worker'[b] = worker[b]
      BY <1>1, <3>1, <3>3 DEF Answers
    <3>. QED
      BY <3>2, <3>4, AnsweredByOthers
  <2>2. CASE ~(worker[c].orphan \/ worker[c].sync)
    <3> DEFINE w == Failed(worker[c])
    <3>1. worker' = [worker EXCEPT ![c] = w]
      BY <1>9, <2>2 DEF Throw, Become, Failed
    <3>2. w.orphan = worker[c].orphan /\ w.fresh = worker[c].fresh /\ w.pc = "failed"
      BY ThrownType
    <3>3. Answered(f, e)
      BY <1>6, <2>2, <3>1, <3>2
    <3>4. worker'[c] = w /\ \A b \in Workers \ {c} : worker'[b] = worker[b]
      BY <1>1, <3>1
    <3>5. Answers(c, f, e) => Answers(c, f, e)'
      BY <3>2, <3>4 DEF Answers
    <3>. QED
      BY <3>3, <3>4, <3>5, AnsweredByOthers, AnsweredByWorker
  <2>. QED
    BY <2>1, <2>2
<1>. QED
  BY <1>7, <1>8, <1>9

\* A call keeps the whole invariant.
LEMMA CallKeepsInvariant ==
  ASSUME IInv, NEW c \in Workers, CallStep(c)
  PROVE  IInv'
<1>1. UsageIsAnswered'
  <2>1. PICK d \in Windows, x \in Window :
          /\ At(c, d) /\ Follows(d, x)
          /\ Commits(c, d, x) \/ Waits(c, d, x) \/ Throw(c, d, x) \/ Retries(c, d, x)
    BY DEF CallStep
  <2>2. overtaken \subseteq overtaken' /\ UNCHANGED <<queue, reports, published, old>>
    BY DEF CallStep
  <2>. QED
    BY <2>1, <2>2, CommitKeepsAnswers, UncommittedKeepsAnswers
<1>2. ReportsCarryState'
  BY DEF CallStep, IInv, ReportsCarryState
<1>. QED
  BY <1>1, <1>2, CallKeepsTypes, CallKeepsWindows, CallKeepsGrowthOpen, CallKeepsSeals,
     CallKeepsBooks DEF IInv

-----------------------------------------------------------------------------
(* The other actions.                                                      *)

\* The books do not mind what happens outside the windows, as long as no worker
\* takes up an event that is too old.
LEMMA WindowsAtRest ==
  ASSUME IInv, UNCHANGED <<win, overtaken>>, old \subseteq old',
         \A c \in Workers : worker'[c].pc = "grow" =>
           worker[c].pc = "grow" /\ worker'[c].at = worker[c].at,
         \A c \in Workers : \A e \in worker'[c].fresh : e \in worker[c].fresh \/ e \notin old
  PROVE  GrowthIsOpen' /\ ClosedIsEmpty' /\ SealsCount' /\ BooksCount'
<1>1. GrowthIsOpen' /\ ClosedIsEmpty'
  BY DEF IInv, GrowthIsOpen, ClosedIsEmpty
<1>2. SealsCount'
  BY DEF IInv, SealsCount
<1>3. BooksCount'
  BY DEF IInv, BooksCount, Spent
<1>. QED
  BY <1>1, <1>2, <1>3

\* Answers stay answers if no answer is lost and no call loses its consumer.
LEMMA AnswersAtRest ==
  ASSUME IInv, UNCHANGED <<win, overtaken>>, old \subseteq old', abandoned \subseteq abandoned',
         \A c \in Workers : worker'[c].orphan =>
           worker[c].orphan /\ worker'[c].at = worker[c].at /\ worker'[c].fresh = worker[c].fresh,
         \A d \in Windows, e \in Events \ (old' \cup abandoned') : Answered(d, e) => Answered(d, e)'
  PROVE  UsageIsAnswered'
<1>. SUFFICES ASSUME NEW d \in Windows \ overtaken', NEW e \in Events \ (old' \cup abandoned'),
                     Counting(d, e)'
              PROVE  Answered(d, e)'
  BY DEF UsageIsAnswered
<1>1. Counting(d, e)
  BY DEF Counting
<1>. QED
  BY <1>1 DEF IInv, UsageIsAnswered

\* A client's message, or a replay.
LEMMA EnqueueKeepsInvariant ==
  ASSUME IInv, NEW e \in Events, Enqueue(e), left' \in Bounds,
         UNCHANGED <<worker, win, wallet, reports, published, old, abandoned, overtaken>>
  PROVE  IInv'
<1>1. queue \in [Events -> [Deliveries -> Nat]] /\ 1 \in Deliveries
  BY Constants DEF IInv, TypeOK, Deliveries
<1>2. \A f \in Events, n \in Deliveries : queue'[f][n] \in Nat /\ queue'[f][n] >= queue[f][n]
  BY <1>1 DEF Enqueue
<1>3. queue' \in [Events -> [Deliveries -> Nat]]
  BY <1>1 DEF Enqueue
<1>4. TypeOK'
  BY <1>3 DEF IInv, TypeOK
<1>5. \A d \in Windows, f \in Events : Answered(d, f) => Answered(d, f)'
  <2>. SUFFICES ASSUME NEW d \in Windows, NEW f \in Events, Answered(d, f)
                PROVE  Answered(d, f)'
    OBVIOUS
  <2>1. \A n \in Deliveries : queue[f][n] > 0 => queue'[f][n] > 0
    BY <1>1, <1>2
  <2>. QED
    BY <2>1 DEF Answered, Answers
<1>6. WorkersAreSound' /\ ReportsCarryState'
  BY DEF IInv, WorkersAreSound, ReportsCarryState
<1>7. UsageIsAnswered'
  BY <1>5, AnswersAtRest
<1>. QED
  BY <1>4, <1>6, <1>7, WindowsAtRest DEF IInv

LEMMA AgeKeepsInvariant ==
  ASSUME IInv, NEW e \in Events, Age(e)
  PROVE  IInv'
<1>1. left' \in Bounds
  BY SpendType DEF Age, IInv
<1>2. TypeOK'
  BY <1>1 DEF Age, IInv, TypeOK
<1>3. WorkersAreSound' /\ ReportsCarryState'
  BY DEF Age, IInv, WorkersAreSound, ReportsCarryState
<1>4. GrowthIsOpen' /\ ClosedIsEmpty' /\ SealsCount' /\ BooksCount'
  BY WindowsAtRest DEF Age
<1>5. UsageIsAnswered'
  <2>1. \A d \in Windows, f \in Events : Answered(d, f) => Answered(d, f)'
    BY DEF Age, Answered, Answers
  <2>. QED
    BY <2>1, AnswersAtRest DEF Age
<1>. QED
  BY <1>2, <1>3, <1>4, <1>5 DEF IInv

LEMMA TakeKeepsInvariant ==
  ASSUME IInv, NEW c \in Workers, Take(c)
  PROVE  IInv'
<1>1. PICK batch \in SUBSET Events, held \in [Events -> 0 .. MaxDeliveries], copied \in SUBSET Events :
        /\ copied \subseteq batch
        /\ \A e \in Events :
             IF e \in batch THEN held[e] > 0 /\ queue[e][held[e]] > 0 ELSE held[e] = 0
        /\ queue' = [e \in Events |-> [n \in Deliveries |->
                       IF e \in copied THEN 0
                       ELSE IF held[e] = n THEN queue[e][n] - 1 ELSE queue[e][n]]]
        /\ LET late == {e \in batch : TooOld(e)}
           IN  Become(c, [NoWorker EXCEPT
                 !.pc = IF late = {} THEN "apply" ELSE "late",
                 !.held = held, !.late = late, !.fresh = batch \ late,
                 !.todo = Windows])
  BY DEF Take
<1> DEFINE late == {e \in batch : e \in old}
           fresh == batch \ late
<1>2. PICK pc \in {"apply", "late"} :
        worker' = [worker EXCEPT ![c] = [NoWorker EXCEPT
                     !.pc = pc, !.held = held, !.late = late, !.fresh = fresh, !.todo = Windows]]
  BY <1>1 DEF Become, TooOld
<1>3. late \in SUBSET Events /\ fresh \in SUBSET Events /\ \A e \in fresh : e \in batch /\ e \notin old
  OBVIOUS
<1> DEFINE w == [NoWorker EXCEPT
                   !.pc = pc, !.held = held, !.late = late, !.fresh = fresh, !.todo = Windows]
<1>. HIDE DEF late, fresh
<1>4. /\ w \in Worker
      /\ w.pc = pc /\ w.held = held /\ w.fresh = fresh /\ w.todo = Windows
      /\ w.sync = FALSE /\ w.orphan = FALSE /\ w.at = NoWindow /\ w.facts = {}
  BY <1>3, FreshTypes DEF NoWorker, Worker
<1>5. Sound(w)
  BY <1>1, <1>3, <1>4 DEF Sound, Waiting
<1>6. worker' = [worker EXCEPT ![c] = w]
  BY <1>2
<1>. HIDE DEF w
<1>7. /\ worker'[c] = w /\ \A b \in Workers \ {c} : worker'[b] = worker[b]
      /\ worker' \in [Workers -> Worker]
  BY <1>4, <1>6 DEF IInv, TypeOK
<1>8. UNCHANGED <<win, wallet, reports, published, old, abandoned, overtaken, left>>
  BY DEF Take
<1>9. queue' \in [Events -> [Deliveries -> Nat]]
  <2>1. queue \in [Events -> [Deliveries -> Nat]]
    BY DEF IInv, TypeOK
  <2>2. \A e \in Events, n \in Deliveries : held[e] = n => queue[e][n] > 0
    BY <1>1 DEF Deliveries
  <2>3. \A e \in Events, n \in Deliveries :
          (IF e \in copied THEN 0 ELSE IF held[e] = n THEN queue[e][n] - 1 ELSE queue[e][n]) \in Nat
    BY <2>1, <2>2
  <2>. QED
    BY <1>1, <2>3
<1>10. TypeOK'
  BY <1>7, <1>8, <1>9 DEF IInv, TypeOK
<1>11. WorkersAreSound' /\ ReportsCarryState'
  BY <1>5, <1>7, <1>8 DEF IInv, WorkersAreSound, ReportsCarryState
<1>12. GrowthIsOpen' /\ ClosedIsEmpty' /\ SealsCount' /\ BooksCount'
  <2>1. \A b \in Workers : worker'[b].pc = "grow" =>
          worker[b].pc = "grow" /\ worker'[b].at = worker[b].at
    BY <1>4, <1>7
  <2>2. \A b \in Workers : \A e \in worker'[b].fresh : e \in worker[b].fresh \/ e \notin old
    BY <1>3, <1>4, <1>7
  <2>. QED
    BY <1>8, <2>1, <2>2, WindowsAtRest
<1>13. UsageIsAnswered'
  <2>1. worker[c].fresh = {}
    BY DEF Take, Idle, IInv, WorkersAreSound, Sound
  <2>2. ASSUME NEW d \in Windows, NEW e \in Events \ (old' \cup abandoned'), Answered(d, e)
        PROVE  Answered(d, e)'
    <3>1. CASE e \in batch
      <4>1. e \in fresh
        BY <1>8, <3>1 DEF fresh, late
      <4>2. Answers(c, d, e)'
        BY <1>4, <1>7, <4>1 DEF Answers
      <4>. QED
        BY <4>2, AnsweredByWorker
    <3>2. CASE e \notin batch
      <4>1. \A n \in Deliveries : held[e] # n
        BY <1>1, <3>2 DEF Deliveries
      <4>2. \A n \in Deliveries : queue'[e][n] = queue[e][n]
        BY <1>1, <3>2, <4>1
      <4>3. \A b \in Workers : Answers(b, d, e) => Answers(b, d, e)'
        BY <1>7, <2>1 DEF Answers
      <4>. QED
        BY <1>8, <2>2, <4>2, <4>3 DEF Answered
    <3>. QED
      BY <3>1, <3>2
  <2>3. \A b \in Workers : worker'[b].orphan =>
          worker[b].orphan /\ worker'[b].at = worker[b].at /\ worker'[b].fresh = worker[b].fresh
    BY <1>4, <1>7
  <2>. QED
    BY <1>8, <2>2, <2>3, AnswersAtRest
<1>. QED
  BY <1>10, <1>11, <1>12, <1>13 DEF IInv

LEMMA SyncKeepsInvariant ==
  ASSUME IInv, NEW c \in Workers, NEW e \in Events, NEW d \in Windows, IngestFeatureSync(c, e, d)
  PROVE  IInv'
<1>1. PICK pc \in {"apply", "late"}, late \in SUBSET {e}, fresh \in SUBSET {e} :
        /\ e \in old => fresh = {}
        /\ worker' = [worker EXCEPT ![c] = [NoWorker EXCEPT
                        !.pc = pc, !.sync = TRUE, !.late = late, !.fresh = fresh, !.todo = {d}]]
  BY DEF IngestFeatureSync, Become, TooOld
<1> DEFINE w == [NoWorker EXCEPT
                   !.pc = pc, !.sync = TRUE, !.late = late, !.fresh = fresh, !.todo = {d}]
<1>2. /\ w \in Worker
      /\ w.pc = pc /\ w.fresh = fresh /\ w.todo = {d}
      /\ w.sync = TRUE /\ w.orphan = FALSE /\ w.at = NoWindow /\ w.facts = {}
  BY FreshTypes DEF NoWorker, Worker
<1>3. Sound(w)
  BY <1>2 DEF Sound, Waiting
<1>4. worker' = [worker EXCEPT ![c] = w]
  BY <1>1
<1>. HIDE DEF w
<1>5. /\ worker'[c] = w /\ \A b \in Workers \ {c} : worker'[b] = worker[b]
      /\ worker' \in [Workers -> Worker]
  BY <1>2, <1>4 DEF IInv, TypeOK
<1>6. UNCHANGED <<queue, win, wallet, reports, published, old, abandoned, overtaken>>
  BY DEF IngestFeatureSync
<1>7. left' \in Bounds
  BY SpendType DEF IngestFeatureSync, IInv
<1>8. TypeOK'
  BY <1>5, <1>6, <1>7 DEF IInv, TypeOK
<1>9. WorkersAreSound' /\ ReportsCarryState'
  BY <1>3, <1>5, <1>6 DEF IInv, WorkersAreSound, ReportsCarryState
<1>10. GrowthIsOpen' /\ ClosedIsEmpty' /\ SealsCount' /\ BooksCount'
  <2>1. \A b \in Workers : worker'[b].pc = "grow" =>
          worker[b].pc = "grow" /\ worker'[b].at = worker[b].at
    BY <1>2, <1>5
  <2>2. \A b \in Workers : \A f \in worker'[b].fresh : f \in worker[b].fresh \/ f \notin old
    BY <1>1, <1>2, <1>5
  <2>. QED
    BY <1>6, <2>1, <2>2, WindowsAtRest
<1>11. UsageIsAnswered'
  <2>1. worker[c].fresh = {}
    BY DEF IngestFeatureSync, Idle, IInv, WorkersAreSound, Sound
  <2>2. \A f \in Windows, g \in Events : Answered(f, g) => Answered(f, g)'
    BY <1>5, <1>6, <2>1, AnsweredByOthers DEF Answers
  <2>3. \A b \in Workers : worker'[b].orphan =>
          worker[b].orphan /\ worker'[b].at = worker[b].at /\ worker'[b].fresh = worker[b].fresh
    BY <1>2, <1>5
  <2>. QED
    BY <1>6, <2>2, <2>3, AnswersAtRest
<1>. QED
  BY <1>8, <1>9, <1>10, <1>11 DEF IInv

\* The wallet's answer is kept by the worker; nothing else about it changes.
Granted(w, grant, reused) == [w EXCEPT !.grant = grant, !.reused = reused]

LEMMA GrantedType ==
  ASSUME NEW w \in Worker, NEW grant \in 0 .. MaxAlloc, NEW reused \in BOOLEAN
  PROVE  LET v == Granted(w, grant, reused)
         IN  /\ v \in Worker /\ v.pc = w.pc /\ v.at = w.at /\ v.orphan = w.orphan /\ v.sync = w.sync
             /\ v.fresh = w.fresh /\ v.todo = w.todo /\ v.facts = w.facts /\ v.held = w.held
             /\ v.snap = w.snap
BY DEF Worker, Granted

LEMMA CreateKeepsInvariant ==
  ASSUME IInv, NEW c \in Workers, CreateReservation(c)
  PROVE  IInv'
<1> DEFINE d == worker[c].at
<1>1. worker[c] \in Worker /\ wallet \in [Windows -> {NotOpen} \cup 0 .. MaxAlloc]
  BY DEF IInv, TypeOK
<1>2. worker[c].pc \in {"create", "recreate"} /\ d \in Windows
  BY WaitingIsAt DEF CreateReservation, IInv, Waiting
<1>3. PICK grant \in 0 .. MaxAlloc, reused \in BOOLEAN :
        /\ worker' = [worker EXCEPT ![c] = Granted(worker[c], grant, reused)]
        /\ wallet' \in [Windows -> {NotOpen} \cup 0 .. MaxAlloc]
  <2>1. CASE /\ wallet[d] # NotOpen
             /\ Become(c, [worker[c] EXCEPT !.grant = wallet[d], !.reused = TRUE])
             /\ UNCHANGED wallet
    <3>1. wallet[d] \in 0 .. MaxAlloc
      BY <1>1, <1>2, <2>1
    <3>2. worker' = [worker EXCEPT ![c] = Granted(worker[c], wallet[d], TRUE)]
      BY <2>1 DEF Become, Granted
    <3>. QED
      BY <1>1, <2>1, <3>1, <3>2
  <2>2. CASE \E amount \in Amounts :
               /\ wallet' = [wallet EXCEPT ![d] = amount]
               /\ Become(c, [worker[c] EXCEPT !.grant = amount])
    <3>1. PICK amount \in 0 .. MaxAlloc :
            /\ wallet' = [wallet EXCEPT ![d] = amount]
            /\ worker' = [worker EXCEPT ![c] = [worker[c] EXCEPT !.grant = amount]]
      BY <2>2, Constants DEF Become
    <3>2. [worker[c] EXCEPT !.grant = amount] = Granted(worker[c], amount, worker[c].reused)
      BY <1>1 DEF Granted, Worker
    <3>3. worker[c].reused \in BOOLEAN
      BY <1>1 DEF Worker
    <3>4. wallet' \in [Windows -> {NotOpen} \cup 0 .. MaxAlloc]
      BY <1>1, <3>1
    <3>5. worker' = [worker EXCEPT ![c] = Granted(worker[c], amount, worker[c].reused)]
      BY <3>1, <3>2
    <3>. QED
      BY <3>3, <3>4, <3>5
  <2>. QED
    BY <2>1, <2>2 DEF CreateReservation
<1> DEFINE w == Granted(worker[c], grant, reused)
<1>4. /\ w \in Worker /\ w.pc = worker[c].pc /\ w.at = worker[c].at /\ w.orphan = worker[c].orphan
      /\ w.sync = worker[c].sync /\ w.fresh = worker[c].fresh /\ w.todo = worker[c].todo
      /\ w.facts = worker[c].facts /\ w.held = worker[c].held /\ w.snap = worker[c].snap
  BY <1>1, GrantedType
<1>5. Sound(w)
  BY <1>4 DEF IInv, WorkersAreSound, Sound
<1>6. worker' = [worker EXCEPT ![c] = w]
  BY <1>3
<1>. HIDE DEF w
<1>7. /\ worker'[c] = w /\ \A b \in Workers \ {c} : worker'[b] = worker[b]
      /\ worker' \in [Workers -> Worker]
  BY <1>4, <1>6 DEF IInv, TypeOK
<1>8. UNCHANGED <<queue, win, reports, published, old, abandoned, overtaken, left>>
  BY DEF CreateReservation
<1>9. TypeOK'
  BY <1>3, <1>7, <1>8 DEF IInv, TypeOK
<1>10. WorkersAreSound' /\ ReportsCarryState'
  BY <1>5, <1>7, <1>8 DEF IInv, WorkersAreSound, ReportsCarryState
<1>11. GrowthIsOpen' /\ ClosedIsEmpty' /\ SealsCount' /\ BooksCount'
  BY <1>4, <1>7, <1>8, WindowsAtRest
<1>12. UsageIsAnswered'
  <2>1. \A f \in Windows, g \in Events : Answered(f, g) => Answered(f, g)'
    BY <1>2, <1>4, <1>6, <1>8, SameAnswers DEF IInv
  <2>. QED
    BY <1>4, <1>7, <1>8, <2>1, AnswersAtRest
<1>. QED
  BY <1>9, <1>10, <1>11, <1>12 DEF IInv

\* An envelope is one, and carries a state for every fact.
LEMMA OutcomeType ==
  ASSUME TypeOK, WorkersAreSound, NEW c \in Workers, Reporting(c)
  PROVE  /\ Outcome(c) \in Envelope
         /\ \A f \in Outcome(c).facts : Outcome(c).state[f[2]] # "none"
<1> DEFINE w == worker[c]
<1>1. w \in Worker /\ Sound(w) /\ 1 \in Deliveries
  BY Constants DEF TypeOK, WorkersAreSound, Deliveries
<1>2. w.late \subseteq Events /\ w.fresh \subseteq Events /\ w.facts \subseteq Facts
  BY <1>1 DEF Worker
<1>3. \A f \in w.facts : f[2] \in w.fresh /\ f[2] \in Events
  BY <1>1, <1>2 DEF Sound
<1>4. CASE w.pc = "late"
  <2>1. Outcome(c) = Report([e \in w.late |-> "rejected"], w.late, {})
    BY <1>4 DEF Outcome
  <2>. QED
    BY <1>1, <1>2, <2>1 DEF Report, Envelope, States
<1>5. CASE w.pc = "report"
  <2> DEFINE outcome == [e \in w.fresh |-> IF \E d \in Windows : <<d, e>> \in w.facts
                                            THEN "processed" ELSE "rejected"]
  <2>1. Outcome(c) = Report(outcome, w.fresh, w.facts)
    BY <1>5 DEF Outcome
  <2>2. \A e \in w.fresh : outcome[e] \in States /\ outcome[e] # "none"
    BY DEF States
  <2>. HIDE DEF outcome
  <2>. QED
    BY <1>1, <1>2, <1>3, <2>1, <2>2 DEF Report, Envelope
<1>6. CASE w.pc = "failed"
  <2>1. Outcome(c) = Report([e \in w.fresh |-> "failed"], w.fresh, {})
    BY <1>6 DEF Outcome
  <2>. QED
    BY <1>1, <1>2, <2>1 DEF Report, Envelope, States
<1>. QED
  BY <1>4, <1>5, <1>6 DEF Reporting

\* What a worker answers is in its envelope, except while it reports old events.
LEMMA OutcomeAnswers ==
  ASSUME TypeOK, WorkersAreSound, NEW c \in Workers, Reporting(c), worker[c].pc # "late",
         NEW d, NEW e, Answers(c, d, e)
  PROVE  <<d, e>> \in Outcome(c).facts \/ Outcome(c).state[e] = "failed"
<1> DEFINE w == worker[c]
<1>1. w \in Worker /\ e \in w.fresh /\ e \in Events
  BY DEF TypeOK, Worker, Answers
<1>2. CASE w.pc = "report"
  <2>1. <<d, e>> \in w.facts
    BY <1>2 DEF Answers, WorkersAreSound, Sound
  <2>. QED
    BY <1>2, <2>1 DEF Outcome, Report
<1>3. CASE w.pc = "failed"
  BY <1>1, <1>3 DEF Outcome, Report
<1>. QED
  BY <1>2, <1>3 DEF Reporting

LEMMA ReportKeepsInvariant ==
  ASSUME IInv, NEW c \in Workers, EnqueueOutcomes(c)
  PROVE  IInv'
<1> DEFINE goesOn == worker[c].pc = "late" /\ worker[c].fresh # {}
<1>1. worker[c] \in Worker /\ Sound(worker[c]) /\ reports \subseteq Envelope
  BY DEF IInv, TypeOK, WorkersAreSound
<1>2. PICK w \in Worker :
        /\ worker' = [worker EXCEPT ![c] = w] /\ Sound(w)
        /\ w.pc # "grow" /\ w.fresh \subseteq worker[c].fresh
        /\ w.orphan = FALSE
        /\ worker[c].pc = "late" =>
             \A d, e : Answers(c, d, e) => e \in w.fresh /\ w.todo = worker[c].todo /\ w.facts = worker[c].facts
  <2>1. CASE goesOn
    <3> DEFINE v == [worker[c] EXCEPT !.pc = "apply"]
    <3>1. worker' = [worker EXCEPT ![c] = v]
      BY <2>1 DEF EnqueueOutcomes, Become
    <3>2. /\ v \in Worker /\ v.pc = "apply" /\ v.at = worker[c].at /\ v.orphan = worker[c].orphan
          /\ v.sync = worker[c].sync /\ v.fresh = worker[c].fresh /\ v.todo = worker[c].todo
          /\ v.facts = worker[c].facts /\ v.held = worker[c].held
      BY <1>1 DEF Worker
    <3>3. worker[c].orphan = FALSE
      BY <1>1, <2>1 DEF Sound, Waiting, Worker
    <3>. HIDE DEF v
    <3>4. Sound(v)
      BY <1>1, <2>1, <3>2 DEF Sound, Waiting
    <3>. QED
      BY <3>1, <3>2, <3>3, <3>4 DEF Answers
  <2>2. CASE ~goesOn
    <3>1. worker' = [worker EXCEPT ![c] = NoWorker]
      BY <2>2 DEF EnqueueOutcomes, Become
    <3>2. NoWorker.pc # "grow" /\ NoWorker.fresh = {} /\ NoWorker.orphan = FALSE
      BY DEF NoWorker
    <3>3. worker[c].pc = "late" => \A d, e : ~Answers(c, d, e)
      BY <2>2 DEF Answers
    <3>. QED
      BY <3>1, <3>2, <3>3, FreshTypes
  <2>. QED
    BY <2>1, <2>2
<1>3. /\ worker'[c] = w /\ \A b \in Workers \ {c} : worker'[b] = worker[b]
      /\ worker' \in [Workers -> Worker]
  BY <1>2 DEF IInv, TypeOK
<1>4. /\ UNCHANGED <<queue, win, wallet, published, old, abandoned, overtaken, left>>
      /\ Reporting(c) /\ reports' = reports \cup {Outcome(c)}
  BY DEF EnqueueOutcomes
<1>5. /\ Outcome(c) \in Envelope
      /\ \A f \in Outcome(c).facts : Outcome(c).state[f[2]] # "none"
  BY <1>4, OutcomeType DEF IInv
<1>6. TypeOK'
  BY <1>1, <1>3, <1>4, <1>5 DEF IInv, TypeOK
<1>7. WorkersAreSound' /\ ReportsCarryState'
  BY <1>2, <1>3, <1>4, <1>5 DEF IInv, WorkersAreSound, ReportsCarryState
<1>8. GrowthIsOpen' /\ ClosedIsEmpty' /\ SealsCount' /\ BooksCount'
  BY <1>2, <1>3, <1>4, WindowsAtRest
<1>9. UsageIsAnswered'
  <2>1. ASSUME NEW d \in Windows, NEW e \in Events, Answered(d, e)
        PROVE  Answered(d, e)'
    <3>1. CASE Answers(c, d, e)
      <4>1. CASE worker[c].pc = "late"
        <5>1. Answers(c, d, e)'
          BY <1>2, <1>3, <3>1, <4>1 DEF Answers
        <5>. QED
          BY <5>1, AnsweredByWorker
      <4>2. CASE worker[c].pc # "late"
        <5>1. <<d, e>> \in Outcome(c).facts \/ Outcome(c).state[e] = "failed"
          BY <1>4, <3>1, <4>2, OutcomeAnswers DEF IInv
        <5>. QED
          BY <1>4, <5>1 DEF Answered
      <4>. QED
        BY <4>1, <4>2
    <3>2. CASE ~Answers(c, d, e)
      BY <1>3, <1>4, <2>1, <3>2 DEF Answered, Answers
    <3>. QED
      BY <3>1, <3>2
  <2>. QED
    BY <1>2, <1>3, <1>4, <2>1, AnswersAtRest
<1>. QED
  BY <1>6, <1>7, <1>8, <1>9 DEF IInv

\* Messages that come back are in the queue again or dead-lettered.
LEMMA ReturnBrings ==
  ASSUME TypeOK, NEW held \in [Events -> 0 .. MaxDeliveries], NEW told \in SUBSET Events,
         Return(held, told)
  PROVE  /\ queue' \in [Events -> [Deliveries -> Nat]]
         /\ \A e \in Events, n \in Deliveries : queue[e][n] > 0 => queue'[e][n] > 0
         /\ \A e \in Events : held[e] > 0 => e \in abandoned' \/ \E n \in Deliveries : queue'[e][n] > 0
         /\ abandoned \subseteq abandoned' /\ told \subseteq abandoned' /\ abandoned' \subseteq Events
<1>1. queue \in [Events -> [Deliveries -> Nat]] /\ abandoned \subseteq Events
  BY DEF TypeOK
<1>2. queue' = [e \in Events |-> [n \in Deliveries |->
                 IF n > 1 /\ held[e] = n - 1 THEN queue[e][n] + 1 ELSE queue[e][n]]]
  BY DEF Return
<1>3. \A e \in Events, n \in Deliveries :
        /\ queue[e][n] \in Nat
        /\ queue'[e][n] = IF n > 1 /\ held[e] = n - 1 THEN queue[e][n] + 1 ELSE queue[e][n]
  BY <1>1, <1>2
<1>4. queue' \in [Events -> [Deliveries -> Nat]]
  BY <1>2, <1>3
<1>5. ASSUME NEW e \in Events, held[e] > 0, held[e] # MaxDeliveries
      PROVE  \E n \in Deliveries : queue'[e][n] > 0
  <2>1. held[e] \in 0 .. MaxDeliveries /\ MaxDeliveries \in Nat
    BY Constants
  <2>2. PICK n \in Deliveries : n > 1 /\ held[e] = n - 1
    <3>1. held[e] + 1 \in Deliveries /\ held[e] + 1 > 1 /\ held[e] = (held[e] + 1) - 1
      BY <1>5, <2>1 DEF Deliveries
    <3>. QED
      BY <3>1
  <2>. QED
    BY <1>3, <2>2
<1>6. abandoned' = abandoned \cup told \cup {e \in Events : held[e] = MaxDeliveries}
  BY DEF Return, LastDelivery
<1>. QED
  BY <1>1, <1>3, <1>4, <1>5, <1>6

LEMMA ReportFailsKeepsInvariant ==
  ASSUME IInv, NEW c \in Workers, EnqueueFails(c)
  PROVE  IInv'
<1>1. worker[c] \in Worker /\ Sound(worker[c]) /\ reports \subseteq Envelope
  BY DEF IInv, TypeOK, WorkersAreSound
<1>2. /\ UNCHANGED <<win, wallet, published, old, overtaken>>
      /\ Reporting(c) /\ reports' \in {reports, reports \cup {Outcome(c)}}
      /\ worker' = [worker EXCEPT ![c] = NoWorker]
      /\ left' \in Bounds
  BY SpendType DEF EnqueueFails, Become, IInv
<1>3. Unfinalized(c) \in [Events -> 0 .. MaxDeliveries]
  BY <1>1, Constants DEF Unfinalized, Worker
<1> DEFINE told == IF worker[c].sync THEN worker[c].fresh ELSE {}
<1>4. told \in SUBSET Events /\ Return(Unfinalized(c), told)
  BY <1>1 DEF Worker, EnqueueFails
<1>5. /\ queue' \in [Events -> [Deliveries -> Nat]]
      /\ \A e \in Events, n \in Deliveries : queue[e][n] > 0 => queue'[e][n] > 0
      /\ \A e \in Events : Unfinalized(c)[e] > 0 => e \in abandoned' \/ \E n \in Deliveries : queue'[e][n] > 0
      /\ abandoned \subseteq abandoned' /\ told \subseteq abandoned' /\ abandoned' \subseteq Events
  BY <1>3, <1>4, ReturnBrings DEF IInv
<1>6. /\ worker'[c] = NoWorker /\ \A b \in Workers \ {c} : worker'[b] = worker[b]
      /\ worker' \in [Workers -> Worker]
  BY <1>2, FreshTypes DEF IInv, TypeOK
<1>7. /\ Outcome(c) \in Envelope
      /\ \A f \in Outcome(c).facts : Outcome(c).state[f[2]] # "none"
  BY <1>2, OutcomeType DEF IInv
<1>8. TypeOK'
  BY <1>1, <1>2, <1>5, <1>6, <1>7 DEF IInv, TypeOK
<1>9. NoWorker.pc = "idle" /\ NoWorker.fresh = {} /\ NoWorker.orphan = FALSE
  BY DEF NoWorker
<1>10. WorkersAreSound' /\ ReportsCarryState'
  BY <1>2, <1>6, <1>7, FreshTypes DEF IInv, WorkersAreSound, ReportsCarryState
<1>11. GrowthIsOpen' /\ ClosedIsEmpty' /\ SealsCount' /\ BooksCount'
  BY <1>2, <1>6, <1>9, WindowsAtRest
<1>12. UsageIsAnswered'
  <2>1. ASSUME NEW d \in Windows, NEW e \in Events \ (old' \cup abandoned'), Answered(d, e)
        PROVE  Answered(d, e)'
    <3>1. CASE Answers(c, d, e)
      <4>1. e \in worker[c].fresh /\ ~worker[c].orphan
        BY <3>1 DEF Answers
      <4>2. ~worker[c].sync
        BY <1>5, <4>1
      <4>3. Unfinalized(c)[e] > 0
        BY <1>1, <4>1, <4>2 DEF Unfinalized, Sound
      <4>4. \E n \in Deliveries : queue'[e][n] > 0
        BY <1>5, <4>3
      <4>. QED
        BY <4>4 DEF Answered
    <3>2. CASE ~Answers(c, d, e)
      <4>1. \A b \in Workers : Answers(b, d, e) => Answers(b, d, e)'
        BY <1>6, <3>2 DEF Answers
      <4>. QED
        BY <1>2, <1>5, <2>1, <4>1 DEF Answered
    <3>. QED
      BY <3>1, <3>2
  <2>. QED
    BY <1>2, <1>5, <1>6, <1>9, <2>1, AnswersAtRest
<1>. QED
  BY <1>8, <1>10, <1>11, <1>12 DEF IInv

\* A worker whose consumer is dead.
Nothing == [e \in Events |-> 0]
Orphaned(w) == [w EXCEPT !.orphan = TRUE, !.held = Nothing]

LEMMA OrphanedType ==
  ASSUME NEW w \in Worker, Sound(w), w.at # NoWindow
  PROVE  /\ Orphaned(w) \in Worker /\ Sound(Orphaned(w))
         /\ Orphaned(w).pc = w.pc /\ Orphaned(w).at = w.at /\ Orphaned(w).fresh = w.fresh
<1> DEFINE v == Orphaned(w)
<1>1. /\ v \in Worker /\ v.pc = w.pc /\ v.at = w.at /\ v.fresh = w.fresh /\ v.orphan = TRUE
      /\ v.todo = w.todo /\ v.facts = w.facts /\ v.sync = w.sync /\ v.snap = w.snap
  <2>1. Nothing \in [Events -> 0 .. MaxDeliveries]
    BY Constants DEF Nothing
  <2>. QED
    BY <2>1 DEF Worker, Orphaned
<1>2. Sound(v)
  BY <1>1 DEF Sound
<1>. QED
  BY <1>1, <1>2

LEMMA DieKeepsInvariant ==
  ASSUME IInv, NEW c \in Workers, Die(c)
  PROVE  IInv'
<1>1. worker[c] \in Worker /\ Sound(worker[c])
  BY DEF IInv, TypeOK, WorkersAreSound
<1>2. /\ UNCHANGED <<win, wallet, reports, published, old, overtaken>>
      /\ ~worker[c].orphan /\ left' \in Bounds
  BY SpendType DEF Die, IInv
<1> DEFINE told == IF worker[c].sync THEN worker[c].fresh ELSE {}
<1>3. told \in SUBSET Events /\ Return(worker[c].held, told) /\ worker[c].held \in [Events -> 0 .. MaxDeliveries]
  BY <1>1 DEF Worker, Die
<1>4. /\ queue' \in [Events -> [Deliveries -> Nat]]
      /\ \A e \in Events, n \in Deliveries : queue[e][n] > 0 => queue'[e][n] > 0
      /\ \A e \in Events : worker[c].held[e] > 0 => e \in abandoned' \/ \E n \in Deliveries : queue'[e][n] > 0
      /\ abandoned \subseteq abandoned' /\ told \subseteq abandoned' /\ abandoned' \subseteq Events
  BY <1>3, ReturnBrings DEF IInv
<1>5. PICK w \in Worker :
        /\ worker' = [worker EXCEPT ![c] = w] /\ Sound(w)
        /\ w.fresh \subseteq worker[c].fresh
        /\ w.pc = "grow" => worker[c].pc = "grow" /\ w.at = worker[c].at
  <2>1. CASE worker[c].at # NoWindow
    <3>1. worker' = [worker EXCEPT ![c] = Orphaned(worker[c])]
      BY <2>1 DEF Die, Become, Orphaned, Nothing
    <3>2. /\ Orphaned(worker[c]) \in Worker /\ Sound(Orphaned(worker[c]))
          /\ Orphaned(worker[c]).pc = worker[c].pc /\ Orphaned(worker[c]).at = worker[c].at
          /\ Orphaned(worker[c]).fresh = worker[c].fresh
      BY <1>1, <2>1, OrphanedType
    <3>. QED
      BY <3>1, <3>2
  <2>2. CASE worker[c].at = NoWindow
    <3>1. worker' = [worker EXCEPT ![c] = NoWorker]
      BY <2>2 DEF Die, Become
    <3>2. NoWorker.pc # "grow" /\ NoWorker.fresh = {}
      BY DEF NoWorker
    <3>. QED
      BY <3>1, <3>2, FreshTypes
  <2>. QED
    BY <2>1, <2>2
<1>6. /\ worker'[c] = w /\ \A b \in Workers \ {c} : worker'[b] = worker[b]
      /\ worker' \in [Workers -> Worker]
  BY <1>5 DEF IInv, TypeOK
<1>7. TypeOK'
  BY <1>2, <1>4, <1>6 DEF IInv, TypeOK
<1>8. WorkersAreSound' /\ ReportsCarryState'
  BY <1>2, <1>5, <1>6 DEF IInv, WorkersAreSound, ReportsCarryState
<1>9. GrowthIsOpen' /\ ClosedIsEmpty' /\ SealsCount' /\ BooksCount'
  BY <1>2, <1>5, <1>6, WindowsAtRest
<1>10. UsageIsAnswered'
  <2>. SUFFICES ASSUME NEW d \in Windows \ overtaken', NEW e \in Events \ (old' \cup abandoned'),
                       Counting(d, e)'
                PROVE  Answered(d, e)'
    BY DEF UsageIsAnswered
  <2>1. CASE e \in worker[c].fresh
    <3>1. ~worker[c].sync
      BY <1>4, <2>1
    <3>2. worker[c].held[e] > 0
      BY <1>1, <1>2, <2>1, <3>1 DEF Sound
    <3>3. \E n \in Deliveries : queue'[e][n] > 0
      BY <1>4, <3>2
    <3>. QED
      BY <3>3 DEF Answered
  <2>2. CASE e \notin worker[c].fresh
    <3>1. Counting(d, e)
      BY <1>2, <1>5, <1>6, <2>2 DEF Counting
    <3>2. Answered(d, e)
      BY <1>2, <1>4, <3>1 DEF IInv, UsageIsAnswered
    <3>3. \A b \in Workers : Answers(b, d, e) => Answers(b, d, e)'
      BY <1>6, <2>2 DEF Answers
    <3>. QED
      BY <1>2, <1>4, <3>2, <3>3 DEF Answered
  <2>. QED
    BY <2>1, <2>2
<1>. QED
  BY <1>7, <1>8, <1>9, <1>10 DEF IInv

LEMMA PublishKeepsInvariant ==
  ASSUME IInv, NEW r \in reports, Publish(r)
  PROVE  IInv'
<1>1. r \in Envelope /\ published \in [status : [Events -> SUBSET States], facts : SUBSET Facts]
  BY DEF IInv, TypeOK
<1>2. /\ reports' = reports \ {r}
      /\ published' =
           [facts |-> published.facts \cup r.facts,
            status |-> [e \in Events |-> published.status[e] \cup ({r.state[e]} \ {"none"})]]
      /\ UNCHANGED <<queue, worker, win, wallet, old, abandoned, overtaken, left>>
  BY DEF Publish
<1>3. r.facts \subseteq Facts /\ \A e \in Events : r.state[e] \in States \cup {"none"}
  BY <1>1 DEF Envelope
<1>4. published' \in [status : [Events -> SUBSET States], facts : SUBSET Facts]
  <2>1. published.facts \cup r.facts \in SUBSET Facts
    BY <1>1, <1>3
  <2>2. [e \in Events |-> published.status[e] \cup ({r.state[e]} \ {"none"})] \in [Events -> SUBSET States]
    BY <1>1, <1>3
  <2>. QED
    BY <1>2, <2>1, <2>2
<1>5. TypeOK'
  BY <1>2, <1>4 DEF IInv, TypeOK
<1>6. WorkersAreSound' /\ ReportsCarryState'
  BY <1>2 DEF IInv, WorkersAreSound, ReportsCarryState
<1>7. GrowthIsOpen' /\ ClosedIsEmpty' /\ SealsCount' /\ BooksCount'
  BY <1>2, WindowsAtRest
<1>8. UsageIsAnswered'
  <2>1. \A e \in Events : published'.status[e] = published.status[e] \cup ({r.state[e]} \ {"none"})
    BY <1>2
  <2>2. published'.facts = published.facts \cup r.facts
    BY <1>2
  <2>3. ASSUME NEW d \in Windows, NEW e \in Events, Answered(d, e)
        PROVE  Answered(d, e)'
    <3>1. \A b \in Workers : Answers(b, d, e) => Answers(b, d, e)'
      BY <1>2 DEF Answers
    <3>2. CASE <<d, e>> \in r.facts \/ r.state[e] = "failed"
      BY <2>1, <2>2, <3>2 DEF Answered
    <3>3. CASE ~(<<d, e>> \in r.facts \/ r.state[e] = "failed")
      BY <1>2, <2>1, <2>2, <2>3, <3>1, <3>3 DEF Answered
    <3>. QED
      BY <3>2, <3>3
  <2>. QED
    BY <1>2, <2>3, AnswersAtRest
<1>. QED
  BY <1>5, <1>6, <1>7, <1>8 DEF IInv

\* An envelope that is delivered again.
Redelivered(r) == [r EXCEPT !.delivery = @ + 1]

LEMMA PublishFailsKeepsInvariant ==
  ASSUME IInv, NEW r \in reports, PublishFails(r)
  PROVE  IInv'
<1>1. r \in Envelope /\ published \in [status : [Events -> SUBSET States], facts : SUBSET Facts]
  BY DEF IInv, TypeOK
<1>2. /\ published' \in {published, [published EXCEPT !.facts = @ \cup r.facts]}
      /\ UNCHANGED <<queue, worker, win, wallet, old, overtaken>>
      /\ left' \in Bounds
      /\ \/ /\ r.delivery < MaxDeliveries
            /\ reports' = (reports \ {r}) \cup {Redelivered(r)}
            /\ UNCHANGED abandoned
         \/ /\ reports' = reports \ {r}
            /\ abandoned' = abandoned \cup {e \in Events : r.state[e] # "none"}
  BY SpendType DEF PublishFails, IInv, Redelivered
<1>3. r.delivery < MaxDeliveries => Redelivered(r) \in Envelope
  <2>1. r.delivery \in Deliveries /\ (r.delivery < MaxDeliveries => r.delivery + 1 \in Deliveries)
    BY <1>1, Constants DEF Envelope, Deliveries
  <2>. QED
    BY <1>1, <2>1 DEF Envelope, Redelivered
<1>4. Redelivered(r).facts = r.facts /\ Redelivered(r).state = r.state
  BY <1>1 DEF Envelope, Redelivered
<1>5. r.facts \subseteq Facts
  BY <1>1 DEF Envelope
<1>6. published' \in [status : [Events -> SUBSET States], facts : SUBSET Facts]
  BY <1>1, <1>2, <1>5
<1>7. abandoned \subseteq abandoned' /\ abandoned' \subseteq Events /\ reports' \subseteq Envelope
  BY <1>2, <1>3 DEF IInv, TypeOK
<1>8. TypeOK'
  BY <1>2, <1>6, <1>7 DEF IInv, TypeOK
<1>9. WorkersAreSound'
  BY <1>2 DEF IInv, WorkersAreSound
<1>10. ReportsCarryState'
  BY <1>2, <1>4 DEF IInv, ReportsCarryState
<1>11. GrowthIsOpen' /\ ClosedIsEmpty' /\ SealsCount' /\ BooksCount'
  BY <1>2, WindowsAtRest
<1>12. UsageIsAnswered'
  <2>1. published'.status = published.status /\ published.facts \subseteq published'.facts
    BY <1>1, <1>2
  <2>2. ASSUME NEW d \in Windows, NEW e \in Events \ (old' \cup abandoned'), Answered(d, e)
        PROVE  Answered(d, e)'
    <3>1. \A b \in Workers : Answers(b, d, e) => Answers(b, d, e)'
      BY <1>2 DEF Answers
    <3>2. CASE <<d, e>> \in r.facts \/ r.state[e] = "failed"
      <4>1. r.state[e] # "none"
        BY <3>2 DEF IInv, ReportsCarryState
      <4>2. reports' = (reports \ {r}) \cup {Redelivered(r)}
        BY <1>2, <4>1
      <4>. QED
        BY <1>4, <3>2, <4>2 DEF Answered
    <3>3. CASE ~(<<d, e>> \in r.facts \/ r.state[e] = "failed")
      <4>1. reports \ {r} \subseteq reports'
        BY <1>2
      <4>. QED
        BY <1>2, <2>1, <2>2, <3>1, <3>3, <4>1 DEF Answered
    <3>. QED
      BY <3>2, <3>3
  <2>. QED
    BY <1>2, <1>7, <2>2, AnswersAtRest
<1>. QED
  BY <1>8, <1>9, <1>10, <1>11, <1>12 DEF IInv

\* A window whose reservation is closed.
Shut(x, paid) == [x EXCEPT !.open = FALSE, !.alloc = 0, !.consumed = 0, !.paid = paid]

LEMMA ShutType ==
  ASSUME NEW x \in Window, NEW paid \in Nat
  PROVE  /\ Shut(x, paid) \in Window
         /\ Shut(x, paid).idem = x.idem /\ Shut(x, paid).counted = x.counted
         /\ Shut(x, paid).open = FALSE /\ Shut(x, paid).consumed = 0 /\ Shut(x, paid).paid = paid
<1>1. 0 \in 0 .. MaxAlloc
  BY Constants
<1>. QED
  BY <1>1 DEF Window, Shut

\* A close moves what was consumed to what is paid; no growth is under way.
LEMMA CloseKeepsInvariant ==
  ASSUME IInv, NEW d \in Windows, Close(d)
  PROVE  IInv'
<1>1. win \in [Windows -> Window] /\ wallet \in [Windows -> {NotOpen} \cup 0 .. MaxAlloc]
  BY DEF IInv, TypeOK
<1>2. /\ win' = [win EXCEPT ![d].open = FALSE, ![d].alloc = 0, ![d].consumed = 0,
                            ![d].paid = @ + win[d].consumed]
      /\ wallet' = [wallet EXCEPT ![d] = NotOpen]
      /\ UNCHANGED <<queue, worker, reports, published, old, abandoned, overtaken>>
      /\ left' \in Bounds
  BY SpendType DEF Close, IInv
<1>3. win[d] \in Window /\ win[d].paid + win[d].consumed \in Nat
  BY <1>1 DEF Window
<1>4. PICK paid \in Nat : paid = win[d].paid + win[d].consumed
  BY <1>3
<1> DEFINE y == Shut(win[d], paid)
<1>5. win' = [win EXCEPT ![d] = y]
  BY <1>1, <1>2, <1>4 DEF Shut
<1>6. /\ y \in Window /\ y.idem = win[d].idem /\ y.counted = win[d].counted
      /\ y.open = FALSE /\ y.consumed = 0 /\ y.paid = paid
  BY <1>3, ShutType
<1>. HIDE DEF y
<1>7. /\ win'[d] = y /\ \A f \in Windows \ {d} : win'[f] = win[f]
      /\ win' \in [Windows -> Window]
  BY <1>1, <1>5, <1>6
<1>8. TypeOK'
  BY <1>1, <1>2, <1>7 DEF IInv, TypeOK
<1>9. WorkersAreSound' /\ ReportsCarryState'
  BY <1>2 DEF IInv, WorkersAreSound, ReportsCarryState
<1>10. GrowthIsOpen'
  <2>1. \A c \in Workers : worker[c].pc = "grow" => worker[c].at # d /\ worker[c].at \in Windows
    BY WaitingIsAt DEF Close, Busy, IInv, Waiting
  <2>. QED
    BY <1>2, <1>7, <2>1 DEF IInv, GrowthIsOpen
<1>11. ClosedIsEmpty'
  BY <1>6, <1>7 DEF IInv, ClosedIsEmpty
<1>12. \A f \in Windows : win'[f].idem = win[f].idem /\ win'[f].counted = win[f].counted
  BY <1>6, <1>7
<1>13. SealsCount'
  <2>1. UNCHANGED <<worker, old, overtaken>>
    BY <1>2
  <2>. QED
    BY <1>12, <2>1 DEF IInv, SealsCount
<1>14. BooksCount'
  <2>1. \A f \in Windows : win'[f].paid + win'[f].consumed = win[f].paid + win[f].consumed
    BY <1>4, <1>6, <1>7
  <2>2. \A f \in Windows : Spent(f)' = Spent(f)
    BY <1>12 DEF Spent
  <2>3. overtaken' = overtaken
    BY <1>2
  <2>. QED
    BY <2>1, <2>2, <2>3 DEF IInv, BooksCount
<1>15. UsageIsAnswered'
  <2>1. \A f \in Windows, e \in Events : Counting(f, e)' => Counting(f, e)
    BY <1>2, <1>12 DEF Counting
  <2>2. \A f \in Windows, e \in Events : Answered(f, e) => Answered(f, e)'
    BY <1>2 DEF Answered, Answers
  <2>. QED
    BY <1>2, <2>1, <2>2 DEF IInv, UsageIsAnswered
<1>. QED
  BY <1>8, <1>9, <1>10, <1>11, <1>13, <1>14, <1>15 DEF IInv

\* A forgotten seal is that of an event too old to be worked on.
LEMMA ForgetKeepsInvariant ==
  ASSUME IInv, NEW d \in Windows, NEW e \in Events, Forget(d, e)
  PROVE  IInv'
<1>1. win \in [Windows -> Window]
  BY DEF IInv, TypeOK
<1>2. /\ e \in old /\ \A c \in Workers : e \notin worker[c].fresh
      /\ win' = [win EXCEPT ![d].idem[e] = "none"]
      /\ UNCHANGED <<queue, worker, wallet, reports, published, old, abandoned, overtaken, left>>
  BY DEF Forget
<1> DEFINE y == [win[d] EXCEPT !.idem[e] = "none"]
<1>3. win' = [win EXCEPT ![d] = y]
  BY <1>1, <1>2
<1>4. /\ y \in Window /\ y.open = win[d].open /\ y.counted = win[d].counted
      /\ y.consumed = win[d].consumed /\ y.paid = win[d].paid
      /\ \A f \in Events : f # e => y.idem[f] = win[d].idem[f]
      /\ y.idem[e] = "none"
  BY <1>1 DEF Window
<1>. HIDE DEF y
<1>5. /\ win'[d] = y /\ \A f \in Windows \ {d} : win'[f] = win[f]
      /\ win' \in [Windows -> Window]
  BY <1>1, <1>3, <1>4
<1>6. /\ \A f \in Windows : /\ win'[f].open = win[f].open /\ win'[f].counted = win[f].counted
                            /\ win'[f].consumed = win[f].consumed /\ win'[f].paid = win[f].paid
      /\ \A f \in Windows, g \in Events \ {e} : win'[f].idem[g] = win[f].idem[g]
  BY <1>4, <1>5
<1>7. TypeOK'
  BY <1>2, <1>5 DEF IInv, TypeOK
<1>8. WorkersAreSound' /\ ReportsCarryState'
  BY <1>2 DEF IInv, WorkersAreSound, ReportsCarryState
<1>9. GrowthIsOpen' /\ ClosedIsEmpty'
  <2>1. \A c \in Workers : worker[c].pc = "grow" => worker[c].at \in Windows
    BY WaitingIsAt DEF IInv, Waiting
  <2>. QED
    BY <1>2, <1>6, <2>1 DEF IInv, GrowthIsOpen, ClosedIsEmpty
<1>10. SealsCount'
  <2>. SUFFICES ASSUME NEW f \in Windows \ overtaken, NEW g \in Events
                PROVE  /\ win'[f].counted[g] \in {0, 1}
                       /\ win'[f].idem[g] = "allowed" => win'[f].counted[g] = 1
                       /\ win'[f].counted[g] = 1 /\ win'[f].idem[g] # "allowed" =>
                            g \in old' /\ \A c \in Workers : g \notin worker'[c].fresh
    BY <1>2 DEF SealsCount
  <2>1. /\ win[f].counted[g] \in {0, 1}
        /\ win[f].idem[g] = "allowed" => win[f].counted[g] = 1
        /\ win[f].counted[g] = 1 /\ win[f].idem[g] # "allowed" =>
             g \in old /\ \A c \in Workers : g \notin worker[c].fresh
    BY DEF IInv, SealsCount
  <2>2. CASE g = e
    <3>1. win'[f].idem[e] = "allowed" => win[f].idem[e] = "allowed"
      BY <1>4, <1>5
    <3>. QED
      BY <1>2, <1>6, <2>1, <2>2, <3>1
  <2>3. CASE g # e
    BY <1>2, <1>6, <2>1, <2>3
  <2>. QED
    BY <2>2, <2>3
<1>11. BooksCount'
  BY <1>2, <1>6 DEF IInv, BooksCount, Spent
<1>12. UsageIsAnswered'
  <2>1. \A f \in Windows, g \in Events \ old : Counting(f, g)' => Counting(f, g)
    BY <1>2, <1>6 DEF Counting
  <2>2. \A f \in Windows, g \in Events : Answered(f, g) => Answered(f, g)'
    BY <1>2 DEF Answered, Answers
  <2>. QED
    BY <1>2, <2>1, <2>2 DEF IInv, UsageIsAnswered
<1>. QED
  BY <1>7, <1>8, <1>9, <1>10, <1>11, <1>12 DEF IInv

LEMMA StutterKeepsInvariant ==
  ASSUME IInv, UNCHANGED vars
  PROVE  IInv'
<1>1. /\ UNCHANGED <<queue, worker, win, wallet>>
      /\ UNCHANGED <<reports, published, old, abandoned, overtaken, left>>
  BY DEF vars
<1>2. TypeOK'
  BY <1>1 DEF IInv, TypeOK
<1>3. WorkersAreSound' /\ ReportsCarryState'
  BY <1>1 DEF IInv, WorkersAreSound, ReportsCarryState
<1>4. GrowthIsOpen' /\ ClosedIsEmpty' /\ SealsCount' /\ BooksCount'
  BY <1>1, WindowsAtRest
<1>5. UsageIsAnswered'
  BY <1>1, AnswersAtRest DEF Answered, Answers
<1>. QED
  BY <1>2, <1>3, <1>4, <1>5 DEF IInv

-----------------------------------------------------------------------------
(* The invariant.                                                          *)

LEMMA InitIsSound == ASSUME Init PROVE IInv
<1>1. TypeOK
  <2>1. queue \in [Events -> [Deliveries -> Nat]]
    BY DEF Init
  <2>2. worker \in [Workers -> Worker] /\ win \in [Windows -> Window]
    BY FreshTypes DEF Init
  <2>3. wallet \in [Windows -> {NotOpen} \cup 0 .. MaxAlloc] /\ left \in Bounds
    BY Constants DEF Init, Bounds
  <2>4. reports = {} /\ published \in [status : [Events -> SUBSET States], facts : SUBSET Facts]
    BY DEF Init
  <2>. QED
    BY <2>1, <2>2, <2>3, <2>4 DEF Init, TypeOK
<1>2. \A c \in Workers : worker[c] = NoWorker
  BY DEF Init
<1>3. NoWorker.pc = "idle" /\ NoWorker.fresh = {} /\ NoWorker.orphan = FALSE
  BY DEF NoWorker
<1>4. \A d \in Windows : /\ win[d].consumed = 0 /\ win[d].paid = 0
                         /\ \A e \in Events : win[d].idem[e] = "none" /\ win[d].counted[e] = 0
  BY DEF Init, NewWindow
<1>5. WorkersAreSound /\ GrowthIsOpen /\ ReportsCarryState
  BY <1>2, <1>3, FreshTypes DEF Init, WorkersAreSound, GrowthIsOpen, ReportsCarryState
<1>6. ClosedIsEmpty /\ SealsCount
  BY <1>4 DEF ClosedIsEmpty, SealsCount
<1>7. BooksCount
  <2>1. \A d \in Windows : Spent(d) = {}
    BY <1>4 DEF Spent
  <2>. QED
    BY <1>4, <2>1, FS_EmptySet DEF BooksCount
<1>8. UsageIsAnswered
  BY <1>2, <1>3, <1>4 DEF UsageIsAnswered, Counting
<1>. QED
  BY <1>1, <1>5, <1>6, <1>7, <1>8 DEF IInv

LEMMA StepKeepsInvariant ==
  ASSUME IInv, Next
  PROVE  IInv'
<1>1. ASSUME NEW e \in Events, Send(e) \/ Replay(e)
      PROVE  IInv'
  <2>1. left' \in Bounds
    BY <1>1, SpendType DEF Send, Replay, IInv
  <2>. QED
    BY <1>1, <2>1, EnqueueKeepsInvariant DEF Send, Replay
<1>2. ASSUME NEW c \in Workers, WorkerStep(c)
      PROVE  IInv'
  BY <1>2, ApplyBatchIsCall, ReservationCreatedIsCall, JoinedIsCall, GrownIsCall, NoGrowthIsCall,
     CallKeepsInvariant, CreateKeepsInvariant, ReportKeepsInvariant DEF WorkerStep
<1>3. ASSUME NEW c \in Workers, CallFails(c)
      PROVE  IInv'
  BY <1>3, CallFailsIsCall, CallKeepsInvariant
<1>. QED
  BY <1>1, <1>2, <1>3, AgeKeepsInvariant, TakeKeepsInvariant, ReportFailsKeepsInvariant,
     DieKeepsInvariant, SyncKeepsInvariant, CloseKeepsInvariant, ForgetKeepsInvariant,
     PublishKeepsInvariant, PublishFailsKeepsInvariant DEF Next

\* The invariant holds in every reachable state, whatever the workers, events and
\* windows and however often messages are delivered and consumers die.
THEOREM IngestionIsSound == Spec => []IInv
<1>1. Init => IInv
  BY InitIsSound
<1>2. IInv /\ [Next]_vars => IInv'
  BY StepKeepsInvariant, StutterKeepsInvariant
<1>. QED
  BY <1>1, <1>2, PTL DEF Spec

\* Queue, workers, windows and reports keep their types: what a worker waits for,
\* what is granted to it and what a window holds are always well-formed.
THEOREM TypesHold == Spec => []TypeOK
<1>1. IInv => TypeOK
  BY DEF IInv
<1>. QED
  BY <1>1, IngestionIsSound, PTL

\* However often an event is sent, delivered again, replayed or raced by a
\* synchronous request, a window counts it at most once and takes money for it
\* exactly when it counts it - unless a call that opened a reservation was
\* overtaken at that window.
THEOREM EventsCountOnce == Spec => []CountedOnce
<1>1. IInv => CountedOnce
  BY DEF IInv, SealsCount, BooksCount, Spent, CountedOnce
<1>. QED
  BY <1>1, IngestionIsSound, PTL

\* What a window has counted is published, or a report, a message or a worker will
\* bring it - unless somebody was told otherwise.
THEOREM UsageGetsReported == Spec => []UsageIsReported
<1>1. ASSUME IInv PROVE UsageIsReported
  <2>. SUFFICES ASSUME NEW d \in Windows \ overtaken, NEW e \in Events \ (old \cup abandoned),
                       win[d].idem[e] = "allowed"
                PROVE  \/ <<d, e>> \in published.facts \/ "failed" \in published.status[e]
                       \/ \E r \in reports : <<d, e>> \in r.facts \/ r.state[e] = "failed"
                       \/ Underway(e)
    BY DEF UsageIsReported
  <2>1. Answered(d, e)
    BY <1>1 DEF IInv, UsageIsAnswered, Counting
  <2>2. ASSUME NEW c \in Workers, Answers(c, d, e)
        PROVE  worker[c].held[e] > 0 \/ (worker[c].sync /\ e \in worker[c].fresh)
    BY <1>1, <2>2 DEF IInv, WorkersAreSound, Sound, Answers
  <2>. QED
    BY <2>1, <2>2 DEF Answered, Underway
<1>. QED
  BY <1>1, IngestionIsSound, PTL
=============================================================================
