---------------------------- MODULE RequestQueue ----------------------------
(***************************************************************************)
(* The queue of unfinished hall calls of one node (elevator/requestqueue)  *)
(* together with the two scheduler threads that use it                     *)
(* (elevator/scheduler.cpp):                                               *)
(*                                                                         *)
(*   - the scheduling thread (_schedLoop) adds a request for every call it *)
(*     dispatches and acknowledges requests when state changes arrive;     *)
(*   - the checking thread (_reqCheckLoop) waits for the earliest          *)
(*     deadline, takes the request that reached it, sends it again and     *)
(*     puts it back.                                                       *)
(*                                                                         *)
(* Both take the queue's mutex.  Push and Ack hold it for one step; the    *)
(* checking thread holds it while pc = "scan" and releases it inside       *)
(* wait_until (pc = "waiting").  What a thread computes before it takes    *)
(* the mutex (a deadline read from the clock) is a step of its own.        *)
(*                                                                         *)
(* Time is the integer clock.  A request carries an identity "id" and the  *)
(* time "acked" of its acknowledgement, neither of which the code has:     *)
(* they only serve the properties.                                         *)
(***************************************************************************)
EXTENDS Integers, FiniteSets

CONSTANTS
  Elevators,     \* elevators a request may be assigned to
  Calls,         \* hall calls: a floor and a direction
  AddDelta,      \* deadline of a new request (100 ms)
  ServeDelta,    \* deadline of an acknowledged request (30 s)
  PollTimeout,   \* the checking thread's longest wait (heartbeat threshold / 10)
  ResendLimit,   \* resends to one elevator before another may be chosen (3)
  PushesInTime,  \* TRUE: the scheduling thread is never delayed, between the
                 \* construction of a request and its push, past its deadline
  MaxRequests,   \* bound: requests created in a behaviour
  MaxClock       \* bound: the last time the clock shows

NoTime == -1

ASSUME DeltasAssumption ==
  /\ AddDelta \in Nat \ {0}
  /\ ServeDelta \in Nat
  /\ ServeDelta >= AddDelta
  /\ PollTimeout \in Nat \ {0}
  /\ ResendLimit \in Nat

ASSUME BoundsAssumption ==
  /\ MaxRequests \in Nat
  /\ MaxClock \in Nat
  /\ PushesInTime \in BOOLEAN

VARIABLES
  clock,      \* std::chrono::steady_clock::now()
  queue,      \* RequestQueue::_queue, a priority queue ordered by deadline
  added,      \* number of requests created so far
  pending,    \* the request the scheduling thread built and has not pushed
  acking,     \* the acknowledgement it has not applied yet
  pc,         \* where the checking thread is
  d0,         \* its poll limit, computed before the lock is taken
  now,        \* the clock as it last read it under the lock
  waitUntil,  \* the deadline it handed to wait_until
  notified,   \* notify_all was called since it went waiting
  held        \* the request it took from the queue and has not put back

waiter == <<pc, d0, now, waitUntil, held>>
sched  == <<pending, acking>>
vars   == <<clock, queue, added, sched, waiter, notified>>

-----------------------------------------------------------------------------
(* Requests *)

Times  == Nat \cup {NoTime}
Status == {"NotAcknowledged", "NotDone", "Done"}

Request ==
  [id : Nat, call : Calls, elev : Elevators, type : Status, repeated : Nat,
   delta : Nat, deadline : Nat, tweaked : Times, acked : Times]

NewRequestFor(call, elev) ==
  [id |-> added, call |-> call, elev |-> elev, type |-> "NotAcknowledged",
   repeated |-> 0, delta |-> AddDelta, deadline |-> clock + AddDelta,
   tweaked |-> NoTime, acked |-> NoTime]

Acknowledgement ==
  [elev : Elevators, call : Calls, change : {"GoingToServe", "Served"},
   at : Nat, delta : Nat]

(* The change of state a request waits for. *)
TriggerType(r) ==
  IF r.type = "NotAcknowledged" THEN "GoingToServe" ELSE "Served"

Matches(r, a) ==
  /\ r.elev = a.elev
  /\ r.call = a.call
  /\ TriggerType(r) = a.change

NextStatus(s) == IF s = "NotAcknowledged" THEN "NotDone" ELSE "Done"

(* ackRequest cannot move a request inside the heap: a new deadline is only *)
(* noted in "tweaked", and the checking thread applies it later.            *)
Acknowledged(r, a) ==
  [r EXCEPT !.type     = NextStatus(r.type),
            !.repeated = 0,
            !.tweaked  = IF a.delta > 0 THEN a.at + a.delta ELSE r.tweaked,
            !.delta    = IF a.delta > 0 THEN a.delta ELSE r.delta,
            !.acked    = a.at]

IsTop(r) == r \in queue /\ \A q \in queue : r.deadline <= q.deadline

(* Faulty variants of this module stand next to what they vary: each breaks *)
(* one of the properties below and shows that it tells them apart.          *)
Tweaked(r) == r.tweaked # NoTime

FlaggedNever(r)  == FALSE
FlaggedByAck(r)  == r.type # "NotAcknowledged"

Flagged(r) == r.type = "Done"

-----------------------------------------------------------------------------
Init ==
  /\ clock = 0
  /\ queue = {}
  /\ added = 0
  /\ pending = {}
  /\ acking = {}
  /\ pc = "idle"
  /\ d0 = NoTime
  /\ now = NoTime
  /\ waitUntil = NoTime
  /\ notified = FALSE
  /\ held = {}

-----------------------------------------------------------------------------
(* The scheduling thread *)

LockFree  == pc # "scan"
SchedFree == pending = {} /\ acking = {}

(* _addAndForwardRequest: the deadline is fixed when the request is built. *)
NewRequest(call, elev) ==
  /\ SchedFree
  /\ added < MaxRequests
  /\ pending' = {NewRequestFor(call, elev)}
  /\ added' = added + 1
  /\ UNCHANGED <<clock, queue, acking, waiter, notified>>

NeedsSignalIfEmpty(r) == queue = {}

NeedsSignal(r) == \A q \in queue : r.deadline < q.deadline

PushInto(r) ==
  /\ queue' = queue \cup {r}
  /\ notified' = (notified \/ (pc = "waiting" /\ NeedsSignal(r)))

Push ==
  /\ LockFree
  /\ \E r \in pending : PushInto(r)
  /\ pending' = {}
  /\ UNCHANGED <<clock, added, acking, waiter>>

(* A state change arrives; ackRequest reads the clock before it locks. *)
StartAck(elev, call, change) ==
  /\ SchedFree
  /\ acking' = {[elev |-> elev, call |-> call, change |-> change, at |-> clock,
                 delta |-> IF change = "GoingToServe" THEN ServeDelta ELSE 0]}
  /\ UNCHANGED <<clock, queue, added, pending, waiter, notified>>

Ack ==
  /\ LockFree
  /\ \E a \in acking :
       queue' = {IF Matches(r, a) THEN Acknowledged(r, a) ELSE r : r \in queue}
  /\ acking' = {}
  /\ UNCHANGED <<clock, added, pending, waiter, notified>>

-----------------------------------------------------------------------------
(* The checking thread: waitForEarliestDeadline *)

locals == <<d0, now, waitUntil>>

(* The function's locals are gone once it returns or throws. *)
Leave(where) ==
  /\ pc' = where
  /\ d0' = NoTime /\ now' = NoTime /\ waitUntil' = NoTime
  /\ notified' = FALSE

Call ==
  /\ pc = "idle"
  /\ d0' = clock + PollTimeout
  /\ pc' = "locking"
  /\ UNCHANGED <<clock, queue, added, sched, now, waitUntil, notified, held>>

Acquire ==
  /\ pc = "locking"
  /\ pc' = "scan"
  /\ UNCHANGED <<clock, queue, added, sched, locals, notified, held>>

(* The cleaning loop: drop requests flagged Done, re-push tweaked ones. *)
DropDone ==
  /\ pc = "scan"
  /\ \E r \in queue : IsTop(r) /\ Flagged(r) /\ queue' = queue \ {r}
  /\ UNCHANGED <<clock, added, sched, waiter, notified>>

WithTweakForgotten(r) == [r EXCEPT !.tweaked = NoTime]
WithTweakKept(r)      == [r EXCEPT !.deadline = r.tweaked]

WithTweak(r) == [r EXCEPT !.deadline = r.tweaked, !.tweaked = NoTime]

ApplyTweak ==
  /\ pc = "scan"
  /\ \E r \in queue :
       /\ IsTop(r) /\ ~Flagged(r) /\ Tweaked(r)
       /\ queue' = (queue \ {r}) \cup {WithTweak(r)}
  /\ UNCHANGED <<clock, added, sched, waiter, notified>>

CleanTop(r) == IsTop(r) /\ ~Flagged(r) /\ ~Tweaked(r)

(* A clean top whose deadline has passed is taken out and returned. *)
ReturnDue ==
  /\ pc = "scan"
  /\ \E r \in queue :
       /\ CleanTop(r) /\ r.deadline <= clock
       /\ queue' = queue \ {r}
       /\ held' = {r}
  /\ Leave("got")
  /\ UNCHANGED <<clock, added, sched>>

(* The poll limit passed first: Maybe::Nothing. *)
ReturnNothing ==
  /\ pc = "scan"
  /\ \/ queue = {}
     \/ \E r \in queue : CleanTop(r) /\ r.deadline > clock
  /\ d0 <= clock
  /\ Leave("idle")
  /\ UNCHANGED <<clock, queue, added, sched, held>>

Earlier(s, t) == IF s < t THEN s ELSE t

(* wait_until( min( top deadline, d0 ) ) *)
WaitDeadline(deadline) == Earlier(deadline, d0)

Wait ==
  /\ pc = "scan"
  /\ \/ queue = {} /\ waitUntil' = d0
     \/ \E r \in queue : CleanTop(r) /\ waitUntil' = WaitDeadline(r.deadline)
  /\ waitUntil' > clock
  /\ now' = clock
  /\ pc' = "waiting"
  /\ UNCHANGED <<clock, queue, added, sched, d0, notified, held>>

(* no_timeout: a notification or a spurious wakeup; the loop runs again. *)
Wake ==
  /\ pc = "waiting"
  /\ pc' = "scan"
  /\ notified' = FALSE
  /\ UNCHANGED <<clock, queue, added, sched, locals, held>>

(* What the thread compares the top with once wait_until timed out: the     *)
(* time it read BEFORE it waited.                                           *)
TimeAfterWaitReread == clock

TimeAfterWait == now

(* timeout: the loop ends without another round of cleaning. *)
TimedOutNothing ==
  /\ pc = "waiting"
  /\ clock >= waitUntil
  /\ \A r \in queue : r.deadline > TimeAfterWait
  /\ Leave("idle")
  /\ UNCHANGED <<clock, queue, added, sched, held>>

(* timeout with a top that is already late: popped; assert( no tweak ).  An *)
(* assertion throws, the popped request is destroyed with the stack frame.  *)
TimedOutTake ==
  /\ pc = "waiting"
  /\ clock >= waitUntil
  /\ \E r \in queue :
       /\ IsTop(r) /\ r.deadline <= TimeAfterWait
       /\ queue' = queue \ {r}
       /\ \/ ~Tweaked(r) /\ Leave("got") /\ held' = {r}
          \/ Tweaked(r) /\ Leave("failed") /\ held' = {}
  /\ UNCHANGED <<clock, added, sched>>

(* restartWrapper: the loop function is entered again. *)
RestartLoop ==
  /\ pc = "failed"
  /\ pc' = "idle"
  /\ UNCHANGED <<clock, queue, added, sched, locals, notified, held>>

-----------------------------------------------------------------------------
(* The checking thread: _resendRequest *)

Reschedules(r) == r.repeated + 1 > ResendLimit \/ r.type = "NotDone"

(* Beyond ResendLimit the value of the counter makes no difference. *)
CountedResend(n) == Earlier(n + 1, ResendLimit + 1)

ResentAcknowledged(r, elev) ==
  [r EXCEPT !.repeated = CountedResend(r.repeated),
            !.elev     = IF Reschedules(r) THEN elev ELSE r.elev,
            !.deadline = clock + r.delta]

Resent(r, elev) ==
  [r EXCEPT !.repeated = CountedResend(r.repeated),
            !.elev     = IF Reschedules(r) THEN elev ELSE r.elev,
            !.type     = IF Reschedules(r) THEN "NotAcknowledged" ELSE r.type,
            !.deadline = clock + r.delta]

(* updateDeadline and push: one step, the thread is alone in between.  The  *)
(* elevator _optimalElevator picks depends on the state of every elevator:  *)
(* here it is any of them.                                                  *)
Resend ==
  /\ pc = "got"
  /\ \E r \in held, elev \in Elevators : PushInto(Resent(r, elev))
  /\ held' = {}
  /\ pc' = "idle"
  /\ UNCHANGED <<clock, added, sched, locals>>

-----------------------------------------------------------------------------
(* Time.  Under PushesInTime it never passes the deadline of a pending      *)
(* request.                                                                 *)
Tick ==
  /\ clock < MaxClock
  /\ PushesInTime => \A r \in pending : clock + 1 < r.deadline
  /\ clock' = clock + 1
  /\ UNCHANGED <<queue, added, sched, waiter, notified>>

-----------------------------------------------------------------------------
Scheduling ==
  \/ Push
  \/ Ack
  \/ \E call \in Calls, elev \in Elevators :
       \/ NewRequest(call, elev)
       \/ \E change \in {"GoingToServe", "Served"} : StartAck(elev, call, change)

Checking ==
  \/ Call \/ Acquire
  \/ DropDone \/ ApplyTweak
  \/ ReturnDue \/ ReturnNothing \/ Wait
  \/ Wake \/ TimedOutNothing \/ TimedOutTake
  \/ RestartLoop \/ Resend

Next == Scheduling \/ Checking \/ Tick

Spec == Init /\ [][Next]_vars

(* Either thread runs when it can (they are threads of their own and every  *)
(* critical section is finite) and time passes.                             *)
Fairness == WF_vars(Checking) /\ WF_vars(Push \/ Ack) /\ WF_vars(Tick)

FairSpec == Spec /\ Fairness

-----------------------------------------------------------------------------
(* Properties *)

Locations == {"idle", "locking", "scan", "waiting", "got", "failed"}

AtMostOne(S) == \A x, y \in S : x = y

(* Types; the scheduling thread has at most one thing under way and the     *)
(* checking thread holds a request exactly between its return from          *)
(* waitForEarliestDeadline and the end of _resendRequest.                   *)
TypeOK ==
  /\ clock \in Nat
  /\ queue \subseteq Request
  /\ added \in Nat
  /\ pending \subseteq Request /\ AtMostOne(pending)
  /\ acking \subseteq Acknowledgement /\ AtMostOne(acking)
  /\ pending = {} \/ acking = {}
  /\ pc \in Locations
  /\ d0 \in Times /\ (d0 = NoTime <=> pc \in {"idle", "got", "failed"})
  /\ now \in Times
  /\ waitUntil \in Times
  /\ notified \in BOOLEAN
  /\ held \subseteq Request /\ AtMostOne(held)
  /\ held # {} <=> pc = "got"

(* A sleeping checking thread is woken in time: while it waits and no       *)
(* notification is under way it wakes no later than the earliest deadline   *)
(* in the queue, whatever was pushed or acknowledged meanwhile              *)
(* (push: "we need to recalculate deadline at waiter").                     *)
NoLostWakeup ==
  pc = "waiting" /\ ~notified => \A r \in queue : waitUntil <= r.deadline

(* The assertion of requestqueue.cpp:54: a request leaves the queue for     *)
(* resending only when no new deadline is noted for it.                     *)
NoTweakLost == pc # "failed"

(* A request that was acknowledged is not sent again before the time its    *)
(* elevator was given to serve it, though the acknowledgement could not     *)
(* change the deadline the queue is ordered by.                             *)
PatienceAfterAck ==
  \A r \in held : r.type = "NotDone" => clock >= r.acked + ServeDelta

(* A request that was reported served is never sent again: flagging it in   *)
(* place and dropping it lazily is enough.                                  *)
NoResendAfterServed == \A r \in held : r.type # "Done"

Tracked == {r.id : r \in queue \cup pending \cup held}

(* A request leaves the books of the node only after its elevator reported  *)
(* the call served; it is never lost between pop, resend and push.          *)
TrackedUntilServed ==
  [][\A r \in queue \cup pending \cup held :
       r.id \notin Tracked' => r.type = "Done"]_vars

(***************************************************************************)
(* The inductive invariant behind these properties.                        *)
(***************************************************************************)

(* What an acknowledgement carries: only GoingToServe moves a deadline. *)
AckingOK ==
  \A a \in acking :
    a.delta = IF a.change = "GoingToServe" THEN ServeDelta ELSE 0

(* The time the checking thread remembers is a time it has read. *)
NowOK == now <= clock

(* The deadline in force, noted or applied, of an acknowledged request. *)
GivenTime(r) ==
  r.type = "NotDone" =>
    /\ r.acked # NoTime
    /\ IF Tweaked(r) THEN r.tweaked = r.acked + ServeDelta
                     ELSE r.deadline >= r.acked + ServeDelta

DeadlinesOK ==
  /\ \A r \in queue : GivenTime(r)
  /\ \A r \in held : GivenTime(r) /\ ~Tweaked(r) /\ r.deadline <= clock

(* A request that is late already when it is pushed is a new one; as soon   *)
(* as it is acknowledged a new deadline is noted for it.                    *)
LateOnesOK ==
  /\ \A r \in pending : r.type = "NotAcknowledged"
  /\ pc = "waiting" =>
       \A r \in queue :
         r.deadline <= now => r.type = "NotAcknowledged" \/ Tweaked(r)

(* With pushes in time nothing late enters the queue during a wait. *)
InTimeOK ==
  PushesInTime =>
    /\ \A r \in pending : r.deadline > clock
    /\ pc = "waiting" => \A r \in queue : r.deadline > now
    /\ pc # "failed"

IInv ==
  /\ TypeOK
  /\ NoLostWakeup
  /\ AckingOK
  /\ NowOK
  /\ DeadlinesOK
  /\ LateOnesOK
  /\ InTimeOK
  /\ NoResendAfterServed

-----------------------------------------------------------------------------
(* What the schedulers count on *)

Entry(r) == [id |-> r.id, call |-> r.call, elev |-> r.elev, type |-> r.type]

(* Requests are told apart by their identities, wherever they are.          *)
OneOfEach(S)  == \A r, q \in S : r.id = q.id => r = q
Apart(S, T)   == \A r \in S, q \in T : r.id # q.id

IdsOK ==
  /\ added <= MaxRequests
  /\ \A r \in queue \cup pending \cup held : r.id < added
  /\ OneOfEach(queue)
  /\ Apart(queue, pending) /\ Apart(queue, held) /\ Apart(pending, held)

(* Only an acknowledgement notes a deadline, so that a request which the    *)
(* failing assertion destroys was acknowledged.                             *)
FreshOnesOK ==
  \A r \in queue \cup pending \cup held : r.type = "NotAcknowledged" => ~Tweaked(r)

(* A heap with outdated keys, requests that are only flagged as done, and   *)
(* the checking thread's dealings with them amount to a book (RequestBook), *)
(* which loses an entry only where the assertion can fail.                  *)
Book == INSTANCE RequestBook WITH
  book <- {Entry(r) : r \in {q \in queue : q.type # "Done"}},
  hand <- {Entry(r) : r \in held},
  Ids <- 0 .. MaxRequests - 1,
  Drops <- ~PushesInTime
ImplementsBook == Book!Spec

-----------------------------------------------------------------------------
(* Liveness *)

Overdue(i) ==
  \E r \in queue : r.id = i /\ r.deadline <= clock /\ r.type # "Done" /\ ~Tweaked(r)

(* A request past its deadline is eventually taken for resending, unless    *)
(* it is acknowledged first: the checking thread can neither sleep through  *)
(* a deadline nor spin on flagged requests.                                 *)
OverdueIsTaken ==
  \A i \in 0 .. MaxRequests - 1 :
    Overdue(i) ~> ~Overdue(i)
=============================================================================
