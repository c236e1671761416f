------------------------- MODULE RequestQueueProofs -------------------------
(***************************************************************************)
(* The safety properties of RequestQueue hold for any sets of elevators    *)
(* and calls, any intervals, any number of requests and unbounded time.    *)
(***************************************************************************)
EXTENDS RequestQueue, TLAPS

USE DEF NoTime

(* The initial state satisfies the invariant: the queue is empty and the    *)
(* checking thread has not entered waitForEarliestDeadline.                 *)
LEMMA InitInvariant == Init => IInv
<1> SUFFICES ASSUME Init PROVE IInv
  OBVIOUS
<1>1. TypeOK
  BY DEF Init, TypeOK, Times, Locations, AtMostOne
<1>2. NoLostWakeup /\ AckingOK /\ NowOK /\ DeadlinesOK /\ NoResendAfterServed
  BY DEF Init, NoLostWakeup, AckingOK, NowOK, DeadlinesOK, NoResendAfterServed
<1>3. LateOnesOK /\ InTimeOK
  BY DEF Init, LateOnesOK, InTimeOK
<1> QED BY <1>1, <1>2, <1>3 DEF IInv

-----------------------------------------------------------------------------
(* The steps that touch the queue. *)

(* _addAndForwardRequest builds a request whose deadline is ahead of the    *)
(* clock.                                                                   *)
LEMMA NewRequestStep ==
  ASSUME IInv, NEW call \in Calls, NEW elev \in Elevators, NewRequest(call, elev)
  PROVE  IInv'
<1> USE DeltasAssumption DEF NewRequest, waiter, SchedFree
<1> DEFINE r == NewRequestFor(call, elev)
<1>1. TypeOK /\ pending' = {r} /\ added \in Nat /\ clock \in Nat
  BY DEF IInv, TypeOK
<1>2. r \in Request /\ r.deadline > clock /\ r.type = "NotAcknowledged"
  BY <1>1 DEF NewRequestFor, Request, Times, Status
<1>3. TypeOK'
  BY <1>1, <1>2 DEF TypeOK, AtMostOne
<1>4. NoLostWakeup' /\ AckingOK' /\ NowOK' /\ DeadlinesOK' /\ NoResendAfterServed'
  BY DEF IInv, NoLostWakeup, AckingOK, NowOK, DeadlinesOK, NoResendAfterServed
<1>5. LateOnesOK' /\ InTimeOK'
  BY <1>1, <1>2 DEF IInv, LateOnesOK, InTimeOK
<1> QED
  BY <1>3, <1>4, <1>5 DEF IInv

(* push signals the waiter exactly when the new request is ahead of all     *)
(* others, and that is enough.                                              *)
LEMMA PushStep == IInv /\ Push => IInv'
<1> SUFFICES ASSUME IInv, Push PROVE IInv'
  OBVIOUS
<1> USE DEF Push, PushInto, waiter
<1>1. PICK r \in pending : PushInto(r)
  OBVIOUS
<1>2. TypeOK /\ r \in Request /\ queue \subseteq Request
  BY DEF IInv, TypeOK
<1>3. queue' = queue \cup {r} /\ pending' = {}
  BY <1>1
<1>4. TypeOK'
  BY <1>1, <1>2, <1>3 DEF TypeOK, AtMostOne
<1>5. NoLostWakeup'
  <2> SUFFICES ASSUME pc = "waiting", ~notified', NEW s \in queue'
               PROVE  waitUntil <= s.deadline
    BY DEF NoLostWakeup
  <2>1. ~notified /\ ~NeedsSignal(r)
    BY <1>1
  <2>2. \A q \in queue : waitUntil <= q.deadline
    BY <2>1 DEF IInv, NoLostWakeup
  <2>3. CASE s \in queue
    BY <2>2, <2>3
  <2>4. CASE s = r
    <3>1. PICK q \in queue : ~(r.deadline < q.deadline)
      BY <2>1 DEF NeedsSignal
    <3>2. r.deadline \in Nat /\ q.deadline \in Nat /\ waitUntil \in Int
      BY <1>2 DEF Request, TypeOK, Times
    <3> QED BY <2>2, <2>4, <3>1, <3>2
  <2> QED BY <1>3, <2>3, <2>4
<1>6. GivenTime(r) /\ (~(pc = "waiting") \/ r.type = "NotAcknowledged")
  BY DEF IInv, LateOnesOK, GivenTime
<1>7. AckingOK' /\ NowOK' /\ DeadlinesOK' /\ NoResendAfterServed'
  BY <1>3, <1>6
     DEF IInv, AckingOK, NowOK, DeadlinesOK, NoResendAfterServed, GivenTime, Tweaked
<1>8. LateOnesOK'
  BY <1>3, <1>6 DEF IInv, LateOnesOK, Tweaked
<1>9. InTimeOK'
  <2> SUFFICES ASSUME PushesInTime PROVE InTimeOK'
    BY DEF InTimeOK
  <2>1. r.deadline > clock /\ now <= clock
    BY DEF IInv, InTimeOK, NowOK
  <2>2. r.deadline \in Nat /\ clock \in Nat /\ now \in Int
    BY <1>2 DEF Request, TypeOK, Times
  <2>3. r.deadline > now
    BY <2>1, <2>2
  <2> QED BY <1>3, <2>3 DEF IInv, InTimeOK
<1> QED BY <1>4, <1>5, <1>7, <1>8, <1>9 DEF IInv

(* The acknowledgement reads its time before it has the lock. *)
LEMMA StartAckStep ==
  ASSUME IInv, NEW call \in Calls, NEW elev \in Elevators,
         NEW change \in {"GoingToServe", "Served"}, StartAck(elev, call, change)
  PROVE  IInv'
<1> USE DeltasAssumption DEF StartAck, SchedFree, waiter
<1>1. TypeOK'
  BY DEF IInv, TypeOK, AtMostOne, Acknowledgement
<1>2. AckingOK'
  BY DEF IInv, AckingOK
<1>3. NoLostWakeup' /\ NowOK' /\ DeadlinesOK' /\ NoResendAfterServed'
      /\ LateOnesOK' /\ InTimeOK'
  BY DEF IInv, NoLostWakeup, NowOK, DeadlinesOK, NoResendAfterServed, LateOnesOK, InTimeOK
<1> QED BY <1>1, <1>2, <1>3 DEF IInv

(* What ackRequest does to one request: the key of the heap stays, and an   *)
(* acknowledged request gets its time to be served.                         *)
LEMMA AcknowledgedOne ==
  ASSUME TypeOK, AckingOK, NEW r \in queue, NEW a \in acking, GivenTime(r), Matches(r, a)
  PROVE  LET s == Acknowledged(r, a)
         IN /\ s \in Request
            /\ s.id = r.id /\ s.deadline = r.deadline
            /\ GivenTime(s)
            /\ (r.type = "NotAcknowledged" \/ Tweaked(r)) => Tweaked(s)
<1> DEFINE s == Acknowledged(r, a)
<1> USE DeltasAssumption
<1>1. r \in Request /\ a \in Acknowledgement
  BY DEF TypeOK
<1>2. a.at \in Nat /\ a.delta \in Nat /\ ServeDelta > 0
  BY <1>1 DEF Acknowledgement
<1>3. s \in Request /\ s.id = r.id /\ s.deadline = r.deadline
  <2>1. NextStatus(r.type) \in Status
    BY DEF NextStatus, Status
  <2>2. (IF a.delta > 0 THEN a.at + a.delta ELSE r.tweaked) \in Times
    BY <1>1, <1>2 DEF Times, Request
  <2>3. (IF a.delta > 0 THEN a.delta ELSE r.delta) \in Nat
    BY <1>1, <1>2 DEF Request
  <2>4. 0 \in Nat /\ a.at \in Times
    BY <1>2 DEF Times
  <2> HIDE DEF NoTime
  <2> QED BY <1>1, <2>1, <2>2, <2>3, <2>4 DEF Acknowledged, Request
<1>4. r.type = "NotAcknowledged" <=> a.delta = ServeDelta
  BY <1>1, <1>2 DEF AckingOK, Matches, TriggerType, Acknowledgement
<1>5. s.type = NextStatus(r.type) /\ s.acked = a.at
      /\ s.tweaked = IF a.delta > 0 THEN a.at + a.delta ELSE r.tweaked
  BY <1>1 DEF Acknowledged, Request
<1>6. CASE r.type = "NotAcknowledged"
  <2>1. s.tweaked = a.at + ServeDelta /\ s.acked = a.at
    BY <1>2, <1>4, <1>5, <1>6
  <2> QED BY <1>2, <1>3, <2>1 DEF GivenTime, Tweaked
<1>7. CASE r.type # "NotAcknowledged"
  <2>1. s.type = "Done"
    BY <1>5, <1>7 DEF NextStatus
  <2>2. a.delta = 0
    BY <1>1, <1>4, <1>7 DEF AckingOK
  <2> QED BY <1>3, <1>5, <1>7, <2>1, <2>2 DEF GivenTime, Tweaked
<1> QED BY <1>6, <1>7

(* ackRequest changes requests in place and signals nobody. *)
LEMMA AckStep == IInv /\ Ack => IInv'
<1> SUFFICES ASSUME IInv, Ack PROVE IInv'
  OBVIOUS
<1> USE DEF Ack, waiter
<1>1. PICK a \in acking :
        queue' = {IF Matches(r, a) THEN Acknowledged(r, a) ELSE r : r \in queue}
  OBVIOUS
<1>2. ASSUME NEW s \in queue'
      PROVE  \E r \in queue :
               /\ s \in Request /\ s.id = r.id /\ s.deadline = r.deadline /\ GivenTime(s)
               /\ (r.type = "NotAcknowledged" \/ Tweaked(r))
                    => (s.type = "NotAcknowledged" \/ Tweaked(s))
  <2>1. PICK r \in queue : s = IF Matches(r, a) THEN Acknowledged(r, a) ELSE r
    BY <1>1, <1>2
  <2>2. TypeOK /\ AckingOK /\ GivenTime(r) /\ r \in Request
    BY DEF IInv, DeadlinesOK, TypeOK
  <2> QED BY <2>1, <2>2, AcknowledgedOne
<1>3. TypeOK'
  <2>1. queue' \subseteq Request
    BY <1>2
  <2> QED BY <2>1 DEF IInv, TypeOK, AtMostOne
<1>4. NoLostWakeup' /\ LateOnesOK' /\ InTimeOK'
  BY <1>2 DEF IInv, NoLostWakeup, LateOnesOK, InTimeOK, Tweaked
<1>5. DeadlinesOK'
  BY <1>2 DEF IInv, DeadlinesOK, GivenTime, Tweaked
<1>6. AckingOK' /\ NowOK' /\ NoResendAfterServed'
  BY DEF IInv, AckingOK, NowOK, NoResendAfterServed
<1> QED BY <1>3, <1>4, <1>5, <1>6 DEF IInv

-----------------------------------------------------------------------------
(* The checking thread. *)

(* Under the lock: flagged requests go and noted deadlines are applied. *)
LEMMA CleaningStep == IInv /\ (DropDone \/ ApplyTweak) => IInv'
<1> SUFFICES ASSUME IInv, DropDone \/ ApplyTweak PROVE IInv'
  OBVIOUS
<1> USE DEF waiter, sched, IsTop
<1>1. CASE DropDone
  <2>1. queue' \subseteq queue /\ UNCHANGED <<clock, added, sched, waiter, notified>>
    BY <1>1 DEF DropDone
  <2>2. TypeOK'
    BY <2>1 DEF IInv, TypeOK, AtMostOne
  <2> QED
    BY <2>1, <2>2 DEF IInv, NoLostWakeup, AckingOK, NowOK, DeadlinesOK,
      LateOnesOK, InTimeOK, NoResendAfterServed, GivenTime, Tweaked
<1>2. CASE ApplyTweak
  <2>1. PICK r \in queue : Tweaked(r) /\ r.type # "Done" /\ queue' = (queue \ {r}) \cup {WithTweak(r)}
    BY <1>2 DEF ApplyTweak, Flagged
  <2>2. pc = "scan" /\ UNCHANGED <<clock, added, sched, waiter, notified>>
    BY <1>2 DEF ApplyTweak
  <2>3. r \in Request /\ GivenTime(r)
    BY DEF IInv, TypeOK, DeadlinesOK
  <2>4. WithTweak(r) \in Request /\ GivenTime(WithTweak(r))
    <3>1. r.tweaked \in Nat
      BY <2>1, <2>3 DEF Request, Tweaked, Times
    <3>2. NoTime \in Times
      BY DEF Times
    <3>3. WithTweak(r) \in Request
      BY <2>3, <3>1, <3>2 DEF WithTweak, Request
    <3>4. /\ WithTweak(r).deadline = r.tweaked /\ WithTweak(r).tweaked = NoTime
          /\ WithTweak(r).type = r.type /\ WithTweak(r).acked = r.acked
      BY <2>3 DEF WithTweak, Request
    <3>5. GivenTime(r) => GivenTime(WithTweak(r))
      BY <2>1, <3>1, <3>4 DEF GivenTime, Tweaked
    <3> QED BY <2>3, <3>3, <3>5
  <2>5. TypeOK'
    BY <2>1, <2>2, <2>4 DEF IInv, TypeOK, AtMostOne
  <2>6. DeadlinesOK'
    BY <2>1, <2>2, <2>4 DEF IInv, DeadlinesOK, GivenTime, Tweaked
  <2>7. NoLostWakeup' /\ AckingOK' /\ NowOK' /\ LateOnesOK' /\ InTimeOK' /\ NoResendAfterServed'
    BY <2>2 DEF IInv, NoLostWakeup, AckingOK, NowOK, LateOnesOK, InTimeOK, NoResendAfterServed
  <2> QED BY <2>5, <2>6, <2>7 DEF IInv
<1> QED BY <1>1, <1>2

(* Entering the wait: the thread sleeps no longer than to the top's         *)
(* deadline, and that lies ahead.                                           *)
LEMMA WaitStep == IInv /\ Wait => IInv'
<1> SUFFICES ASSUME IInv, Wait PROVE IInv'
  OBVIOUS
<1> USE DEF sched
<1>1. /\ pc = "scan" /\ pc' = "waiting" /\ now' = clock /\ waitUntil' > clock
      /\ UNCHANGED <<clock, queue, added, sched, d0, notified, held>>
  BY DEF Wait
<1>2. clock \in Nat /\ d0 \in Int /\ queue \subseteq Request
      /\ \A r \in queue : r.deadline \in Nat
  BY DEF IInv, TypeOK, Times, Request
<1>3. waitUntil' \in Times /\ \A r \in queue : waitUntil' <= r.deadline
  <2>1. CASE queue = {} /\ waitUntil' = d0
    BY <1>2, <2>1 DEF IInv, TypeOK
  <2>2. CASE \E r \in queue : CleanTop(r) /\ waitUntil' = WaitDeadline(r.deadline)
    <3>1. PICK r \in queue : CleanTop(r) /\ waitUntil' = WaitDeadline(r.deadline)
      BY <2>2
    <3>2. \A q \in queue : r.deadline <= q.deadline
      BY <3>1 DEF CleanTop, IsTop
    <3>3. waitUntil' <= r.deadline /\ waitUntil' \in Times
      BY <1>2, <3>1 DEF WaitDeadline, Earlier, IInv, TypeOK, Times
    <3> QED BY <1>2, <3>2, <3>3 DEF Times
  <2> QED BY <2>1, <2>2 DEF Wait
<1>4. \A r \in queue : r.deadline > now'
  BY <1>1, <1>2, <1>3 DEF Times
<1>5. TypeOK'
  BY <1>1, <1>2, <1>3 DEF IInv, TypeOK, Times, Locations, AtMostOne
<1>6. NoLostWakeup'
  BY <1>1, <1>3 DEF NoLostWakeup
<1>7. NowOK' /\ AckingOK' /\ NoResendAfterServed'
  BY <1>1, <1>2 DEF IInv, NowOK, AckingOK, NoResendAfterServed
<1>8. DeadlinesOK'
  BY <1>1 DEF IInv, DeadlinesOK, GivenTime, Tweaked
<1>9. LateOnesOK' /\ InTimeOK'
  <2>1. \A r \in queue : ~(r.deadline <= now')
    BY <1>1, <1>2, <1>4
  <2> QED BY <1>1, <1>4, <2>1 DEF IInv, LateOnesOK, InTimeOK
<1> QED BY <1>5, <1>6, <1>7, <1>8, <1>9 DEF IInv

(* A due request is taken: clean after a scan, or late after a timeout. *)
LEMMA TakeStep == IInv /\ (ReturnDue \/ TimedOutTake) => IInv'
<1> SUFFICES ASSUME IInv, ReturnDue \/ TimedOutTake PROVE IInv'
  OBVIOUS
<1> USE DEF sched, Leave
<1>1. PICK r \in queue :
        /\ queue' = queue \ {r}
        /\ r.deadline <= clock
        /\ \/ held' = {r} /\ ~Tweaked(r) /\ r.type # "Done" /\ pc' = "got"
           \/ held' = {} /\ pc' = "failed" /\ ~PushesInTime
  <2>1. CASE ReturnDue
    BY <2>1 DEF ReturnDue, CleanTop, Flagged
  <2>2. CASE TimedOutTake
    <3>1. PICK r \in queue :
            /\ r.deadline <= now /\ queue' = queue \ {r}
            /\ \/ ~Tweaked(r) /\ pc' = "got" /\ held' = {r}
               \/ Tweaked(r) /\ pc' = "failed" /\ held' = {}
      BY <2>2 DEF TimedOutTake, TimeAfterWait
    <3>2. r.deadline \in Nat /\ now \in Int /\ clock \in Nat /\ now <= clock
      BY DEF IInv, TypeOK, Request, Times, NowOK
    <3>3. pc = "waiting"
      BY <2>2 DEF TimedOutTake
    <3>4. r.type = "NotAcknowledged" \/ Tweaked(r)
      BY <3>1, <3>3 DEF IInv, LateOnesOK
    <3>5. ~PushesInTime
      BY <3>1, <3>2, <3>3 DEF IInv, InTimeOK
    <3> QED BY <3>1, <3>2, <3>4, <3>5
  <2> QED BY <2>1, <2>2
<1>2. /\ UNCHANGED <<clock, added, sched>>
      /\ d0' = NoTime /\ now' = NoTime /\ waitUntil' = NoTime /\ notified' = FALSE
  BY DEF ReturnDue, TimedOutTake
<1>3. r \in Request /\ GivenTime(r)
  BY DEF IInv, TypeOK, DeadlinesOK
<1>4. TypeOK'
  BY <1>1, <1>2, <1>3 DEF IInv, TypeOK, Times, Locations, AtMostOne
<1>5. NowOK' /\ NoLostWakeup' /\ AckingOK'
  BY <1>1, <1>2 DEF IInv, TypeOK, NowOK, NoLostWakeup, AckingOK
<1>6. DeadlinesOK'
  BY <1>1, <1>2, <1>3 DEF IInv, DeadlinesOK, GivenTime, Tweaked
<1>7. LateOnesOK' /\ InTimeOK' /\ NoResendAfterServed'
  BY <1>1, <1>2 DEF IInv, LateOnesOK, InTimeOK, NoResendAfterServed
<1> QED BY <1>4, <1>5, <1>6, <1>7 DEF IInv

(* Nothing to take, or nothing but a change of place. *)
LEMMA MoveStep ==
  IInv /\ (Call \/ Acquire \/ ReturnNothing \/ Wake \/ TimedOutNothing \/ RestartLoop)
    => IInv'
<1> SUFFICES ASSUME IInv,
                    Call \/ Acquire \/ ReturnNothing \/ Wake \/ TimedOutNothing \/ RestartLoop
             PROVE  IInv'
  OBVIOUS
<1> USE DeltasAssumption
        DEF sched, locals, Leave, Call, Acquire, ReturnNothing, Wake, TimedOutNothing,
            RestartLoop
<1>1. /\ UNCHANGED <<clock, queue, added, pending, acking, held>>
      /\ pc' \in {"locking", "scan", "idle"}
      /\ pc \notin {"got"}
  OBVIOUS
<1>2. now' = now \/ now' = NoTime
  OBVIOUS
<1>3. TypeOK'
  <2>1. /\ clock \in Nat /\ d0 \in Times /\ now \in Times /\ waitUntil \in Times
        /\ notified \in BOOLEAN
    BY DEF IInv, TypeOK
  <2>2. d0' \in Times /\ (d0' = NoTime <=> pc' \in {"idle", "got", "failed"})
    BY <2>1 DEF IInv, TypeOK, Times
  <2>3. now' \in Times /\ waitUntil' \in Times /\ notified' \in BOOLEAN
    BY <2>1 DEF Times
  <2> QED BY <1>1, <2>2, <2>3 DEF IInv, TypeOK, Locations, AtMostOne
<1>4. NowOK'
  BY <1>1, <1>2 DEF IInv, TypeOK, NowOK
<1>5. NoLostWakeup' /\ AckingOK' /\ LateOnesOK' /\ InTimeOK' /\ NoResendAfterServed'
  BY <1>1 DEF IInv, NoLostWakeup, AckingOK, LateOnesOK, InTimeOK, NoResendAfterServed
<1>6. DeadlinesOK'
  BY <1>1 DEF IInv, DeadlinesOK, GivenTime, Tweaked
<1> QED BY <1>3, <1>4, <1>5, <1>6 DEF IInv

(* A resent request is a legal one and keeps its identity. *)
LEMMA ResentOne ==
  ASSUME TypeOK, NEW r \in held, NEW elev \in Elevators
  PROVE  LET s == Resent(r, elev)
         IN /\ s \in Request /\ s.id = r.id
            /\ s.type # "NotDone" \/ r.type = "Done"
<1>1. r \in Request /\ clock \in Nat
  BY DEF TypeOK
<1>2. CountedResend(r.repeated) \in Nat
  BY <1>1, DeltasAssumption DEF CountedResend, Earlier, Request
<1>3. clock + r.delta \in Nat /\ r.type \in Status /\ r.elev \in Elevators
  BY <1>1 DEF Request
<1>4. (IF Reschedules(r) THEN elev ELSE r.elev) \in Elevators
  BY <1>3
<1>5. (IF Reschedules(r) THEN "NotAcknowledged" ELSE r.type) \in Status
  BY <1>3 DEF Status
<1>6. Resent(r, elev) \in Request
  BY <1>1, <1>2, <1>3, <1>4, <1>5 DEF Resent, Request
<1>7. /\ Resent(r, elev).id = r.id
      /\ Resent(r, elev).type = IF Reschedules(r) THEN "NotAcknowledged" ELSE r.type
  BY <1>1 DEF Resent, Request
<1>8. r.type = "NotDone" => Reschedules(r)
  BY DEF Reschedules
<1> QED BY <1>6, <1>7, <1>8

(* _resendRequest. *)
LEMMA ResendStep == IInv /\ Resend => IInv'
<1> SUFFICES ASSUME IInv, Resend PROVE IInv'
  OBVIOUS
<1> USE DEF sched, locals, Resend, PushInto
<1>1. PICK r \in held, elev \in Elevators : queue' = queue \cup {Resent(r, elev)}
  OBVIOUS
<1>2. /\ Resent(r, elev) \in Request
      /\ Resent(r, elev).type # "NotDone"
  <2>1. TypeOK /\ r.type # "Done"
    BY DEF IInv, NoResendAfterServed
  <2> QED BY <2>1, ResentOne
<1>3. /\ UNCHANGED <<clock, added, pending, acking, d0, now, waitUntil>>
      /\ held' = {} /\ pc = "got" /\ pc' = "idle" /\ notified' \in BOOLEAN
  BY DEF IInv, TypeOK
<1>4. TypeOK'
  BY <1>1, <1>2, <1>3 DEF IInv, TypeOK, Locations, AtMostOne
<1>5. DeadlinesOK'
  BY <1>1, <1>2, <1>3 DEF IInv, DeadlinesOK, GivenTime, Tweaked
<1>6. NoLostWakeup' /\ AckingOK' /\ NowOK' /\ LateOnesOK' /\ InTimeOK' /\ NoResendAfterServed'
  BY <1>3 DEF IInv, NoLostWakeup, AckingOK, NowOK, LateOnesOK, InTimeOK, NoResendAfterServed
<1> QED BY <1>4, <1>5, <1>6 DEF IInv

-----------------------------------------------------------------------------
(* Time passes. *)
LEMMA TickStep == IInv /\ Tick => IInv'
<1> SUFFICES ASSUME IInv, Tick PROVE IInv'
  OBVIOUS
<1> USE DEF Tick, sched, waiter
<1>1. clock \in Nat /\ now \in Int /\ clock' = clock + 1
      /\ UNCHANGED <<queue, added, pending, acking, pc, d0, now, waitUntil, held, notified>>
  BY DEF IInv, TypeOK, Times
<1>2. TypeOK'
  BY <1>1 DEF IInv, TypeOK, AtMostOne
<1>3. NowOK'
  BY <1>1 DEF IInv, NowOK
<1>4. DeadlinesOK'
  <2>1. \A r \in held : r.deadline \in Nat /\ r.deadline <= clock
    BY DEF IInv, TypeOK, Request, DeadlinesOK
  <2> QED BY <1>1, <2>1 DEF IInv, DeadlinesOK, GivenTime, Tweaked
<1>5. InTimeOK'
  <2>1. PushesInTime => \A r \in pending : r.deadline > clock'
    <3>1. \A r \in pending : r.deadline \in Nat
      BY DEF IInv, TypeOK, Request
    <3> QED BY <1>1, <3>1
  <2> QED BY <1>1, <2>1 DEF IInv, InTimeOK
<1>6. NoLostWakeup' /\ AckingOK' /\ LateOnesOK' /\ NoResendAfterServed'
  BY <1>1 DEF IInv, NoLostWakeup, AckingOK, LateOnesOK, NoResendAfterServed, Tweaked
<1> QED BY <1>2, <1>3, <1>4, <1>5, <1>6 DEF IInv

(* A step that changes nothing keeps the invariant. *)
LEMMA StutterStep == IInv /\ UNCHANGED vars => IInv'
  BY DEF IInv, vars, waiter, sched, TypeOK, AtMostOne, NoLostWakeup, AckingOK, NowOK,
         DeadlinesOK, LateOnesOK, InTimeOK, NoResendAfterServed, GivenTime, Tweaked

(* The invariant is inductive. *)
THEOREM Invariance == Spec => []IInv
<1>1. IInv /\ [Next]_vars => IInv'
  <2> SUFFICES ASSUME IInv, [Next]_vars PROVE IInv'
    OBVIOUS
  <2>1. CASE UNCHANGED vars
    BY <2>1, StutterStep
  <2>2. CASE Tick
    BY <2>2, TickStep
  <2>3. CASE Scheduling
    BY <2>3, PushStep, AckStep, NewRequestStep, StartAckStep DEF Scheduling
  <2>4. CASE Checking
    BY <2>4, CleaningStep, WaitStep, TakeStep, MoveStep, ResendStep DEF Checking
  <2> QED BY <2>1, <2>2, <2>3, <2>4 DEF Next
<1> QED BY InitInvariant, <1>1, PTL DEF Spec

-----------------------------------------------------------------------------
(* The main results. *)

(* Types are right in every state. *)
THEOREM TypeCorrect == Spec => []TypeOK
<1>1. IInv => TypeOK
  BY DEF IInv
<1> QED BY Invariance, <1>1, PTL

(* The waiter of the condition variable never sleeps past a deadline        *)
(* (push, requestqueue.cpp:60-69), with or without late pushes.             *)
THEOREM NoLostWakeupHolds == Spec => []NoLostWakeup
<1>1. IInv => NoLostWakeup
  BY DEF IInv
<1> QED BY Invariance, <1>1, PTL

(* The assertion of requestqueue.cpp:54 holds when every request is pushed  *)
(* before its own deadline; this is the whole condition it needs.           *)
THEOREM NoTweakLostHolds == PushesInTime => (Spec => []NoTweakLost)
<1>1. PushesInTime /\ IInv => NoTweakLost
  BY DEF IInv, InTimeOK, NoTweakLost
<1> SUFFICES ASSUME PushesInTime PROVE Spec => []NoTweakLost
  OBVIOUS
<1>2. IInv => NoTweakLost
  BY <1>1
<1> QED BY Invariance, <1>2, PTL

(* An acknowledged request is given its full time to be served. *)
THEOREM PatienceHolds == Spec => []PatienceAfterAck
<1>1. IInv => PatienceAfterAck
  <2> SUFFICES ASSUME IInv, NEW r \in held, r.type = "NotDone"
               PROVE  clock >= r.acked + ServeDelta
    BY DEF PatienceAfterAck
  <2>1. r.deadline \in Nat /\ clock \in Nat /\ r.acked \in Int /\ ServeDelta \in Nat
    BY DeltasAssumption DEF IInv, TypeOK, Request, Times
  <2> QED BY <2>1 DEF IInv, DeadlinesOK, GivenTime
<1> QED BY Invariance, <1>1, PTL

(* A request that was reported served is not sent again. *)
THEOREM NoResendAfterServedHolds == Spec => []NoResendAfterServed
<1>1. IInv => NoResendAfterServed
  BY DEF IInv
<1> QED BY Invariance, <1>1, PTL

(* One step of the node's books: under PushesInTime nothing but a flagged   *)
(* request drops out of them.                                               *)
LEMMA TrackedStep ==
  ASSUME PushesInTime, IInv, [Next]_vars,
         NEW r \in queue \cup pending \cup held, r.type # "Done"
  PROVE  r.id \in Tracked'
<1> USE DEF sched, waiter, locals, Leave
<1>1. SUFFICES \E s \in queue' \cup pending' \cup held' : s.id = r.id
  BY DEF Tracked
<1>2. TypeOK /\ pc \in Locations
  BY DEF IInv, TypeOK
<1>3. CASE UNCHANGED vars
  BY <1>3 DEF vars
<1>4. CASE Tick
  BY <1>4 DEF Tick
<1>5. CASE Scheduling
  <2>1. CASE Push
    <3>1. PICK p \in pending : queue' = queue \cup {p}
      BY <2>1 DEF Push, PushInto
    <3>2. pending = {p}
      BY <1>2 DEF TypeOK, AtMostOne
    <3> QED BY <2>1, <3>1, <3>2 DEF Push
  <2>2. CASE Ack
    <3>1. PICK a \in acking :
            queue' = {IF Matches(q, a) THEN Acknowledged(q, a) ELSE q : q \in queue}
      BY <2>2 DEF Ack
    <3>2. pending' = pending /\ held' = held
      BY <2>2 DEF Ack
    <3>3. CASE r \in queue
      <4> DEFINE s == IF Matches(r, a) THEN Acknowledged(r, a) ELSE r
      <4>1. s \in queue'
        BY <3>1, <3>3
      <4>2. s.id = r.id
        BY <1>2, <3>3, AcknowledgedOne DEF IInv, DeadlinesOK
      <4> QED BY <4>1, <4>2
    <3> QED BY <3>2, <3>3
  <2>3. CASE \E call \in Calls, elev \in Elevators :
               \/ NewRequest(call, elev)
               \/ \E change \in {"GoingToServe", "Served"} : StartAck(elev, call, change)
    <3>1. queue' = queue /\ held' = held /\ pending \subseteq pending'
      BY <2>3 DEF NewRequest, StartAck, SchedFree
    <3> QED BY <3>1
  <2> QED BY <1>5, <2>1, <2>2, <2>3 DEF Scheduling
<1>6. CASE Checking
  <2>1. pending' = pending
    BY <1>6 DEF Checking, Call, Acquire, DropDone, ApplyTweak, ReturnDue, ReturnNothing,
      Wait, Wake, TimedOutNothing, TimedOutTake, RestartLoop, Resend
  <2>2. CASE r \in held
    <3>1. CASE Resend
      <4>1. PICK q \in held, elev \in Elevators : queue' = queue \cup {Resent(q, elev)}
        BY <3>1 DEF Resend, PushInto
      <4>2. q = r /\ Resent(q, elev).id = q.id
        BY <1>2, <2>2, ResentOne DEF TypeOK, AtMostOne
      <4> QED BY <4>1, <4>2
    <3>2. CASE ~Resend
      <4>1. pc = "got"
        BY <1>2, <2>2 DEF TypeOK
      <4> QED BY <1>6, <3>2, <4>1 DEF Checking, Call, Acquire, DropDone, ApplyTweak,
            ReturnDue, ReturnNothing, Wait, Wake, TimedOutNothing, TimedOutTake, RestartLoop
    <3> QED BY <3>1, <3>2
  <2>3. CASE r \in queue
    <3>1. CASE DropDone
      BY <2>3, <3>1 DEF DropDone, Flagged
    <3>2. CASE ApplyTweak
      <4>1. PICK q \in queue : queue' = (queue \ {q}) \cup {WithTweak(q)}
        BY <3>2 DEF ApplyTweak
      <4>2. WithTweak(q).id = q.id
        BY <1>2 DEF TypeOK, WithTweak, Request
      <4> QED BY <2>3, <4>1, <4>2
    <3>3. CASE ReturnDue
      BY <2>3, <3>3 DEF ReturnDue
    <3>4. CASE TimedOutTake
      <4>1. pc = "waiting"
        BY <3>4 DEF TimedOutTake
      <4>2. PICK q \in queue : q.deadline <= now
        BY <3>4 DEF TimedOutTake, TimeAfterWait
      <4>3. q.deadline > now
        BY <4>1 DEF IInv, InTimeOK
      <4>4. q.deadline \in Nat /\ now \in Int
        BY <1>2 DEF TypeOK, Request, Times
      <4> QED BY <4>2, <4>3, <4>4
    <3>5. CASE Resend
      BY <2>3, <3>5 DEF Resend, PushInto
    <3>6. CASE Call \/ Acquire \/ ReturnNothing \/ Wait \/ Wake \/ TimedOutNothing \/ RestartLoop
      BY <2>3, <3>6 DEF Call, Acquire, ReturnNothing, Wait, Wake, TimedOutNothing, RestartLoop
    <3> QED BY <1>6, <3>1, <3>2, <3>3, <3>4, <3>5, <3>6 DEF Checking
  <2>4. CASE r \in pending
    BY <2>1, <2>4
  <2> QED BY <2>2, <2>3, <2>4
<1> QED BY <1>3, <1>4, <1>5, <1>6 DEF Next

(* While requests are pushed in time, no request leaves the node's books    *)
(* before its elevator reported it served.                                  *)
THEOREM TrackedUntilServedHolds == PushesInTime => (Spec => TrackedUntilServed)
<1> SUFFICES ASSUME PushesInTime PROVE Spec => TrackedUntilServed
  OBVIOUS
<1>1. IInv /\ [Next]_vars
        => [\A r \in queue \cup pending \cup held :
              r.id \notin Tracked' => r.type = "Done"]_vars
  BY TrackedStep
<1> QED BY Invariance, <1>1, PTL DEF Spec, TrackedUntilServed

-----------------------------------------------------------------------------
(* The book that the schedulers take the queue for *)

(* Nothing but NewRequest makes an identity. *)
LEMMA IdsInit == Init => IdsOK
BY BoundsAssumption DEF Init, IdsOK, OneOfEach, Apart

LEMMA IdsOfSchedulingStep ==
  ASSUME IInv, IdsOK, Scheduling
  PROVE  IdsOK'
<1> USE DEF waiter, sched
<1>1. /\ TypeOK /\ queue \subseteq Request /\ pending \subseteq Request
      /\ held \subseteq Request /\ added \in Nat /\ MaxRequests \in Nat
  BY BoundsAssumption DEF IInv, TypeOK
<1>2. CASE Push
  <2>1. PICK p \in pending : queue' = queue \cup {p}
    BY <1>2 DEF Push, PushInto
  <2>2. pending' = {} /\ held' = held /\ added' = added
    BY <1>2 DEF Push
  <2> QED
    BY <1>1, <2>1, <2>2 DEF IdsOK, OneOfEach, Apart
<1>3. CASE Ack
  <2>1. PICK a \in acking :
          queue' = {IF Matches(r, a) THEN Acknowledged(r, a) ELSE r : r \in queue}
    BY <1>3 DEF Ack
  <2>2. pending' = pending /\ held' = held /\ added' = added
    BY <1>3 DEF Ack
  <2>3. \A s \in queue' : \E r \in queue :
          s.id = r.id /\ s = IF Matches(r, a) THEN Acknowledged(r, a) ELSE r
    BY <1>1, <2>1, AcknowledgedOne DEF IInv, DeadlinesOK
  <2>4. OneOfEach(queue')
    BY <2>3 DEF IdsOK, OneOfEach
  <2>5. \A r \in queue' \cup pending' \cup held' : r.id < added'
    BY <2>2, <2>3 DEF IdsOK
  <2>6. Apart(queue', pending') /\ Apart(queue', held') /\ Apart(pending', held')
    BY <2>2, <2>3 DEF IdsOK, Apart
  <2> QED
    BY <2>2, <2>4, <2>5, <2>6 DEF IdsOK, OneOfEach, Apart
<1>4. ASSUME NEW call \in Calls, NEW elev \in Elevators, NewRequest(call, elev)
      PROVE  IdsOK'
  <2>1. /\ pending' = {NewRequestFor(call, elev)} /\ NewRequestFor(call, elev).id = added
        /\ queue' = queue /\ held' = held /\ added' = added + 1 /\ added < MaxRequests
    BY <1>4 DEF NewRequest, NewRequestFor
  <2>2. \A r \in queue \cup held : r.id < added /\ r.id \in Nat
    BY <1>1 DEF IdsOK, Request
  <2>3. \A r \in queue' \cup pending' \cup held' : r.id < added'
    BY <1>1, <2>1, <2>2
  <2>4. Apart(queue', pending') /\ Apart(queue', held') /\ Apart(pending', held')
    BY <1>1, <2>1, <2>2 DEF IdsOK, Apart
  <2> QED
    BY <1>1, <2>1, <2>3, <2>4 DEF IdsOK, OneOfEach, Apart
<1>5. ASSUME NEW call \in Calls, NEW elev \in Elevators,
             NEW change \in {"GoingToServe", "Served"}, StartAck(elev, call, change)
      PROVE  IdsOK'
  BY <1>5 DEF StartAck, IdsOK, OneOfEach, Apart
<1> QED
  BY <1>2, <1>3, <1>4, <1>5 DEF Scheduling

(* Any part of the queue may be taken out, in whole or to another place. *)
LEMMA IdsOfFewer ==
  ASSUME IdsOK, queue' \subseteq queue, pending' = pending, added' = added,
         held' = {} \/ \E r \in queue \ queue' : held' = {r}
  PROVE  IdsOK'
BY DEF IdsOK, OneOfEach, Apart

LEMMA IdsOfCheckingStep ==
  ASSUME IInv, IdsOK, Checking
  PROVE  IdsOK'
<1> USE DEF waiter, sched, locals, Leave
<1>1. /\ TypeOK /\ queue \subseteq Request /\ held \subseteq Request
      /\ pending' = pending /\ added' = added
      /\ pc # "got" => held = {}
  BY DEF IInv, TypeOK, Checking, Call, Acquire, DropDone, ApplyTweak, ReturnDue,
     ReturnNothing, Wait, Wake, TimedOutNothing, TimedOutTake, RestartLoop, Resend
<1>2. CASE Call \/ Acquire \/ ReturnNothing \/ Wait \/ Wake \/ TimedOutNothing \/ RestartLoop
  BY <1>2 DEF Call, Acquire, ReturnNothing, Wait, Wake, TimedOutNothing, RestartLoop,
              IdsOK, OneOfEach, Apart
<1>3. CASE DropDone \/ ReturnDue \/ TimedOutTake
  BY <1>1, <1>3, IdsOfFewer DEF DropDone, ReturnDue, TimedOutTake
<1>4. CASE ApplyTweak
  <2>1. PICK q \in queue : queue' = (queue \ {q}) \cup {WithTweak(q)}
    BY <1>4 DEF ApplyTweak
  <2>2. WithTweak(q).id = q.id /\ held' = held
    BY <1>1, <1>4 DEF ApplyTweak, WithTweak, Request
  <2> QED
    BY <1>1, <2>1, <2>2 DEF IdsOK, OneOfEach, Apart
<1>5. CASE Resend
  <2>1. PICK q \in held, elev \in Elevators : queue' = queue \cup {Resent(q, elev)}
    BY <1>5 DEF Resend, PushInto
  <2>2. Resent(q, elev).id = q.id /\ held' = {}
    BY <1>1, <1>5 DEF Resend, Resent, Request
  <2>3. Apart(queue, {q}) /\ Apart(pending, {q}) /\ q.id < added
    BY DEF IdsOK, Apart
  <2> QED
    BY <1>1, <2>1, <2>2, <2>3 DEF IdsOK, OneOfEach, Apart
<1> QED
  BY <1>2, <1>3, <1>4, <1>5 DEF Checking

LEMMA IdsStep == IInv /\ IdsOK /\ [Next]_vars => IdsOK'
<1>1. ASSUME IdsOK, Tick \/ UNCHANGED vars PROVE IdsOK'
  BY <1>1 DEF Tick, vars, waiter, sched, IdsOK, OneOfEach, Apart
<1> QED
  BY <1>1, IdsOfSchedulingStep, IdsOfCheckingStep DEF Next

(* The entries of a set of requests: those that are not done. *)
Entries(S) == {Entry(r) : r \in {q \in S : q.type # "Done"}}
Hand       == {Entry(r) : r \in held}

(* Steps that change no more than keys and noted deadlines.                 *)
LEMMA SameBook ==
  ASSUME Entries(queue') = Entries(queue), held' = held
  PROVE  UNCHANGED Book!vars
BY DEF Book!vars, Entries, Hand

(* push *)
LEMMA PushIsAdd == ASSUME IInv, IdsOK, Push PROVE Book!Next
<1>1. PICK p \in pending : queue' = queue \cup {p}
  BY DEF Push, PushInto
<1>2. /\ p \in Request /\ p.type = "NotAcknowledged" /\ added \in Nat
      /\ held' = held
  BY DEF IInv, TypeOK, LateOnesOK, Push, waiter
<1>3. /\ p.id \in 0 .. MaxRequests - 1
      /\ \A r \in queue \cup held : r.id # p.id
  BY <1>2, BoundsAssumption DEF IdsOK, Apart, Request
<1>4. /\ Entry(p) = Book!NewEntry(p.id, p.call, p.elev)
      /\ p.call \in Calls /\ p.elev \in Elevators
  BY <1>2 DEF Entry, Book!NewEntry, Request
<1>5. Entries(queue') = Entries(queue) \cup {Book!NewEntry(p.id, p.call, p.elev)}
  BY <1>1, <1>2, <1>4 DEF Entries
<1>6. \A r \in Entries(queue) \cup Hand : r.id # p.id
  BY <1>3 DEF Entries, Hand, Entry
<1>7. Book!Add(p.call, p.elev)
  BY <1>2, <1>3, <1>5, <1>6 DEF Book!Add, Entries, Hand
<1> QED
  BY <1>4, <1>7 DEF Book!Next

(* What ackRequest does to a request, as an entry.                          *)
LEMMA AcknowledgedEntry ==
  ASSUME TypeOK, NEW r \in queue, NEW a \in acking, Matches(r, a)
  PROVE  LET s == Acknowledged(r, a)
         IN  /\ a.change = "GoingToServe" =>
                  /\ r.type = "NotAcknowledged" /\ s.type = "NotDone"
                  /\ Entry(s) = [Entry(r) EXCEPT !.type = "NotDone"]
             /\ a.change = "Served" => r.type # "NotAcknowledged" /\ s.type = "Done"
<1> DEFINE s == Acknowledged(r, a)
<1>1. r \in Request /\ a \in Acknowledgement
  BY DEF TypeOK
<1>2. /\ s.id = r.id /\ s.call = r.call /\ s.elev = r.elev
      /\ s.type = NextStatus(r.type)
  BY <1>1 DEF Acknowledged, Request
<1>3. a.change = "GoingToServe" <=> r.type = "NotAcknowledged"
  BY DEF Matches, TriggerType
<1> HIDE DEF s
<1>4. CASE a.change = "GoingToServe"
  <2>1. r.type = "NotAcknowledged" /\ s.type = "NotDone"
    BY <1>2, <1>3, <1>4 DEF NextStatus
  <2>2. Entry(s) = [Entry(r) EXCEPT !.type = "NotDone"]
    BY <1>2, <2>1 DEF Entry
  <2> QED
    BY <1>4, <2>1, <2>2 DEF s
<1>5. CASE a.change # "GoingToServe"
  BY <1>2, <1>3, <1>5 DEF NextStatus, s
<1> QED
  BY <1>4, <1>5

(* ackRequest *)
LEMMA AckIsReport == ASSUME IInv, Ack PROVE Book!Next
<1>1. PICK a \in acking :
        queue' = {IF Matches(r, a) THEN Acknowledged(r, a) ELSE r : r \in queue}
  BY DEF Ack
<1>2. /\ TypeOK /\ queue \subseteq Request /\ held' = held
      /\ a.call \in Calls /\ a.elev \in Elevators
      /\ a.change \in {"GoingToServe", "Served"}
  BY DEF IInv, TypeOK, Acknowledgement, Ack, waiter
<1> DEFINE After(r) == IF Matches(r, a) THEN Acknowledged(r, a) ELSE r
           Left     == {After(r) : r \in {q \in queue : After(q).type # "Done"}}
<1>3. Entries(queue') = {Entry(s) : s \in Left}
  BY <1>1 DEF Entries
<1>4. \A r \in queue : Matches(r, a) <=>
        /\ r.call = a.call /\ r.elev = a.elev
        /\ r.type = "NotAcknowledged" <=> a.change = "GoingToServe"
  BY <1>2 DEF Matches, TriggerType
<1>5. CASE a.change = "GoingToServe"
  <2> DEFINE W == Book!Waits(a.call, a.elev, "NotAcknowledged")
  <2>1. W = {e \in Entries(queue) :
               e.call = a.call /\ e.elev = a.elev /\ e.type = "NotAcknowledged"}
    BY DEF Book!Waits, Entries
  <2>2. ASSUME NEW r \in queue
        PROVE  /\ After(r).type = "Done" <=> r.type = "Done"
               /\ Matches(r, a) => /\ Entry(r) \in W
                                   /\ Entry(After(r)) = [Entry(r) EXCEPT !.type = "NotDone"]
               /\ ~Matches(r, a) => After(r) = r /\ Entry(r) \notin W
    <3>1. CASE Matches(r, a)
      <4>1. /\ r.type = "NotAcknowledged" /\ After(r).type = "NotDone"
            /\ Entry(After(r)) = [Entry(r) EXCEPT !.type = "NotDone"]
        BY <1>2, <1>5, <3>1, AcknowledgedEntry
      <4>2. Entry(r) \in W
        BY <1>4, <2>1, <3>1, <4>1 DEF Entries, Entry
      <4> QED
        BY <3>1, <4>1, <4>2
    <3>2. CASE ~Matches(r, a)
      <4>1. Entry(r) \notin W
        BY <1>4, <1>5, <2>1, <3>2 DEF Entry
      <4> QED
        BY <3>2, <4>1
    <3> QED
      BY <3>1, <3>2
  <2> HIDE DEF W, After
  <2>3. Entries(queue') =
          (Entries(queue) \ W) \cup {[e EXCEPT !.type = "NotDone"] : e \in W}
    <3>1. ASSUME NEW x \in Entries(queue')
          PROVE  x \in (Entries(queue) \ W) \cup {[e EXCEPT !.type = "NotDone"] : e \in W}
      <4>1. PICK r \in queue : After(r).type # "Done" /\ x = Entry(After(r))
        BY <1>3, <3>1
      <4>2. r.type # "Done"
        BY <2>2, <4>1
      <4>3. CASE Matches(r, a)
        BY <2>2, <4>1, <4>3
      <4>4. CASE ~Matches(r, a)
        BY <2>2, <4>1, <4>2, <4>4 DEF Entries
      <4> QED
        BY <4>3, <4>4
    <3>2. ASSUME NEW x \in Entries(queue) \ W PROVE x \in Entries(queue')
      <4>1. PICK r \in queue : r.type # "Done" /\ x = Entry(r)
        BY <3>2 DEF Entries
      <4>2. ~Matches(r, a)
        BY <2>2, <3>2, <4>1
      <4> QED
        BY <1>3, <2>2, <4>1, <4>2
    <3>3. ASSUME NEW e \in W PROVE [e EXCEPT !.type = "NotDone"] \in Entries(queue')
      <4>1. e \in Entries(queue)
        BY <2>1, <3>3
      <4>2. PICK r \in queue : r.type # "Done" /\ e = Entry(r)
        BY <4>1 DEF Entries
      <4>3. Matches(r, a)
        BY <2>2, <3>3, <4>2
      <4> QED
        BY <1>3, <2>2, <4>2, <4>3
    <3> QED
      BY <3>1, <3>2, <3>3
  <2>4. Book!Going(a.call, a.elev)
    BY <1>2, <2>3 DEF Book!Going, W, Entries, Hand
  <2> QED
    BY <1>2, <2>4 DEF Book!Next
<1>6. CASE a.change = "Served"
  <2> DEFINE W == Book!Waits(a.call, a.elev, "NotDone")
  <2>1. W = {e \in Entries(queue) :
               e.call = a.call /\ e.elev = a.elev /\ e.type = "NotDone"}
    BY DEF Book!Waits, Entries
  <2>2. ASSUME NEW r \in queue
        PROVE  /\ Matches(r, a) => After(r).type = "Done"
               /\ ~Matches(r, a) => After(r) = r
               /\ r.type # "Done" => (Matches(r, a) <=> Entry(r) \in W)
    <3>1. Matches(r, a) => After(r).type = "Done"
      BY <1>2, <1>6, AcknowledgedEntry
    <3>2. r.type # "Done" => (Matches(r, a) <=> Entry(r) \in W)
      <4>1. r.type \in {"NotAcknowledged", "NotDone", "Done"}
        BY <1>2 DEF Request, Status
      <4>2. Entry(r).call = r.call /\ Entry(r).elev = r.elev /\ Entry(r).type = r.type
        BY DEF Entry
      <4>3. r.type # "Done" => Entry(r) \in Entries(queue)
        BY DEF Entries
      <4> QED
        BY <1>4, <1>6, <2>1, <4>1, <4>2, <4>3
    <3> QED
      BY <3>1, <3>2
  <2> HIDE DEF W, After
  <2>3. Entries(queue') = Entries(queue) \ W
    <3>1. ASSUME NEW x \in Entries(queue') PROVE x \in Entries(queue) \ W
      <4>1. PICK r \in queue : After(r).type # "Done" /\ x = Entry(After(r))
        BY <1>3, <3>1
      <4>2. After(r) = r /\ ~Matches(r, a)
        BY <2>2, <4>1
      <4> QED
        BY <2>2, <4>1, <4>2 DEF Entries
    <3>2. ASSUME NEW x \in Entries(queue) \ W PROVE x \in Entries(queue')
      <4>1. PICK r \in queue : r.type # "Done" /\ x = Entry(r)
        BY <3>2 DEF Entries
      <4>2. ~Matches(r, a)
        BY <2>2, <3>2, <4>1
      <4> QED
        BY <1>3, <2>2, <4>1, <4>2
    <3> QED
      BY <3>1, <3>2
  <2>4. Book!Served(a.call, a.elev)
    BY <1>2, <2>3 DEF Book!Served, W, Entries, Hand
  <2> QED
    BY <1>2, <2>4 DEF Book!Next
<1> QED
  BY <1>2, <1>5, <1>6

LEMMA FreshOnesInit == Init => FreshOnesOK
BY DEF Init, FreshOnesOK

LEMMA FreshOnesStep == IInv /\ FreshOnesOK /\ [Next]_vars => FreshOnesOK'
<1> SUFFICES ASSUME IInv, FreshOnesOK, [Next]_vars PROVE FreshOnesOK'
  OBVIOUS
<1> USE DEF sched, waiter, locals, Leave
<1>1. TypeOK /\ queue \subseteq Request /\ held \subseteq Request
  BY DEF IInv, TypeOK
<1>2. CASE Push
  BY <1>2 DEF Push, PushInto, FreshOnesOK
<1>3. CASE Ack
  <2>1. PICK a \in acking :
          queue' = {IF Matches(r, a) THEN Acknowledged(r, a) ELSE r : r \in queue}
    BY <1>3 DEF Ack
  <2>2. ASSUME NEW r \in queue PROVE Acknowledged(r, a).type # "NotAcknowledged"
    BY <1>1 DEF Acknowledged, NextStatus, Request
  <2>3. pending' = pending /\ held' = held
    BY <1>3 DEF Ack
  <2> QED
    BY <2>1, <2>2, <2>3 DEF FreshOnesOK, Tweaked
<1>4. ASSUME NEW call \in Calls, NEW elev \in Elevators, NewRequest(call, elev)
      PROVE  FreshOnesOK'
  BY <1>4 DEF NewRequest, NewRequestFor, FreshOnesOK, Tweaked
<1>5. ASSUME NEW call \in Calls, NEW elev \in Elevators,
             NEW change \in {"GoingToServe", "Served"}, StartAck(elev, call, change)
      PROVE  FreshOnesOK'
  BY <1>5 DEF StartAck, FreshOnesOK, Tweaked
<1>6. CASE DropDone \/ ReturnDue \/ TimedOutTake
  BY <1>6 DEF DropDone, ReturnDue, TimedOutTake, FreshOnesOK, Tweaked
<1>7. CASE ApplyTweak
  <2>1. PICK q \in queue : queue' = (queue \ {q}) \cup {WithTweak(q)}
    BY <1>7 DEF ApplyTweak
  <2>2. ~Tweaked(WithTweak(q))
    BY <1>1 DEF WithTweak, Tweaked, Request
  <2> QED
    BY <1>7, <2>1, <2>2 DEF ApplyTweak, FreshOnesOK, Tweaked
<1>8. CASE Resend
  <2>1. PICK q \in held, elev \in Elevators : queue' = queue \cup {Resent(q, elev)}
    BY <1>8 DEF Resend, PushInto
  <2>2. ~Tweaked(Resent(q, elev))
    BY <1>1 DEF IInv, DeadlinesOK, Resent, Tweaked, Request
  <2> QED
    BY <1>8, <2>1, <2>2 DEF Resend, FreshOnesOK, Tweaked
<1>9. CASE \/ Call \/ Acquire \/ ReturnNothing \/ Wait \/ Wake \/ TimedOutNothing
           \/ RestartLoop \/ Tick \/ UNCHANGED vars
  BY <1>9 DEF Call, Acquire, ReturnNothing, Wait, Wake, TimedOutNothing, RestartLoop,
              Tick, vars, FreshOnesOK, Tweaked
<1> QED
  BY <1>2, <1>3, <1>4, <1>5, <1>6, <1>7, <1>8, <1>9 DEF Next, Scheduling, Checking

(* A request that leaves the queue takes its entry with it, since no other  *)
(* has its identity.                                                        *)
LEMMA EntryLeaves ==
  ASSUME IdsOK, NEW r \in queue, queue' = queue \ {r}
  PROVE  /\ r.type # "Done" => Entries(queue') = Entries(queue) \ {Entry(r)}
         /\ r.type = "Done" => Entries(queue') = Entries(queue)
<1>1. \A q \in queue : Entry(q) = Entry(r) => q = r
  BY DEF IdsOK, OneOfEach, Entry
<1> QED
  BY <1>1 DEF Entries

(* The request that waitForEarliestDeadline returns.                        *)
LEMMA TakeIsTake ==
  ASSUME IInv, IdsOK, NEW r \in queue, queue' = queue \ {r}, held' = {r},
         pc # "got", r.type # "Done"
  PROVE  Book!Next
<1>1. held = {}
  BY DEF IInv, TypeOK
<1>2. Entries(queue') = Entries(queue) \ {Entry(r)} /\ Entry(r) \in Entries(queue)
  BY EntryLeaves DEF Entries
<1>3. Book!Take(Entry(r))
  BY <1>1, <1>2 DEF Book!Take, Entries
<1> QED
  BY <1>2, <1>3 DEF Book!Next, Entries

(* A late one: taken, or dropped as the assertion fails, which it does not  *)
(* if pushes are in time.                                                   *)
LEMMA TimedOutIsTake ==
  ASSUME IInv, IdsOK, FreshOnesOK, TimedOutTake
  PROVE  Book!Next \/ UNCHANGED Book!vars
<1>1. PICK r \in queue :
        /\ r.deadline <= now /\ queue' = queue \ {r}
        /\ \/ ~Tweaked(r) /\ held' = {r}
           \/ Tweaked(r) /\ held' = {}
  BY DEF TimedOutTake, TimeAfterWait
<1>2. /\ pc = "waiting" /\ held = {} /\ r \in Request /\ now \in Int
      /\ r.deadline \in Int
  BY DEF IInv, TypeOK, TimedOutTake, Request, Times
<1>3. CASE ~Tweaked(r) /\ held' = {r}
  <2>1. r.type = "NotAcknowledged"
    BY <1>1, <1>2, <1>3 DEF IInv, LateOnesOK
  <2> QED
    BY <1>1, <1>2, <1>3, <2>1, TakeIsTake
<1>4. CASE Tweaked(r) /\ held' = {}
  <2>1. CASE r.type = "Done"
    BY <1>1, <1>2, <1>4, <2>1, EntryLeaves, SameBook
  <2>2. CASE r.type # "Done"
    <3>1. ~PushesInTime
      BY <1>1, <1>2 DEF IInv, InTimeOK
    <3>2. r.type = "NotDone"
      BY <1>2, <1>4, <2>2 DEF FreshOnesOK, Request, Status
    <3>3. Entries(queue') = Entries(queue) \ {Entry(r)} /\ Entry(r) \in Entries(queue)
      BY <1>1, <2>2, EntryLeaves DEF Entries
    <3>4. Book!Drop(Entry(r))
      BY <1>2, <1>4, <3>1, <3>2, <3>3 DEF Book!Drop, Entries, Entry
    <3> QED
      BY <3>3, <3>4 DEF Book!Next, Entries
  <2> QED
    BY <2>1, <2>2
<1> QED
  BY <1>1, <1>3, <1>4

(* _resendRequest puts the entry back as a new one, for any elevator.       *)
LEMMA ResendIsPutBack == ASSUME IInv, Resend PROVE Book!Next
<1>1. PICK r \in held, elev \in Elevators : queue' = queue \cup {Resent(r, elev)}
  BY DEF Resend, PushInto
<1> DEFINE s == Resent(r, elev)
<1>2. /\ TypeOK /\ r \in Request /\ r.type \in {"NotAcknowledged", "NotDone"}
      /\ Hand = {Entry(r)} /\ held' = {}
  BY DEF IInv, TypeOK, NoResendAfterServed, AtMostOne, Resend, Request, Status, Hand
<1>3. s.id = r.id /\ s.call = r.call /\ s.elev \in Elevators /\ s.type = "NotAcknowledged"
  BY <1>2 DEF Resent, Reschedules, Request
<1> HIDE DEF s
<1>4. PICK e \in Elevators : e = s.elev
  BY <1>3
<1>5. Entry(s) = Book!NewEntry(r.id, r.call, e)
  BY <1>3, <1>4 DEF Entry, Book!NewEntry
<1>6. Entries(queue') = Entries(queue) \cup {Entry(s)}
  BY <1>1, <1>3 DEF Entries, s
<1>7. Entry(r) \in Hand /\ Entry(r).id = r.id /\ Entry(r).call = r.call
  BY <1>2 DEF Entry
<1>8. Book!PutBack(Entry(r), e)
  BY <1>2, <1>5, <1>6, <1>7 DEF Book!PutBack, Entries
<1> QED
  BY <1>7, <1>8 DEF Book!Next, Hand

(* Applying a noted deadline, or dropping what is flagged, is no step of the *)
(* book.                                                                    *)
LEMMA CleaningIsNoStep ==
  ASSUME IInv, IdsOK, DropDone \/ ApplyTweak
  PROVE  UNCHANGED Book!vars
<1>1. held' = held
  BY DEF DropDone, ApplyTweak, waiter
<1>2. CASE DropDone
  <2>1. PICK r \in queue : r.type = "Done" /\ queue' = queue \ {r}
    BY <1>2 DEF DropDone, Flagged
  <2> QED
    BY <1>1, <2>1, EntryLeaves, SameBook
<1>3. CASE ApplyTweak
  <2>1. PICK r \in queue : queue' = (queue \ {r}) \cup {WithTweak(r)} /\ r \in Request
    BY <1>3 DEF ApplyTweak, IInv, TypeOK
  <2>2. Entry(WithTweak(r)) = Entry(r) /\ WithTweak(r).type = r.type
    BY <2>1 DEF WithTweak, Entry, Request
  <2>3. Entries(queue') = Entries(queue)
    BY <2>1, <2>2 DEF Entries
  <2> QED
    BY <1>1, <2>3, SameBook
<1> QED
  BY <1>2, <1>3

LEMMA BookStep ==
  IInv /\ IdsOK /\ FreshOnesOK /\ [Next]_vars => [Book!Next]_(Book!vars)
<1> SUFFICES ASSUME IInv, IdsOK, FreshOnesOK, [Next]_vars
             PROVE  Book!Next \/ UNCHANGED Book!vars
  OBVIOUS
<1>1. CASE Push \/ Ack \/ Resend
  BY <1>1, PushIsAdd, AckIsReport, ResendIsPutBack
<1>2. CASE DropDone \/ ApplyTweak
  BY <1>2, CleaningIsNoStep
<1>3. CASE ReturnDue
  <2>1. PICK r \in queue :
          queue' = queue \ {r} /\ held' = {r} /\ r.type # "Done" /\ pc # "got"
    BY <1>3 DEF ReturnDue, CleanTop, Flagged
  <2> QED
    BY <2>1, TakeIsTake
<1>4. CASE TimedOutTake
  BY <1>4, TimedOutIsTake
<1>5. ASSUME queue' = queue, held' = held PROVE UNCHANGED Book!vars
  BY <1>5, SameBook
<1>6. CASE \/ Call \/ Acquire \/ ReturnNothing \/ Wait \/ Wake \/ TimedOutNothing
           \/ RestartLoop \/ Tick \/ UNCHANGED vars
  BY <1>5, <1>6 DEF Call, Acquire, ReturnNothing, Wait, Wake, TimedOutNothing,
                    RestartLoop, Tick, vars, waiter
<1>7. CASE \E call \in Calls, elev \in Elevators :
             \/ NewRequest(call, elev)
             \/ \E change \in {"GoingToServe", "Served"} : StartAck(elev, call, change)
  BY <1>5, <1>7 DEF NewRequest, StartAck, waiter
<1> QED
  BY <1>1, <1>2, <1>3, <1>4, <1>6, <1>7 DEF Next, Scheduling, Checking

(* The queue is the book that the schedulers take it for: what they add to  *)
(* it stays there until the elevator that was sent reported the call served *)
(* or it is taken out to be sent again, once each; and where the assertion  *)
(* can fail, which is if a push may be late, it loses acknowledged requests *)
(* at most.                                                                 *)
THEOREM QueueIsABook == Spec => ImplementsBook
<1>1. Init => Book!Init
  BY DEF Init, Book!Init
<1>2. Init /\ [][Next]_vars => [](IInv /\ IdsOK /\ FreshOnesOK)
  <2>1. IInv /\ IdsOK /\ FreshOnesOK /\ [Next]_vars => IdsOK' /\ FreshOnesOK'
    BY IdsStep, FreshOnesStep
  <2> QED
    BY <2>1, IdsInit, FreshOnesInit, Invariance, PTL DEF Spec
<1> QED
  BY <1>1, <1>2, BookStep, PTL DEF Spec, ImplementsBook, Book!Spec
=============================================================================
