--------------------------- MODULE WatchdogProofs ---------------------------
(***************************************************************************)
(* The safety properties of Watchdog hold for any heartbeats with any      *)
(* thresholds, any number of children and faults, and unbounded time.      *)
(***************************************************************************)
EXTENDS Watchdog, TLAPS

LEMMA Ages ==
  /\ Long \in Nat /\ Ahead = -1
  /\ \A l \in Loops : Thresholds[l] \in Nat /\ Thresholds[l] + 1 < Long
  /\ \A a \in Ahead .. Long :
       /\ Older(a) \in Ahead .. Long
       /\ Older(a) = a \/ Older(a) = a + 1
       /\ a \in Nat /\ a # Long => Older(a) = a + 1
BY WatchdogAssumption DEF Loops, Ahead, Older

-----------------------------------------------------------------------------
(* Types *)

LEMMA TypeInit == Init => TypeOK
<1> SUFFICES ASSUME Init PROVE TypeOK
  OBVIOUS
<1>1. Ahead \in Ahead .. Long
  BY Ages
<1>2. StartDelay \in Nat
  BY WatchdogAssumption
<1>3. NoBeats \in [Loops -> Ahead .. Long]
  BY <1>1 DEF NoBeats
<1>4. faults \in [Faults -> Nat]
  BY DEF Init
<1>5. /\ status \in [Pids -> {"unborn", "up", "stopped", "zombie", "reaped"}]
      /\ age \in [Pids -> [Loops -> Ahead .. Long]]
  BY <1>3 DEF Init
<1>6. /\ begun \in [Pids -> SUBSET Loops] /\ hung \in [Pids -> SUBSET Loops]
      /\ sleep \in [Pids -> 0 .. StartDelay]
  BY <1>2 DEF Init
<1>7. parent = "forking" /\ sigchld = {} /\ sigint = {} /\ checked = {} /\ motor = FALSE
  BY DEF Init
<1> QED BY <1>4, <1>5, <1>6, <1>7 DEF TypeOK

LEMMA FaultType ==
  ASSUME TypeOK, NEW kind, Fault(kind)
  PROVE  /\ faults' \in [Faults -> Nat]
         /\ kind \in Faults /\ faults'[kind] > 0
         /\ \A k \in Faults : faults[k] > 0 => faults'[k] > 0
<1>1. kind \in Faults /\ faults' = [faults EXCEPT ![kind] = @ + 1]
  BY DEF Fault
<1>2. faults \in [Faults -> Nat]
  BY DEF TypeOK
<1> QED BY <1>1, <1>2

LEMMA RaiseType ==
  ASSUME TypeOK, NEW p \in Pids, Raise(p)
  PROVE  sigchld' \in SUBSET Pids /\ \A q, r \in sigchld' : q = r
BY DEF TypeOK, Raise

LEMMA DieType ==
  ASSUME TypeOK, NEW p \in Pids, Die(p), faults' \in [Faults -> Nat]
  PROVE  TypeOK'
<1>1. sigchld' \in SUBSET Pids /\ \A q, r \in sigchld' : q = r
  BY RaiseType DEF Die
<1>2. NoBeats \in [Loops -> Ahead .. Long]
  BY Ages DEF NoBeats
<1>3. StartDelay \in Nat
  BY WatchdogAssumption
<1>4. /\ status' \in [Pids -> {"unborn", "up", "stopped", "zombie", "reaped"}]
      /\ age' \in [Pids -> [Loops -> Ahead .. Long]]
      /\ begun' \in [Pids -> SUBSET Loops] /\ hung' \in [Pids -> SUBSET Loops]
      /\ sleep' \in [Pids -> 0 .. StartDelay]
  BY <1>2, <1>3 DEF Die, TypeOK
<1> QED BY <1>1, <1>4 DEF Die, TypeOK

LEMMA TickType == TypeOK /\ Tick => TypeOK'
<1> SUFFICES ASSUME TypeOK, Tick PROVE TypeOK'
  OBVIOUS
<1>1. age' \in [Pids -> [Loops -> Ahead .. Long]]
  <2>1. \A p \in Pids : age[p] \in [Loops -> Ahead .. Long]
    BY DEF TypeOK
  <2>2. \A p \in Pids : [l \in Loops |-> Older(age[p][l])] \in [Loops -> Ahead .. Long]
    BY <2>1, Ages
  <2> QED BY <2>1, <2>2 DEF Tick
<1>2. sleep' \in [Pids -> 0 .. StartDelay]
  BY WatchdogAssumption DEF TypeOK, Tick
<1> QED BY <1>1, <1>2 DEF TypeOK, Tick, signals

LEMMA TypeStep == TypeOK /\ [Next]_vars => TypeOK'
<1> SUFFICES ASSUME TypeOK, [Next]_vars PROVE TypeOK'
  OBVIOUS
<1> USE DEF signals, beats, watch
<1>0. StartDelay \in Nat /\ 1 \in 0 .. StartDelay
  BY WatchdogAssumption
<1>1. CASE Fork
  <2>1. PICK p \in Unborn, garbage \in [Loops -> {Ahead, Long}] :
          /\ status' = [status EXCEPT ![p] = "up"]
          /\ age' = [age EXCEPT ![p] = garbage]
          /\ sleep' = [sleep EXCEPT ![p] = StartDelay]
    BY <1>1 DEF Fork, StartSleep
  <2>2. garbage \in [Loops -> Ahead .. Long]
    BY Ages
  <2>3. /\ status' \in [Pids -> {"unborn", "up", "stopped", "zombie", "reaped"}]
        /\ age' \in [Pids -> [Loops -> Ahead .. Long]]
        /\ sleep' \in [Pids -> 0 .. StartDelay]
    <3>1. age \in [Pids -> [Loops -> Ahead .. Long]] /\ StartDelay \in 0 .. StartDelay
      BY <1>0 DEF TypeOK
    <3>2. age' \in [Pids -> [Loops -> Ahead .. Long]]
      BY <2>1, <2>2, <3>1
    <3>3. status' \in [Pids -> {"unborn", "up", "stopped", "zombie", "reaped"}]
      BY <2>1 DEF TypeOK
    <3>4. sleep' \in [Pids -> 0 .. StartDelay]
      BY <2>1, <3>1 DEF TypeOK
    <3> QED BY <3>2, <3>3, <3>4
  <2>4. parent' = "forked" /\ UNCHANGED <<sigchld, sigint, begun, hung, checked, motor, faults>>
    BY <1>1 DEF Fork
  <2> QED BY <2>3, <2>4 DEF TypeOK
<1>2. CASE EnterPause \/ HandleInterrupt
  BY <1>2 DEF EnterPause, HandleInterrupt, AfterInterrupt, StoppedByHandler, TypeOK
<1>3. CASE HandleChild
  BY <1>3 DEF HandleChild, Woken, StoppedByHandler, TypeOK
<1>4. CASE ForkFails \/ Interrupt
  BY <1>4, FaultType DEF ForkFails, Interrupt, Live, TypeOK
<1>5. CASE Tick
  BY <1>5, TickType
<1>6. ASSUME NEW p \in Pids, Throw(p) \/ Interrupted(p) \/ Crash(p) PROVE TypeOK'
  <2>1. Die(p) /\ faults' \in [Faults -> Nat]
    BY <1>6, FaultType DEF Throw, Interrupted, Crash, TypeOK
  <2> QED BY <2>1, DieType
<1>7. ASSUME NEW p \in Pids, Check(p) \/ Drive(p) PROVE TypeOK'
  BY <1>0, <1>7 DEF Check, Drive, TypeOK
<1>8. ASSUME NEW p \in Pids, Suspend(p) \/ Continue(p) PROVE TypeOK'
  <2>1. sigchld' \in SUBSET Pids /\ \A q, r \in sigchld' : q = r
    BY <1>8, RaiseType DEF Suspend, Continue
  <2>2. faults' \in [Faults -> Nat]
    BY <1>8, FaultType DEF Suspend, Continue, TypeOK
  <2>3. status' \in [Pids -> {"unborn", "up", "stopped", "zombie", "reaped"}]
    BY <1>8 DEF Suspend, Continue, TypeOK
  <2>4. UNCHANGED <<parent, sigint, age, begun, hung, sleep, checked, motor>>
    BY <1>8 DEF Suspend, Continue
  <2> QED BY <2>1, <2>2, <2>3, <2>4 DEF TypeOK
<1>9. ASSUME NEW p \in Pids, NEW l \in Loops, Beat(p, l) PROVE TypeOK'
  <2>1. 0 \in Ahead .. Long
    BY Ages
  <2>2. age' \in [Pids -> [Loops -> Ahead .. Long]] /\ begun' \in [Pids -> SUBSET Loops]
    BY <1>9, <2>1 DEF Beat, TypeOK
  <2> QED BY <1>9, <2>2 DEF Beat, TypeOK
<1>10. ASSUME NEW p \in Pids, NEW l \in Loops, Hang(p, l) PROVE TypeOK'
  BY <1>10, FaultType DEF Hang, TypeOK
<1>11. CASE UNCHANGED vars
  BY <1>11 DEF vars, TypeOK
<1> QED BY <1>1, <1>2, <1>3, <1>4, <1>5, <1>6, <1>7, <1>8, <1>9, <1>10, <1>11
        DEF Next, Parent, Threads

(* Every record of the parent and of the children is well formed.           *)
THEOREM TypeCorrect == Spec => []TypeOK
BY TypeInit, TypeStep, PTL DEF Spec

-----------------------------------------------------------------------------
(* The motor *)

LEMMA MotorStep == TypeOK /\ NobodyLeavesMotorOn /\ [Next]_vars => NobodyLeavesMotorOn'
<1> SUFFICES ASSUME TypeOK, NobodyLeavesMotorOn, [Next]_vars,
                    parent' # "exited", Live' = {}, sigchld' = {}
             PROVE  ~motor'
  BY DEF NobodyLeavesMotorOn
<1> USE DEF signals, beats, watch
<1>1. CASE HandleChild \/ HandleInterrupt
  BY <1>1 DEF HandleChild, HandleInterrupt, StoppedByHandler
<1>2. CASE Fork
  BY <1>2 DEF Fork, Unborn, Live, TypeOK
<1>3. CASE EnterPause \/ Tick \/ Interrupt \/ ForkFails \/ UNCHANGED vars
  BY <1>3 DEF EnterPause, Tick, Interrupt, ForkFails, vars, Live, NobodyLeavesMotorOn
<1>4. ASSUME NEW p \in Pids, Throw(p) \/ Interrupted(p) \/ Crash(p) PROVE FALSE
  <2>1. sigchld' # {} \/ parent' = "exited"
    BY <1>4 DEF Throw, Interrupted, Crash, Die, Raise
  <2> QED BY <2>1
<1>5. ASSUME NEW p \in Pids, Suspend(p) \/ Continue(p) \/ Drive(p) \/ Check(p) PROVE FALSE
  <2>1. p \in Live'
    BY <1>5 DEF Suspend, Continue, Drive, Check, Up, Live, TypeOK
  <2> QED BY <2>1
<1>6. ASSUME NEW p \in Pids, NEW l \in Loops, Beat(p, l) \/ Hang(p, l) PROVE FALSE
  <2>1. p \in Live'
    BY <1>6 DEF Beat, Hang, Up, Live, TypeOK
  <2> QED BY <2>1
<1> QED BY <1>1, <1>2, <1>3, <1>4, <1>5, <1>6 DEF Next, Parent, Threads

(* When the last child is dead and the parent has handled what it was told, *)
(* the motor stands.                                                        *)
THEOREM MotorSafety == Spec => []NobodyLeavesMotorOn
<1>1. Init => NobodyLeavesMotorOn
  BY DEF Init, NobodyLeavesMotorOn
<1> QED BY <1>1, MotorStep, TypeCorrect, PTL DEF Spec

-----------------------------------------------------------------------------
(* One child at a time *)

(* While nothing was suspended, a pending SIGCHLD tells of the end of the   *)
(* only child, and the parent forks only after that.                        *)
ChildOK ==
  ~Happened("stop") =>
    /\ \A p \in Pids : status[p] # "stopped"
    /\ \A p, q \in Up : p = q
    /\ parent = "forking" => sigchld = {} /\ Up = {}
    /\ sigchld # {} => Up = {}

LEMMA Remembered ==
  ASSUME TypeOK, [Next]_vars, NEW kind, ~Happened(kind)'
  PROVE  ~Happened(kind)
<1>1. CASE \/ UNCHANGED faults
           \/ \E k \in Faults : faults' = [faults EXCEPT ![k] = @ + 1]
  BY <1>1 DEF Happened, TypeOK
<1>2. ASSUME NEW k, Fault(k) PROVE \E f \in Faults : faults' = [faults EXCEPT ![f] = @ + 1]
  BY <1>2 DEF Fault
<1>3. CASE Parent \/ Tick \/ UNCHANGED vars
  BY <1>1, <1>3 DEF Parent, Fork, EnterPause, HandleChild, HandleInterrupt, Tick, vars
<1>4. CASE ForkFails \/ Interrupt
  BY <1>1, <1>2, <1>4 DEF ForkFails, Interrupt
<1>5. ASSUME NEW p \in Pids,
             Threads(p) \/ Crash(p) \/ Suspend(p) \/ Continue(p) \/ Drive(p)
      PROVE  ~Happened(kind)
  BY <1>1, <1>2, <1>5 DEF Threads, Check, Throw, Interrupted, Crash, Suspend, Continue, Drive
<1>6. ASSUME NEW p \in Pids, NEW l \in Loops, Beat(p, l) \/ Hang(p, l)
      PROVE  ~Happened(kind)
  BY <1>1, <1>2, <1>6 DEF Beat, Hang
<1> QED BY <1>3, <1>4, <1>5, <1>6 DEF Next

LEMMA ChildStep == TypeOK /\ ChildOK /\ [Next]_vars => ChildOK'
<1> SUFFICES ASSUME TypeOK, ChildOK, [Next]_vars, ~Happened("stop")'
             PROVE  /\ \A p \in Pids : status'[p] # "stopped"
                    /\ \A p, q \in Up' : p = q
                    /\ parent' = "forking" => sigchld' = {} /\ Up' = {}
                    /\ sigchld' # {} => Up' = {}
  BY DEF ChildOK
<1> USE DEF signals, beats, watch
<1>1. /\ ~Happened("stop")
      /\ \A p \in Pids : status[p] # "stopped"
      /\ \A p, q \in Up : p = q
      /\ parent = "forking" => sigchld = {} /\ Up = {}
      /\ sigchld # {} => Up = {}
  BY Remembered DEF ChildOK
<1>2. CASE Fork
  BY <1>1, <1>2 DEF Fork, Up, TypeOK
<1>3. CASE HandleChild
  BY <1>1, <1>3 DEF HandleChild, Woken, Up, TypeOK
<1>4. CASE EnterPause \/ HandleInterrupt
  BY <1>1, <1>4 DEF EnterPause, HandleInterrupt, AfterInterrupt, Up
<1>5. CASE ForkFails \/ Interrupt \/ Tick \/ UNCHANGED vars
  BY <1>1, <1>5 DEF ForkFails, Interrupt, Tick, vars, Up
<1>6. ASSUME NEW p \in Pids, Throw(p) \/ Interrupted(p) \/ Crash(p)
      PROVE  /\ \A q \in Pids : status'[q] # "stopped"
             /\ parent' # "forking" /\ Up' = {}
  <2>1. p \in Up /\ Die(p)
    BY <1>6 DEF Throw, Interrupted, Crash
  <2>2. parent' = parent /\ status' = [status EXCEPT ![p] = "zombie"]
    BY <2>1 DEF Die
  <2>3. parent' # "forking"
    BY <1>1, <2>1, <2>2
  <2>4. \A q \in Pids : status'[q] = IF q = p THEN "zombie" ELSE status[q]
    BY <2>2 DEF TypeOK
  <2> QED BY <1>1, <2>1, <2>3, <2>4 DEF Up
<1>7. ASSUME NEW p \in Pids, Suspend(p) PROVE FALSE
  BY <1>1, <1>7, FaultType DEF Suspend, Happened
<1>8. ASSUME NEW p \in Pids, Continue(p) PROVE FALSE
  BY <1>1, <1>8 DEF Continue
<1>9. ASSUME NEW p \in Pids, Drive(p) \/ Check(p) PROVE UNCHANGED <<status, parent, sigchld>>
  BY <1>9 DEF Drive, Check
<1>10. ASSUME NEW p \in Pids, NEW l \in Loops, Beat(p, l) \/ Hang(p, l)
       PROVE  UNCHANGED <<status, parent, sigchld>>
  BY <1>10 DEF Beat, Hang
<1>11. CASE UNCHANGED <<status, parent, sigchld>>
  BY <1>1, <1>11 DEF Up
<1> QED BY <1>2, <1>3, <1>4, <1>5, <1>6, <1>7, <1>8, <1>9, <1>10, <1>11
        DEF Next, Parent, Threads

(* Two processes never drive the elevator unless one was suspended.         *)
THEOREM OneAtATime == Spec => []OneChildIfNoneSuspended
<1>1. Init => ChildOK
  BY DEF Init, ChildOK, Up
<1>2. ChildOK => OneChildIfNoneSuspended
  BY DEF ChildOK, OneChildIfNoneSuspended, Live, Up
<1> QED BY <1>1, <1>2, ChildStep, TypeCorrect, PTL DEF Spec

-----------------------------------------------------------------------------
(* Silence *)

(* A check leaves every age within its threshold, and a unit passes only    *)
(* between two checks.                                                      *)
CheckedOK ==
  ~Happened("stop") =>
    /\ \A p \in Pids : status[p] # "stopped"
    /\ \A p \in Up \cap checked :
         /\ sleep[p] \in {0, 1}
         /\ \A l \in Loops : age[p][l] <= Thresholds[l] + 1 - sleep[p]
    /\ checked \subseteq Up

LEMMA CheckedStep == TypeOK /\ CheckedOK /\ [Next]_vars => CheckedOK'
<1> SUFFICES ASSUME TypeOK, CheckedOK, [Next]_vars, ~Happened("stop")'
             PROVE  /\ \A p \in Pids : status'[p] # "stopped"
                    /\ \A p \in Up' \cap checked' :
                         /\ sleep'[p] \in {0, 1}
                         /\ \A l \in Loops : age'[p][l] <= Thresholds[l] + 1 - sleep'[p]
                    /\ checked' \subseteq Up'
  BY DEF CheckedOK
<1> USE DEF signals, beats, watch
<1>1. /\ ~Happened("stop")
      /\ \A p \in Pids : status[p] # "stopped"
      /\ \A p \in checked :
           /\ p \in Up /\ sleep[p] \in {0, 1}
           /\ \A l \in Loops : age[p][l] <= Thresholds[l] + 1 - sleep[p]
  BY Remembered DEF CheckedOK
<1>2. /\ \A l \in Loops : Thresholds[l] \in Nat
      /\ \A p \in Pids, l \in Loops : age[p][l] \in Int
  BY Ages DEF TypeOK
<1>3. CASE Fork
  BY <1>1, <1>3 DEF Fork, Unborn, Up, TypeOK
<1>4. CASE HandleChild
  BY <1>1, <1>4 DEF HandleChild, Up, TypeOK
<1>5. CASE UNCHANGED <<status, age, sleep, checked>>
  BY <1>1, <1>5 DEF Up
<1>6. CASE EnterPause \/ HandleInterrupt \/ ForkFails \/ Interrupt \/ UNCHANGED vars
  BY <1>5, <1>6 DEF EnterPause, HandleInterrupt, ForkFails, Interrupt, vars
<1>7. CASE Tick
  <2>1. /\ checked' = checked /\ Up' = Up /\ status' = status
        /\ \A p \in Up : sleep[p] > 0 /\ p \in Live /\ p \in Pids
    BY <1>7 DEF Tick, InTime, Up, Live
  <2>2. ASSUME NEW p \in checked
        PROVE  /\ sleep'[p] = 0
               /\ \A l \in Loops : age'[p][l] <= Thresholds[l] + 1
    <3>1. p \in Pids /\ p \in Live /\ sleep[p] = 1
      BY <1>1, <2>1
    <3>2. sleep'[p] = 0 /\ age'[p] = [l \in Loops |-> Older(age[p][l])]
      BY <1>7, <3>1 DEF Tick
    <3>3. \A l \in Loops : age[p][l] \in Ahead .. Long /\ age[p][l] <= Thresholds[l]
      BY <1>1, <1>2, <3>1 DEF TypeOK
    <3>4. \A l \in Loops : Older(age[p][l]) <= Thresholds[l] + 1
      BY <1>2, <3>3, Ages
    <3> QED BY <3>2, <3>4
  <2> QED BY <1>1, <1>2, <2>1, <2>2
<1>8. ASSUME NEW p \in Pids, Throw(p) \/ Interrupted(p) \/ Crash(p)
      PROVE  /\ checked' = checked \ {p}
             /\ \A q \in Pids \ {p} : /\ status'[q] = status[q] /\ age'[q] = age[q]
                                      /\ sleep'[q] = sleep[q]
             /\ status'[p] = "zombie"
  BY <1>8 DEF Throw, Interrupted, Crash, Die, TypeOK
<1>9. ASSUME NEW p \in Pids, NEW q \in Pids, Suspend(p) \/ Continue(p) PROVE FALSE
  BY <1>1, <1>9, FaultType DEF Suspend, Continue, Happened
<1>10. ASSUME NEW p \in Pids, Check(p)
       PROVE  /\ checked' = checked \cup {p} /\ UNCHANGED <<status, age>>
              /\ sleep' = [sleep EXCEPT ![p] = 1] /\ p \in Up
              /\ \A l \in Loops : age[p][l] <= Thresholds[l]
  BY <1>2, <1>10 DEF Check, Late
<1>11. ASSUME NEW p \in Pids, Drive(p) PROVE UNCHANGED <<status, age, sleep, checked>>
  BY <1>11 DEF Drive
<1>12. ASSUME NEW p \in Pids, NEW l \in Loops, Hang(p, l)
       PROVE  UNCHANGED <<status, age, sleep, checked>>
  BY <1>12 DEF Hang
<1>13. ASSUME NEW p \in Pids, NEW l \in Loops, Beat(p, l)
       PROVE  /\ UNCHANGED <<status, sleep, checked>>
              /\ \A q \in Pids, k \in Loops : age'[q][k] \in {age[q][k], 0}
  BY <1>13 DEF Beat, TypeOK
<1>14. CASE \E p \in Pids : Throw(p) \/ Interrupted(p) \/ Crash(p)
  BY <1>1, <1>8, <1>14 DEF Up
<1>15. CASE \E p \in Pids : Check(p)
  <2>1. PICK p \in Pids : Check(p)
    BY <1>15
  <2>2. sleep' = [sleep EXCEPT ![p] = 1] /\ sleep \in [Pids -> 0 .. StartDelay]
        /\ Up \subseteq Pids /\ Up' = Up
    BY <1>10, <2>1 DEF TypeOK, Up
  <2> QED BY <1>1, <1>2, <1>10, <2>1, <2>2
<1>16. CASE \E p \in Pids, l \in Loops : Beat(p, l)
  <2>1. checked \subseteq Pids /\ Up' = Up
    BY <1>13, <1>16 DEF TypeOK, Up
  <2> QED BY <1>1, <1>2, <1>13, <1>16, <2>1
<1> QED BY <1>3, <1>4, <1>5, <1>6, <1>7, <1>9, <1>11, <1>12, <1>14, <1>15, <1>16
        DEF Next, Parent, Threads

(* A loop of a running process is noticed a unit after its threshold.       *)
THEOREM SilenceIsNoticed == Spec => []SilenceIsShort
<1>1. Init => CheckedOK
  BY DEF Init, CheckedOK, Up
<1>2. TypeOK /\ CheckedOK => SilenceIsShort
  <2> SUFFICES ASSUME TypeOK, CheckedOK, ~Happened("stop"), NEW p \in Up \cap checked,
                      NEW l \in Loops
               PROVE  age[p][l] <= Thresholds[l] + 1
    BY DEF SilenceIsShort
  <2>1. sleep[p] \in {0, 1} /\ age[p][l] <= Thresholds[l] + 1 - sleep[p]
    BY DEF CheckedOK
  <2>2. Thresholds[l] \in Nat /\ age[p][l] \in Int
    BY Ages DEF TypeOK
  <2> QED BY <2>1, <2>2
<1> QED BY <1>1, <1>2, CheckedStep, TypeCorrect, PTL DEF Spec

-----------------------------------------------------------------------------
(* Healthy processes *)

Undisturbed == \A kind \in {"crash", "hang", "stop", "int"} : ~Happened(kind)

(* A loop that has begun keeps to its threshold, and one that has not still *)
(* has time before the first check.                                         *)
HealthyOK ==
  Undisturbed =>
    /\ sigint = {}
    /\ \A p \in Pids : status[p] \in {"unborn", "up"} /\ hung[p] = {}
    /\ \A p \in Unborn : begun[p] = {}
    /\ \A p \in Up, l \in Loops :
         IF l \in begun[p] THEN age[p][l] <= Thresholds[l] ELSE sleep[p] > 0

LEMMA HealthyStep == TypeOK /\ HealthyOK /\ [Next]_vars => HealthyOK'
<1> SUFFICES ASSUME TypeOK, HealthyOK, [Next]_vars, Undisturbed'
             PROVE  /\ sigint' = {}
                    /\ \A p \in Pids : status'[p] \in {"unborn", "up"} /\ hung'[p] = {}
                    /\ \A p \in Unborn' : begun'[p] = {}
                    /\ \A p \in Up', l \in Loops :
                         IF l \in begun'[p] THEN age'[p][l] <= Thresholds[l]
                         ELSE sleep'[p] > 0
  BY DEF HealthyOK
<1> USE DEF signals, beats, watch
<1>1. /\ \A kind \in {"crash", "hang", "stop", "int"} : ~Happened(kind)'
      /\ Undisturbed
  BY Remembered DEF Undisturbed
<1>2. /\ sigint = {}
      /\ \A p \in Pids : status[p] \in {"unborn", "up"} /\ hung[p] = {}
      /\ \A p \in Unborn : begun[p] = {}
      /\ \A p \in Up, l \in Loops :
           IF l \in begun[p] THEN age[p][l] <= Thresholds[l] ELSE sleep[p] > 0
  BY <1>1 DEF HealthyOK
<1>3. /\ \A l \in Loops : Thresholds[l] \in Nat /\ Thresholds[l] + 1 < Long
      /\ \A p \in Pids, l \in Loops : age[p][l] \in Ahead .. Long
      /\ StartDelay \in Nat \ {0}
  BY Ages, WatchdogAssumption DEF TypeOK
<1>4. CASE UNCHANGED <<sigint, status, hung, begun, age, sleep>>
  BY <1>2, <1>4 DEF Up, Unborn
<1>5. CASE Fork
  <2>1. PICK p \in Unborn : /\ status' = [status EXCEPT ![p] = "up"]
                           /\ sleep' = [sleep EXCEPT ![p] = StartDelay]
                           /\ \A q \in Pids \ {p} : age'[q] = age[q]
    BY <1>5 DEF Fork, StartSleep, TypeOK
  <2>2. UNCHANGED <<sigint, hung, begun>>
    BY <1>5 DEF Fork
  <2>3. /\ \A q \in Pids : status'[q] = IF q = p THEN "up" ELSE status[q]
        /\ \A q \in Pids : sleep'[q] = IF q = p THEN StartDelay ELSE sleep[q]
    BY <2>1 DEF TypeOK
  <2>4. Up' = Up \cup {p} /\ Unborn' \subseteq Unborn
    BY <2>3 DEF Up, Unborn
  <2>5. \A q \in Up, l \in Loops : q # p =>
          IF l \in begun'[q] THEN age'[q][l] <= Thresholds[l] ELSE sleep'[q] > 0
    BY <1>2, <2>1, <2>2, <2>3 DEF Up
  <2>6. \A l \in Loops : l \notin begun'[p] /\ sleep'[p] > 0
    BY <1>2, <1>3, <2>2, <2>3 DEF Unborn
  <2> QED BY <1>2, <2>2, <2>3, <2>4, <2>5, <2>6
<1>6. CASE HandleChild
  <2>1. UNCHANGED <<sigint, hung, begun, age, sleep>>
    BY <1>6 DEF HandleChild
  <2>2. status' = status
    BY <1>2, <1>6 DEF HandleChild, TypeOK
  <2> QED BY <1>4, <2>1, <2>2
<1>7. CASE HandleInterrupt
  BY <1>2, <1>7 DEF HandleInterrupt
<1>8. CASE EnterPause \/ ForkFails \/ UNCHANGED vars
  BY <1>4, <1>8 DEF EnterPause, ForkFails, vars
<1>9. CASE Interrupt
  BY <1>1, <1>9, FaultType DEF Interrupt, Happened
<1>10. CASE Tick
  <2>1. UNCHANGED <<sigint, status, hung, begun>> /\ Up' = Up /\ Unborn' = Unborn
    BY <1>10 DEF Tick, Up, Unborn
  <2>2. ASSUME NEW p \in Up, NEW l \in Loops
        PROVE  IF l \in begun'[p] THEN age'[p][l] <= Thresholds[l] ELSE sleep'[p] > 0
    <3>1. p \in Pids /\ p \in Live /\ InTime(p) /\ hung[p] = {} /\ sleep[p] \in Nat
      BY <1>2, <1>3, <1>10 DEF Tick, Up, Live, TypeOK
    <3>2. /\ IF l \in begun[p] THEN age[p][l] < Thresholds[l] ELSE sleep[p] > 1
          /\ sleep[p] > 0
      BY <3>1 DEF InTime
    <3>3. sleep'[p] = sleep[p] - 1 /\ age'[p][l] = Older(age[p][l])
      BY <1>10, <3>1, <3>2 DEF Tick
    <3>4. CASE l \in begun[p]
      <4>1. Older(age[p][l]) = age[p][l] \/ Older(age[p][l]) = age[p][l] + 1
        BY <1>3, <3>1, Ages
      <4>2. age[p][l] \in Int /\ Thresholds[l] \in Int
        BY <1>3, <3>1, Ages
      <4> QED BY <2>1, <3>2, <3>3, <3>4, <4>1, <4>2
    <3>5. CASE l \notin begun[p]
      BY <2>1, <3>1, <3>2, <3>3, <3>5
    <3> QED BY <3>4, <3>5
  <2> QED BY <1>2, <2>1, <2>2
<1>11. ASSUME NEW p \in Pids, Throw(p) PROVE FALSE
  <2>1. PICK l \in Loops : age[p][l] > Thresholds[l]
    BY <1>11 DEF Throw, Late
  <2>2. p \in Up /\ sleep[p] = 0
    BY <1>11 DEF Throw
  <2>3. age[p][l] <= Thresholds[l]
    BY <1>2, <2>2
  <2>4. age[p][l] \in Int /\ Thresholds[l] \in Int
    BY <1>3, Ages
  <2> QED BY <2>1, <2>3, <2>4
<1>12. ASSUME NEW p \in Pids, Interrupted(p) \/ Crash(p) \/ Suspend(p) \/ Continue(p)
       PROVE  FALSE
  BY <1>1, <1>2, <1>12, FaultType DEF Interrupted, Crash, Suspend, Continue, Happened
<1>13. ASSUME NEW p \in Pids, NEW l \in Loops, Hang(p, l) PROVE FALSE
  BY <1>1, <1>13, FaultType DEF Hang, Happened
<1>14. ASSUME NEW p \in Pids, Drive(p)
       PROVE  UNCHANGED <<sigint, status, hung, begun, age, sleep>>
  BY <1>14 DEF Drive
<1>15. CASE \E p \in Pids : Check(p)
  <2>1. PICK p \in Pids : Check(p)
    BY <1>15
  <2>2. /\ UNCHANGED <<sigint, status, hung, begun, age>> /\ Up' = Up /\ Unborn' = Unborn
        /\ sleep' = [sleep EXCEPT ![p] = 1]
    BY <2>1 DEF Check, Up, Unborn
  <2>3. \A q \in Up : sleep[q] > 0 => sleep'[q] > 0
    BY <2>2 DEF TypeOK, Up
  <2> QED BY <1>2, <2>2, <2>3
<1>16. CASE \E p \in Pids, l \in Loops : Beat(p, l)
  <2>1. PICK p \in Pids, l \in Loops : Beat(p, l)
    BY <1>16
  <2>2. /\ UNCHANGED <<sigint, status, hung, sleep>> /\ Up' = Up /\ Unborn' = Unborn
        /\ p \in Up
    BY <2>1 DEF Beat, Up, Unborn
  <2>3. \A q \in Pids : begun'[q] = IF q = p THEN begun[q] \cup {l} ELSE begun[q]
    BY <2>1 DEF Beat, TypeOK
  <2>4. \A q \in Pids, k \in Loops : age'[q][k] = IF q = p /\ k = l THEN 0 ELSE age[q][k]
    <3>1. age' = [age EXCEPT ![p][l] = 0] /\ age \in [Pids -> [Loops -> Ahead .. Long]]
      BY <2>1 DEF Beat, TypeOK
    <3> QED BY <3>1
  <2>5. \A q \in Unborn : q # p
    BY <2>2 DEF Up, Unborn
  <2>6. \A q \in Up, k \in Loops :
          IF k \in begun'[q] THEN age'[q][k] <= Thresholds[k] ELSE sleep'[q] > 0
    <3> SUFFICES ASSUME NEW q \in Up, NEW k \in Loops
                 PROVE  IF k \in begun'[q] THEN age'[q][k] <= Thresholds[k]
                        ELSE sleep'[q] > 0
      OBVIOUS
    <3>1. /\ q \in Pids /\ sleep'[q] = sleep[q] /\ 0 <= Thresholds[k]
          /\ IF k \in begun[q] THEN age[q][k] <= Thresholds[k] ELSE sleep[q] > 0
      BY <1>2, <1>3, <2>2 DEF Up
    <3>2. CASE q = p /\ k = l
      BY <2>3, <2>4, <3>1, <3>2
    <3>3. CASE ~(q = p /\ k = l)
      <4>1. age'[q][k] = age[q][k] /\ (k \in begun'[q] <=> k \in begun[q])
        BY <2>3, <2>4, <3>1, <3>3
      <4> QED BY <3>1, <4>1
    <3> QED BY <3>2, <3>3
  <2> QED BY <1>2, <2>2, <2>3, <2>5, <2>6 DEF Unborn
<1> QED BY <1>4, <1>5, <1>6, <1>7, <1>8, <1>9, <1>10, <1>11, <1>12, <1>13, <1>14, <1>15, <1>16
        DEF Next, Parent, Threads

(* A process that nothing disturbs is not killed by its own heartbeats,     *)
(* whatever their memory held before the first beat.                        *)
THEOREM NoFalseAlarm == Spec => []HealthyIsNotKilled
<1>1. Init => HealthyOK
  <2> SUFFICES ASSUME Init PROVE HealthyOK
    OBVIOUS
  <2>1. /\ sigint = {} /\ Up = {}
        /\ \A p \in Pids : status[p] = "unborn" /\ hung[p] = {} /\ begun[p] = {}
    BY DEF Init, Up
  <2> QED BY <2>1 DEF HealthyOK, Unborn
<1>2. HealthyOK => HealthyIsNotKilled
  BY DEF HealthyOK, HealthyIsNotKilled, Undisturbed
<1> QED BY <1>1, <1>2, HealthyStep, TypeCorrect, PTL DEF Spec
=============================================================================
