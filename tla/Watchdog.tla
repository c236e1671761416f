------------------------------ MODULE Watchdog ------------------------------
(***************************************************************************)
(* The process that watches over an elevator and the heartbeats by which   *)
(* its child notices that a loop is stuck (tools/main.cpp, heartbeat.h).   *)
(*                                                                         *)
(* The parent forks a child, sleeps in pause(), and forks again when a     *)
(* signal wakes it; its handler stops the motor and collects the process   *)
(* that SIGCHLD named.  Unix merges pending signals, a signal handled      *)
(* before pause() does not wake it, and SIGCHLD also tells of children     *)
(* that were suspended or resumed (the handler is installed without        *)
(* SA_NOCLDSTOP).  In a child each loop stores the time of its last beat;  *)
(* its main thread sleeps StartDelay, then compares all of them once per   *)
(* unit of time (rerunTime), and throws, which ends the process.           *)
(*                                                                         *)
(* _lastBeat is not initialized: until the first beat the difference to    *)
(* now(), narrowed to int, is either Long or negative (Ahead, and stays so *)
(* for up to 2^31 ms).                                                     *)
(*                                                                         *)
(* Time: healthy loops of a process that is not suspended beat within      *)
(* their threshold, its main thread checks in time, the parent gets from   *)
(* fork() to pause() within a unit (a unit stands for 10 ms or more).      *)
(* Between fork() and setupChild() a child has its parent's handlers: it   *)
(* has no children, and SIGINT ends it either way.                         *)
(***************************************************************************)
EXTENDS Integers, Functions

CONSTANTS
  Thresholds,  \* the threshold of each heartbeat, as a function
  StartDelay,  \* how long a child sleeps before its first check
  Long,        \* bound: times since a beat are told apart up to here
  MaxForks,    \* bound: children in a behaviour
  Faults,      \* of "crash", "hang", "stop", "int", "fork"
  MaxFaults    \* bound: faults in a behaviour

ASSUME WatchdogAssumption ==
  /\ Long \in Nat
  /\ \A l \in DOMAIN Thresholds : Thresholds[l] \in Nat \ {0} /\ Thresholds[l] + 1 < Long
  /\ StartDelay \in Nat \ {0} /\ MaxForks \in Nat \ {0} /\ MaxFaults \in Nat
  /\ Faults \subseteq {"crash", "hang", "stop", "int", "fork"}

Loops == DOMAIN Thresholds
Pids  == 1 .. MaxForks

Ahead == -1

VARIABLES
  parent,   \* "forking", "forked" (not yet in pause), "pausing" or "exited"
  sigchld,  \* the pending SIGCHLD: at most one process
  sigint,   \* the pending SIGINTs: processes, the parent is 0
  status,   \* of each child
  age,      \* now() - _lastBeat of each loop of each child
  begun,    \* loops that have beaten once
  hung,     \* loops that will not beat any more
  sleep,    \* how long the main thread of a child still sleeps
  checked,  \* children that have checked their heartbeats once
  motor,    \* does the motor run?
  faults    \* how many of each kind there have been

signals == <<sigchld, sigint>>
beats   == <<age, begun, hung>>
watch   == <<sleep, checked>>
vars    == <<parent, signals, status, beats, watch, motor, faults>>

NoBeats == [l \in Loops |-> Ahead]

Up   == {p \in Pids : status[p] = "up"}
Live == {p \in Pids : status[p] \in {"up", "stopped"}}

-----------------------------------------------------------------------------
Init ==
  /\ parent = "forking"
  /\ sigchld = {} /\ sigint = {}
  /\ status = [p \in Pids |-> "unborn"]
  /\ age = [p \in Pids |-> NoBeats]
  /\ begun = [p \in Pids |-> {}]
  /\ hung = [p \in Pids |-> {}]
  /\ sleep = [p \in Pids |-> 0]
  /\ checked = {}
  /\ motor = FALSE
  /\ faults = [kind \in Faults |-> 0]

Fault(kind) ==
  /\ kind \in Faults /\ FoldFunction(+, 0, faults) < MaxFaults
  /\ faults' = [faults EXCEPT ![kind] = @ + 1]

-----------------------------------------------------------------------------
(* The parent *)

(* Definitions that are not used are faulty variants of the one after them: *)
(* each breaks one of the properties below.                                 *)

Unborn == {p \in Pids : status[p] = "unborn"}

StartSleepNone == 0

(* sleep_for, before the first check. *)
StartSleep == StartDelay

(* initRecovery and setupChild: signals set up, a child with garbage for    *)
(* its first beats.  A pending signal is handled before fork() returns.     *)
Fork ==
  /\ parent = "forking" /\ 0 \notin sigint
  /\ \E p \in Unborn, garbage \in [Loops -> {Ahead, Long}] :
       /\ \A q \in Unborn : p <= q
       /\ status' = [status EXCEPT ![p] = "up"]
       /\ age' = [age EXCEPT ![p] = garbage]
       /\ sleep' = [sleep EXCEPT ![p] = StartSleep]
  /\ parent' = "forked"
  /\ UNCHANGED <<signals, begun, hung, checked, motor, faults>>

ForkFails ==
  /\ parent = "forking" /\ Fault("fork")
  /\ parent' = "exited"
  /\ UNCHANGED <<signals, status, beats, watch, motor>>

EnterPauseNever ==
  /\ parent = "forked"
  /\ parent' = "forking"
  /\ UNCHANGED <<signals, status, beats, watch, motor, faults>>

EnterPause ==
  /\ parent = "forked"
  /\ parent' = "pausing"
  /\ UNCHANGED <<signals, status, beats, watch, motor, faults>>

(* pause() returns after a signal that was handled in it, and only then. *)
Woken == IF parent = "pausing" THEN "forking" ELSE parent

StoppedIfWaiting == motor /\ parent # "pausing"

(* The handler stops the elevator, for whatever reason it was called. *)
StoppedByHandler == FALSE

HandleChild ==
  /\ parent # "exited"
  /\ \E p \in sigchld :
       status' = [status EXCEPT ![p] = IF @ = "zombie" THEN "reaped" ELSE @]
  /\ sigchld' = {}
  /\ motor' = StoppedByHandler
  /\ parent' = Woken
  /\ UNCHANGED <<sigint, beats, watch, faults>>

AfterInterruptWoken == Woken

AfterInterrupt == "exited"

HandleInterrupt ==
  /\ parent # "exited" /\ 0 \in sigint
  /\ sigint' = sigint \ {0}
  /\ motor' = StoppedByHandler
  /\ parent' = AfterInterrupt
  /\ UNCHANGED <<sigchld, status, beats, watch, faults>>

-----------------------------------------------------------------------------
(* Signals to the parent about its child p, and the end of p *)

Raise(p) == sigchld' = IF sigchld = {} /\ parent # "exited" THEN {p} ELSE sigchld

(* Its memory goes with it, the motor keeps what it was told. *)
Die(p) ==
  /\ status' = [status EXCEPT ![p] = "zombie"]
  /\ age' = [age EXCEPT ![p] = NoBeats]
  /\ begun' = [begun EXCEPT ![p] = {}]
  /\ hung' = [hung EXCEPT ![p] = {}]
  /\ sleep' = [sleep EXCEPT ![p] = 0]
  /\ checked' = checked \ {p}
  /\ Raise(p)
  /\ sigint' = sigint \ {p}
  /\ UNCHANGED <<parent, motor>>

Crash(p) == p \in Up /\ Die(p) /\ Fault("crash")

Interrupted(p) == p \in Up \cap sigint /\ Die(p) /\ UNCHANGED faults

(* Ctrl-C goes to parent and children. *)
Interrupt ==
  /\ parent # "exited" /\ Fault("int")
  /\ sigint' = Live \cup {0}
  /\ UNCHANGED <<parent, sigchld, status, beats, watch, motor>>

Suspend(p) ==
  /\ p \in Up /\ Fault("stop")
  /\ status' = [status EXCEPT ![p] = "stopped"]
  /\ Raise(p)
  /\ UNCHANGED <<parent, sigint, beats, watch, motor>>

Continue(p) ==
  /\ status[p] = "stopped"
  /\ status' = [status EXCEPT ![p] = "up"]
  /\ Raise(p)
  /\ UNCHANGED <<parent, sigint, beats, watch, motor, faults>>

-----------------------------------------------------------------------------
(* The threads of child p *)

Drive(p) ==
  /\ p \in Up
  /\ motor' = ~motor
  /\ UNCHANGED <<parent, signals, status, beats, watch, faults>>

Beat(p, l) ==
  /\ p \in Up /\ l \notin hung[p]
  /\ age' = [age EXCEPT ![p][l] = 0]
  /\ begun' = [begun EXCEPT ![p] = @ \cup {l}]
  /\ UNCHANGED <<parent, signals, status, hung, watch, motor, faults>>

Hang(p, l) ==
  /\ p \in Up /\ l \notin hung[p] /\ Fault("hang")
  /\ hung' = [hung EXCEPT ![p] = @ \cup {l}]
  /\ UNCHANGED <<parent, signals, status, age, begun, watch, motor>>

LateFirst(p) == {l \in {1} : age[p][l] > Thresholds[l]}

(* throwIfLate, of each heartbeat. *)
Late(p) == {l \in Loops : age[p][l] > Thresholds[l]}

(* runInThisThread: the first late heartbeat throws and ends the process.   *)
Check(p) ==
  /\ p \in Up /\ sleep[p] = 0
  /\ Late(p) = {}
  /\ sleep' = [sleep EXCEPT ![p] = 1]
  /\ checked' = checked \cup {p}
  /\ UNCHANGED <<parent, signals, status, beats, motor, faults>>

Throw(p) ==
  /\ p \in Up /\ sleep[p] = 0
  /\ Late(p) # {}
  /\ Die(p)
  /\ UNCHANGED faults

-----------------------------------------------------------------------------
Older(a) == IF a \in {Ahead, Long} THEN a ELSE a + 1

InTime(p) ==
  /\ sleep[p] > 0
  /\ \A l \in Loops \ hung[p] :
       IF l \in begun[p] THEN age[p][l] < Thresholds[l] ELSE sleep[p] > 1

Tick ==
  /\ parent # "forked"
  /\ \A p \in Up : InTime(p)
  /\ age' = [p \in Pids |-> IF p \in Live THEN [l \in Loops |-> Older(age[p][l])] ELSE age[p]]
  /\ sleep' = [p \in Pids |-> IF p \in Live /\ sleep[p] > 0 THEN sleep[p] - 1 ELSE sleep[p]]
  /\ UNCHANGED <<parent, signals, status, begun, hung, checked, motor, faults>>

-----------------------------------------------------------------------------
Parent == Fork \/ EnterPause \/ HandleChild \/ HandleInterrupt

Threads(p) == Check(p) \/ Throw(p) \/ Interrupted(p)

Next ==
  \/ Parent \/ ForkFails \/ Interrupt \/ Tick
  \/ \E p \in Pids :
       \/ Threads(p) \/ Crash(p) \/ Suspend(p) \/ Continue(p) \/ Drive(p)
       \/ \E l \in Loops : Beat(p, l) \/ Hang(p, l)

Spec == Init /\ [][Next]_vars

(* Every thread that can run does, and time passes. *)
Fairness ==
  /\ WF_vars(Parent) /\ WF_vars(Tick)
  /\ \A p \in Pids : WF_vars(Threads(p)) /\ \A l \in Loops : WF_vars(Beat(p, l))

FairSpec == Spec /\ Fairness

-----------------------------------------------------------------------------
(* Properties *)

TypeOK ==
  /\ parent \in {"forking", "forked", "pausing", "exited"}
  /\ sigchld \in SUBSET Pids /\ \A p, q \in sigchld : p = q
  /\ sigint \in SUBSET ({0} \cup Pids)
  /\ status \in [Pids -> {"unborn", "up", "stopped", "zombie", "reaped"}]
  /\ age \in [Pids -> [Loops -> Ahead .. Long]]
  /\ begun \in [Pids -> SUBSET Loops]
  /\ hung \in [Pids -> SUBSET Loops]
  /\ sleep \in [Pids -> 0 .. StartDelay]
  /\ checked \in SUBSET Pids
  /\ motor \in BOOLEAN
  /\ faults \in [Faults -> Nat]

Happened(kind) == kind \in Faults /\ faults[kind] > 0

(* The handler's purpose, main.cpp:20: when the last child has died and the *)
(* parent has handled what it was told, the motor stands, even if deaths    *)
(* were merged into one signal or came before pause().                      *)
NobodyLeavesMotorOn ==
  parent # "exited" /\ Live = {} /\ sigchld = {} => ~motor

(* Two children would both drive the elevator.  As long as none of them is  *)
(* suspended there is at most one.                                          *)
OneChildIfNoneSuspended == ~Happened("stop") => \A p, q \in Live : p = q

(* The promise of heartbeat.h:89 to 96: once a process has checked, no loop  *)
(* of it is silent for more than its threshold and a unit without ending it. *)
SilenceIsShort ==
  ~Happened("stop") =>
    \A p \in Up \cap checked, l \in Loops : age[p][l] <= Thresholds[l] + 1

(* The comment at heartbeat.h:36: the first beat comes before the first     *)
(* check.  Whatever an uninitialized _lastBeat held, a process whose loops  *)
(* run, and that nobody disturbs, is not killed by its own heartbeats.      *)
HealthyIsNotKilled ==
  (\A kind \in {"crash", "hang", "stop", "int"} : ~Happened(kind))
    => \A p \in Pids : status[p] \in {"unborn", "up"}

Replaced(p) == parent = "exited" \/ \E q \in Pids : q > p /\ status[q] # "unborn"

Stuck(p) == p \in Up /\ hung[p] \cap begun[p] # {}

(* A loop that got stuck after it had run, or a death that the sleeping     *)
(* parent has not handled yet, leads to a new child.                        *)
StuckIsReplaced ==
  \A p \in Pids \ {MaxForks} :
    parent = "pausing" /\ (Stuck(p) \/ (status[p] = "zombie" /\ sigchld # {}))
      ~> Replaced(p) \/ status[p] = "stopped"

(* Ctrl-C ends the parent and every child, and no new one is started; but   *)
(* one that is suspended ends only when it is resumed.                      *)
InterruptEndsAll == 0 \in sigint ~> [](parent = "exited" /\ Up \subseteq sigint)
=============================================================================
