# Elevator control (ttk4145): specification and verification

This directory specifies in TLA+ the elevator control software of `project/`:
a program that runs on every computer of a group of elevators, drives one
elevator each, and shares out the calls of the hall buttons over UDP. Modules are
translated from the C++ source; `PROJECT.json` maps every definition to the lines
it stands for.

- [The system](#the-system)
- [Modules](#modules)
- [Runs](#runs)
- [Where code and comments disagree](#where-code-and-comments-disagree)
- [Proofs](#proofs)
- [What is not modelled](#what-is-not-modelled)
- [Plan](#plan)

## The system

A node is a parent process that forks a child and starts it again whenever it
dies. The child runs these threads (`tools/main.cpp`):

| thread | code | reads | writes |
|---|---|---|---|
| control loop | `Elevator::_loop` | hardware, commands for this elevator | hardware, state changes |
| scheduling | `Scheduler::_schedLoop` | state changes of all nodes | commands, requests, state changes to the others |
| checking | `Scheduler::_reqCheckLoop` | requests | requests, commands |
| senders and receivers | `QueueSender`, `QueueReceiver` | queues, sockets | sockets, queues |
| session | `SessionManager::_loop` | service socket | service socket |
| heartbeat | `HeartBeatManager` (main thread) | time stamps of the loops | throws, and so kills the process |

They share four `ConcurrentQueue`s (commands in, commands out, state changes in,
state changes out) and `GlobalState`, which holds the state last heard of every
elevator and the `RequestQueue`.

A call from a hall button goes this way. The control loop of the node where it is
pressed lights the lamp and emits *ButtonUpPressed* or *ButtonDownPressed*. Its
scheduling thread broadcasts this, picks an elevator by a cost function over the
last known states, enters a request with a deadline of 100 ms, and sends the
elevator a command. That elevator adds the call to its orders and emits
*GoingToServe*, which acknowledges the request and gives it 30 s; and, when it
has been there, *Served*, which closes the request. If a deadline passes, the
checking thread takes the request out, sends it again (to another elevator after
three attempts or after the 30 s) and puts it back.

### Components, their state and what makes them correct

| component | state | operations | hard part | correct if |
|---|---|---|---|---|
| request queue | heap ordered by deadline, lock, condition variable, poll limit | `push`, `ackRequest`, `waitForEarliestDeadline` | deadlines change inside a heap that cannot be reordered; a waiter between two deadlines | no lost wake-up, no request lost or sent again too early, overdue requests are taken |
| control loop | orders, direction, last floor, door, local mode, remembered buttons | one iteration: buttons, obstruction, a command, control | cabin, people and crashes between any two writes to the hardware | in the shaft, doors shut on the ride, halted when stopped, every order served, no call dropped silently |
| scheduler | requests, one request in hand | button pressed, going, served, resend | lost and overtaken messages, answers that cross a retry, several nodes | a lit lamp has somebody who looks after it, requests are closed in the end |
| session manager | peers, barrier, phase | Initial, Ready, RecoveryPeers, RecoveryState | start barrier with loss, late nodes, restarts | every node gets the same peers and leaves the barrier |
| recovery wrapper, heartbeats | child process, pending signals, time of the last beat, motor | fork, SIGCHLD, pause, beat, check | signals between two calls, signals that merge, a first beat that is not initialized | a dead child is replaced, a stuck one dies, the motor never outlives its process, one child drives |
| concurrent queue | deque, lock, condition variable | `enqueue`, `dequeue`, `timeoutDequeue`, `tryDequeue` | several consumers, time-outs, spurious wakings | a FIFO nobody waits at in vain |
| UDP queues | two queues, a datagram in hand | `QueueSender::_runLocal`, `QueueReceiver::_runLocal` | loss, repetition, reordering, foreign datagrams, a loop that is restarted | an unreliable channel, no worse than the network |
| global state | table of elevator states with timestamps | `update`, `elevators`, the choice in `_optimalElevator` | old reports, dead nodes, clocks that differ | somebody is always chosen, never a dead one, the penalties rank as meant |
| floor sets | a 64 bit word | `set`, `get`, `anyHigher`, ... | the top bit | the answers of a set |
| serialization, sockets, driver, channels | none or hardware | conversions, I/O | | the bytes or bits meant |

## Modules

| module | models | extends |
|---|---|---|
| `RequestQueue` | `elevator/requestqueue.*` with the two threads of `scheduler.cpp` that use it | |
| `ElevatorControl` | `elevator/elevator.cpp`, the driver, the cabin, people, death and restart of the process | |
| `HallElevator` | abstract: what an elevator promises to the schedulers; `ElevatorControl` implements it | |
| `RequestBook` | abstract: what the schedulers count on of a request queue; `RequestQueue` implements it, and each node of `Dispatch` keeps to it | |
| `FloorSet` | `elevator/floorset.h`, the bits | |
| `ElevatorFloors` | the control loop's sets of floors as words of `FloorSet` | `ElevatorControl`, `FloorSet` |
| `Dispatch` | the scheduler and the links between the nodes, and what an elevator promises to them; composes the nodes | |
| `GlobalState` | `elevator/globalstate.h` with the reports that fill it and `Scheduler::_optimalElevator` | |
| `SessionManager` | `elevator/sessionmanager.cpp`: how the nodes find each other, get their numbers, and help one that restarts | |
| `Watchdog` | the parent process of `tools/main.cpp` and `elevator/heartbeat.h` | |
| `ConcurrentQueue` | `elevator/concurrentqueue.h` | |
| `Fifo` | abstract: a FIFO with consumers; `ConcurrentQueue` implements it | |
| `UdpQueue` | `elevator/udpqueue.h` with both its queues and the network | `ConcurrentQueue` |
| `Link` | abstract: an unreliable channel into an inbox; `UdpQueue` implements it | |
| `MC...` | instances for TLC; `MCElevatorControl` is one of `ElevatorFloors` | the module they are named for |
| `...Proofs` | theorems; `UdpQueueProofs` has those of `ConcurrentQueue` too, `ElevatorServiceProofs` the refinement of `HallElevator` and the floor sets | the module they are named for, `TLAPS` |

Operators that end a row of alternatives and are never used (such as
`NeedsSignalIfEmpty` before `NeedsSignal`) are faulty variants: each is a mistake
one could make in that line of code, and makes the property `PROJECT.json` pairs
it with fail. They show that the properties tell right code from wrong code.

### RequestQueue

A critical section of the queue's mutex is a step. The scheduling thread builds a
request (`NewRequest`, which fixes its deadline) and pushes it (`Push`), or reads
the clock for an acknowledgement (`StartAck`) and applies it (`Ack`). The
checking thread is `pc`: it computes its poll limit (`Call`), takes the lock
(`Acquire`), and, while it holds it (`scan`), drops requests that are done, moves
those with a noted deadline (`DropDone`, `ApplyTweak`), and returns a due one, or
nothing, or waits. A waiting thread can be woken, spuriously too, and then runs
the cleaning loop again (`Wake`); or it times out, and then the code neither
cleans again nor reads the clock again (`TimeAfterWait` is the time before the
wait). What it took it sends again and puts back (`Resend`).

The queue is a set of requests of which the heap's top is any one with the least
deadline. `id` and `acked` in a request are history for the properties.
`PushesInTime` says whether the scheduling thread may be delayed for longer than
100 ms between building a request and pushing it; the code cannot exclude it, and
both cases are checked.

`RequestBook` is the queue without its time: a set of entries that somebody has still
to report, and at most one in hand. An acknowledgement turns or removes entries,
`Take` and `PutBack` are a resend, and nothing else leaves. `ImplementsBook` leaves out
requests that are flagged as done and not yet dropped, and maps the deadlines to
nothing; `Drops`, the loss of an acknowledged entry, is allowed only where the
assertion of `requestqueue.cpp:54` can fail.

### ElevatorControl

One iteration of `_loop` is `Poll`, `ObstructionClear`/`Shutdown`, `Command`, `Control`,
in that order, and a step ends wherever the next write to motor, door or stop lamp
comes. So a stop press is `PollStop` (the lamp) and `Stopping` (the motor); a resume is
`PollResume` (the lamp), `Resuming` (the motor) and `Resumed` (the doors); an arrival is
`StopHere` (order and inside lamp off, line 376), `Opening` (the doors, 378) and `Arriving`
(the motor, 382); and a departure is `StartMoving` (the motor, 112) and `Departing` (the
doors, 113, and the call of the floor). Between two steps the cabin moves, buttons
and switches change, and the process may die.

The other alternatives of `Control` are `StayIdle`, `KeepMoving`, `Wait`, and three ways to end
waiting with open doors: `CloseDoorTimeout`, `CloseDoorPressed` and `CloseDoorAstray`. A
cabin that had been seen at a sensor before may leave it during an arrival; if the
doors then time out beside the floor, `currentFloor` is `INT_MIN`, the assertion of
`FloorSet` ends the loop, and `restartWrapper` enters it again with the orders it has
(`EnterLoop`). `ctl` joins the motor and the door with what the loop remembers about
them, so that the code's sequence of calls is a composition of functions (`Sensed`,
`Stopped`, `Started`, `Shut`, `Observed`).

`HallElevator` is the part of it that the rest of the system sees: hall calls,
their lamps and what is reported. `ImplementsHallElevator` maps `hall`
calls of the orders and of the lamps, and the reports of the last step, to its
variables. A process may die and a new one start with recovered orders at any
time; an obstruction turns all lamps off; a loop that is entered again sets them by
its orders (`Reset`). `Dispatch` uses the same promise without these (see there).

`FloorSet` has the operations of the code on a word of `Width` bits, which is the set
of its bits that are one: `&` and `|` are intersection and union, a shift drops what
leaves the word, a decrement turns the bits up to the lowest one that is one.
`ElevatorFloors` puts it beside the control loop; `FloorsFit` is the code's restriction to
buildings of no more floors than bits. In the runs the word is as wide as the building is high, so that the top floor sits at the top
bit, where the shift of `anyHigher` drops a bit and `_floors` has nothing above.
`FloorSetsAreSets` compares each answer with that of the set it stands for, for
all sets that the control loop comes by.

The cabin is at the sensor of floor `low` or above it. The program's one
assumption about speed is kept: an iteration is shorter than the crossing of a
sensor (comment at `main.cpp:187`; a slower loop is killed, and the motor with
it), so the cabin leaves a sensor only after a control step saw it (`polled`), and
does not reach the next one within an arrival.
A process that dies leaves motor and lamps as they are; then the parent's signal
handler stops the motor, and a new process starts from one of the states in
`Recovered`, which may be stale.

### Dispatch

For each node: the queue of state changes, the queue of commands of its elevator,
its requests, the request in the hands of its checking thread, the calls its
elevator has accepted, its lit lamps, and which of these a press on its own panel
lit. For each pair of nodes there are two links, `stateNet` and `commandNet`: state
changes and commands have queues, sending threads, ports and receiving threads of
their own (`main.cpp:160` to 185), so that each kind keeps its order and either may
overtake the other. An elevator is what the other nodes see of it:
it accepts calls, serves them at some time, or serves a floor unasked because it
stopped there for somebody inside. A node's requests carry an identity (`FreeId`), as
those of `RequestQueue` do, and `Book(n)` takes them for a `RequestBook`: `KeepsBooks` says
that the scheduler's steps are those of a book. So the dealings of the scheduler with
its requests, which `Dispatch` has without deadlines, and the request queue, which
has them and no other nodes, are shown to meet in one abstract specification.

What may go amiss is chosen by the constant `Mishaps`: a message lost, or overtaken by
another one of its link, a floor served unasked, a deadline that is too short.
`MaxPresses` bounds the presses of a behaviour, `MaxEvents` presses and mishaps
together. A deadline is too short if it passes while what the request waits for is
`UnderWay`: the command or "going" on their way, for a new request with its 100 ms; the
ride or "served" on its way, for an acknowledged one with its 30 s. One that passes
after the answer was lost is no mishap, so one lost "going" is followed by the code's
ordinary retry, to an elevator that has the order already.

`LampsGoOff` speaks of all lamps, those of nodes that only heard of the press
included. It has one exception, `HearsServiceFirst`: a node that hears of the service while
the press is still on its way. No mishap is needed for this, only a command that is
faster than the state change; the node then lights its lamp when nobody will turn it
off. `OwnLampIsTracked` and `EventuallySettled` hold in that case too.

The elevators do not die here: what a death does to a call is in `HallElevator` and
`SessionManager`.

### GlobalState

The table one node has (`known`, `age`), one report of each elevator on its way
to it (`report`: on the wire, then in the queue), and whether an elevator's
process lives (`silence`). The local elevator stamps its report when it makes it;
another one's is stamped on arrival (`Receive`), as in the predicate of
`main.cpp:168`. Time is counted in `keepAlive`s of 500 ms. A node starts with
nothing, or with a recovered state of its own that looks of any age: its
timestamp is another machine's and was narrowed to an `int`. `Optimal` is the set of
elevators that `_optimalElevator` may return, several if the cost is equal, since
the order of the unordered map is not defined.

### SessionManager

Each node is down, connects, or runs (`pc`). While it connects it is two threads
over the shared `phase`. The sender tests the phase (`SenderTest`) and reads it
again when it sends (`SenderSend`); if the listener has been faster the second
read matches no case, and a packet that was never filled in goes out
(`SendEmpty`) or fails the assertion and ends the process (`SenderFails`), as
its uninitialized size decides. The listener takes one message at a time
(`Listen`: `PeersAfter`, `BarrierAfter`, `PhaseAfter`, `Recover`). When the phase is
2 and the sender is done, the node looks up its number (`Connected`), and its
session thread answers those who still look for peers (`Serve`).

A socket is a queue. A message that repeats the one its sender has waiting there
last is not entered again, because the senders repeat theirs every 500 ms and
the queues would grow without bound; the next repetition replaces it. What `Serve`
knows of elevators is the set `states` of the numbers whose state it has heard
(`Report`). `ready` and `reported` are history for the properties. A process that
dies loses its queue with everything else, and starts again. An address that is
not among the peers does not occur.

### Watchdog

The parent (`parent`: about to fork, between fork and `pause`, in it, gone), its
pending signals, and up to `MaxForks` children, each with the time since the last
beat of its loops. The handler stops the motor whatever it was called for, and
collects the child that the signal names. Signals of one kind merge while one is
pending, as in Unix; a signal handled before `pause()` does not wake it; a child
that is suspended or resumed raises SIGCHLD too, because the handler is installed
without `SA_NOCLDSTOP`. `Faults` are crashes, loops that hang, suspensions, Ctrl-C
and a fork that fails.

`_lastBeat` is not initialized: before its first beat a loop looks very old (`Long`),
or, when the difference to `now()` was narrowed to a negative `int`, of an age that
is never late (`Ahead`). Time is counted in units of the checks (`rerunTime`); a
healthy loop beats within its threshold, and within the two seconds before the
first check.

### ConcurrentQueue and UdpQueue

A section under the queue's mutex is a step. A consumer is outside, asleep in the
wait, or awake again and without the mutex yet (`pc`), and then looks at the
queue again as the code's loop does. Wakings come from `notify_one`, from the
clock, or from nowhere (`Stir`). What it took it works on (`got`) until it comes
round its loop.

`UdpQueue` is the way of a message between threads of two nodes: the sender's queue
(`Out`, a second instance), its thread, the datagrams under way, the receiver's
thread with one in hand, and the receiver's queue, into which the own node puts
messages too. The receiver's predicate is the field `accepted`. A datagram that
does not deserialize (`Foreign`) restarts its loop. Of the network's mishaps
(loss, repetition, overtaking, a stray datagram) each occurs at most once.
`ImplementsLink` maps it to `Link`: what is anywhere between the two queues and will be
accepted is `way`, the receiver's queue is `inbox`.

## Runs

| run | instance | shows |
|---|---|---|
| `rq_in_time` | 2 elevators, 1 call, 2 requests, clock to 5, intervals 2 < 3 < 4 | all safety properties of the request queue if pushes are in time, and that it is a book |
| `rq_late` | 1 elevator, 2 requests, clock to 4, intervals 1 < 2 < 3, fair | overdue requests are taken even if they are not |
| `ec_core` | 3 floors, a hall button of the middle floor, stops, obstructions and crashes between any two writes, stale recovery | all safety properties of the control loop, and that it is the elevator the schedulers expect |
| `ec_service` | 3 floors, one hall call, stops, fair | every order is served in the end; floor sets answer as sets |
| `dp_settles` | 2 nodes, 1 call, 2 presses or 1 press and 1 mishap of any kind, fair | a lamp lit by a press is looked after, no elevator is handed another's command, each node keeps its book; calls are served and requests closed in the end, the retries stop, the lamps go off, with the exception above |
| `sm_connect` | 2 nodes, 2 deaths of processes, 1 lost message, fair | numbers agree, the barrier holds, a recovered state is the node's own; if nothing is lost all run in the end |
| `wd_recovers` | 2 children, 2 heartbeats of thresholds 1 and 2, 2 faults of any kind, fair | the motor does not outlive its process, one child at a time, silence is noticed and its process replaced, no false alarms, Ctrl-C ends everything |
| `uq_link` | 3 messages and 1 of the own node, 2 readers, 1 mishap, fair | the queue is a FIFO, the way between two nodes an unreliable channel that keeps the order, and nobody sleeps on a message |
| `gs_choice` | 2 elevators, 3 floors, ages to 6 `keepAlive`s, delays of 1 | somebody can always be chosen, nobody dead is, and the penalties rank as their comments say |
| `rq_late_assert`, `ec_halldoor`, `sm_stuck` | | the disagreements 1 to 3 below |

Why these bounds are enough to see the interesting cases:

- Two requests make the heap's order matter; the intervals keep the order of the
  program's (20 ms < 100 ms < 30 s); the clock goes beyond an acknowledgement's
  deadline of a request that was sent again.
- Three floors have both ends, which the code treats separately, and a middle
  floor, where direction matters. A second floor in the middle would differ in
  names only, except for the count in `_optimalDirection`.
- At most one button is held in a poll; several polls press several buttons.
- Two presses are the same button again, or the button of both nodes, so that two
  requests for one call meet; nothing goes amiss then but what the threads and links
  do by themselves. With one press there is one mishap, which is enough for a retry
  that crosses the answer, or for one after the answer was lost while the elevator
  still has the order. The two calls of one floor, which one stop reports both, do not
  fit: they meet in the elevator only, and `ec_core` has its side.
- Two nodes are enough for a call that another node serves; with three, a message
  about a call can also reach a node that has no part in it, which only changes
  lamps there. The safety properties are proved for any number of nodes.
- Two nodes have both roles of the barrier, the one that leaves first and the one
  that still waits; two deaths are enough for one that dies again while it
  recovers, and for both.
- Two children are one that dies and one that replaces it, or two at the same time;
  two faults are a death that meets another one, a suspension or Ctrl-C. `Long` is
  two beyond the greatest threshold, and times beyond it are all late.
- Two readers can take each other's datum; with three messages there is one to
  overtake while another is in the receiver's hand.
- `Horizon` is one beyond the age at which an elevator is dead and its report
  delayed by `Slack`. `Slack` is 1: the heartbeats of 100 and 200 ms end a process
  long before it is a `keepAlive` late.

`CHECK_DEADLOCK FALSE` is set in all but `gs_choice`: a run ends when its bounds are
used up and nothing is left to do.

No run lists a type invariant: for every module `TypeCorrect`, `TypeSafety` or
`LinkTypeCorrect` proves it, for every instance.

### Fairness

- `RequestQueue`: each thread runs when it can, because every critical section is
  finite; time passes. The scheduling thread needs it only for what it has begun.
- `ElevatorControl`: the loop polls and never blocks, and a process that dies is
  started again; a running motor moves the cabin. Open doors close (strong
  fairness, because the time-out is tested in each iteration and somebody may
  press an inside button meanwhile). A loop that spins misses its heartbeat if it
  spins long enough. People leave the elevator alone at last; without that a
  stop button alone prevents any service.
- `Dispatch`: each thread runs, deadlines pass, messages that are not lost
  arrive on each link, and an elevator gets to its orders, which is what `ec_service` shows of
  an elevator. Mishaps are finitely many.
- `SessionManager`: both threads and the session thread run, what is in a socket is
  read, and a process that died is started again. Losses and deaths are finitely
  many.
- `Watchdog`: parent, main threads and loops that do not hang run, and time passes.
  Nothing is assumed of faults, nor that a suspended child is resumed.
- `UdpQueue`: sender, receiver and readers run. Nobody has to send; nothing is assumed
  of spurious wakings, time-outs and mishaps, so a consumer that sleeps is only
  ever sure to be woken by `notify_one`.

## Where code and comments disagree

The first three are runs of their own that end in a counterexample.

1. `rq_late_assert` (`requestqueue.cpp:54`). The checking thread's wait times out;
   before it gets the lock back, the scheduling thread pushes a request that is
   already late and acknowledges it. The code pops it under the time read before
   the wait and finds the noted deadline the assertion excludes. The exception
   restarts the loop, and the popped request is gone.
2. `ec_halldoor` (`elevator.cpp:396`). A cabin that stands idle at a middle floor
   and is called to that floor does not open its doors: `_shouldStop` has no case
   for it, the cabin starts, and `_clearDirectionButtonLamp` drops the call of the
   direction it starts in and reports it served.
3. `sm_stuck` (`sessionmanager.cpp:166`). The last Ready of a node is lost on its way
   to another one, but the sender itself has heard from all and runs. It sends
   Ready no more, the other sends Initial no more, and `_loop` answers nothing but
   Initial, although the comment says that a node which resends ready would be
   answered. The other waits for ever.

The others were met while modelling; no run has them as its question.

4. `elevator.cpp:312`. An obstruction that ends before the heartbeat expires does
   not kill the process as the comment says; the motor stands and the loop believes
   that it moves. `ec_core` contains this behaviour, and its properties hold.
5. `elevator.cpp:294`. A stop button held while the process restarts counts as a new
   press and sets a stopped cabin in motion; `ec_core` contains this too.
6. `main.cpp:97`. A child that dies after `fork()` and before the parent is in `pause()`
   is collected, and the parent then waits for a signal that nobody sends: there is
   no "auto recovery after program crash" (`README.md` of the project) in this
   window. `StuckIsReplaced` speaks of a parent that has reached `pause()`.
7. `main.cpp:107`. Suspending a child raises SIGCHLD, and the parent forks a second one.
   When the first is resumed, two processes drive one elevator.
   `OneChildIfNoneSuspended` excepts this.
8. `main.cpp:18`. The parent's handler may stop the motor on Ctrl-C and exit before the
   child, which got the same Ctrl-C, makes its last step and starts it again.
   `NobodyLeavesMotorOn` speaks of a parent that has not exited.
9. `main.cpp:226`, `heartbeat.h:59`. A loop that never starts is not sure to be noticed,
   as the comment has it: its uninitialized `_lastBeat` may lie in the future, or far
   enough in the past for the `int` to wrap. `SilenceIsShort` allows for it.
10. `heartbeat.h:63`. `_delta` reads the beat first and the clock afterwards; a checking
    thread preempted in between kills a healthy process. `HealthyIsNotKilled` assumes
    that the main thread is on time.
11. `udpqueue.h:71`. The test for "local feedback" compares the sender's address with the
    one the socket is bound to, which is `any` (`main.cpp:161`), so it never holds for a
    datagram that was received. The predicates do the filtering.
12. `scheduler.cpp:108`. A request that was acknowledged and not served is given to
    another elevator but keeps its 30 s: if this command gets lost, nobody retries
    within the 100 ms of which the code says that "we need to be fast here".

Three things contradict no comment, but a reader may expect otherwise:

- The code opens the doors of an arriving cabin before it stops the motor
  (`elevator.cpp:378`, 382), starts the motor before it shuts the doors (112, 113), lights
  the stop lamp before it stops the motor (296, 301), and takes an order off its books
  and its lamp before the doors open (376). `DoorClosedWhileMoving`, `StopLampMeansHalted` and
  `InsideOrderKept` name these intervals. A process that dies in one of them leaves doors
  open with the motor on until the parent's handler stops it, or has lost an order at
  the floor where it was about to open.
- Each node turns its lamp off when it hears of the service (`scheduler.cpp:173`). Where a
  command overtakes the state change of the press, which is ordinary scheduling, a
  node may hear of the press last: its lamp stays lit and hides presses of that button
  until some elevator stops at its floor.
- Requests and notices carry no number (`requestqueue.cpp:80`): the notice that an earlier
  call was served closes a newer request for the same floor and elevator. `Dispatch` has
  this, with two presses in its run; its properties say that the lamp goes off with
  the request and the button can be pressed again, not that an elevator came after
  the press.

## Proofs

TLAPS checks the theorems for every value of the constants that satisfies the
modules' named assumptions: any elevators, calls and time limits with
`0 < AddDelta <= ServeDelta`; any two or more floors, any hall buttons, any set of
recovered states and of faults; any nodes and landings; any heartbeats with
positive thresholds; any finite set of consumers; any elevators and any building,
for `FloorSet` of at most as many floors as a word has bits.
The bounds (`MaxRequests`, `MaxClock`, `MaxForks`, `MaxFaults`, `Horizon`, ...) are arbitrary
numbers, except `Slack`, which is 0 or 1.

### RequestQueueProofs

`Invariance` proves `Spec => []IInv`, one lemma per action or group of similar
ones. `IInv` strengthens the properties by

- `AckingOK`, `NowOK`: what an acknowledgement under way carries, and that a time
  once read has passed;
- `DeadlinesOK`: an acknowledged request either has its new deadline noted, or it
  is already its key in the heap; what the checking thread holds is due and has
  nothing noted. This carries `PatienceAfterAck` through the gap in which the
  heap is ordered by an outdated key;
- `LateOnesOK`: a request that is late when it comes in during a wait is
  unacknowledged or has a noted deadline, so that a timed-out waiter that does
  take one takes no served one;
- `InTimeOK`: with pushes in time nothing in the queue is older than the time the
  waiter remembers, so that the assertion holds.

From it follow `TypeCorrect`, `NoLostWakeupHolds`, `PatienceHolds`,
`NoResendAfterServedHolds`, and under `PushesInTime` `NoTweakLostHolds` and the
action property `TrackedUntilServedHolds`.

`QueueIsABook` shows `Spec => ImplementsBook`, late pushes included. It needs two more
invariants: `IdsOK`, that identities are unique wherever a request is (queue, hand, or
between its making and its push), so that a request which leaves the heap takes
its entry along (`EntryLeaves`); and `FreshOnesOK`, that only acknowledged requests
have a noted deadline, so that what the failing assertion destroys was
acknowledged. Then there is one lemma for each action of the book
(`PushIsAdd`, `AckIsReport`, `TakeIsTake`, `TimedOutIsTake`, `ResendIsPutBack`), and `CleaningIsNoStep`
for the cleaning loop, whose reordering of the heap the book does not see.
`LateOnesOK` is what makes a timed-out waiter's choice a legal `Take`: a request
flagged as done is never among what it may return.

### ElevatorControlProofs

Lemmas state what the movement functions return (`SensedOK`, `StoppedOK`,
`StartedOK`, `ShutOK`, `ObservedOK`); then again one lemma per action or per alternative of
it. The strengthening:

- `MotorOK`: the motor of a live process runs only as the loop believes, and at an
  end of the shaft that a control step has seen it does not point outwards. This
  is why it matters that the cabin stays at a sensor until it was polled: a
  process may believe any floor;
- `StopOK`: stop lamp, mode and motor agree while the process lives, but for the step
  between lamp and motor, and a process that starts anew reads the lamp;
- `ArrivalOK`: while a cabin stops at a floor it is at its sensor, or has just left it the
  way its motor turns. It is what `DoorClosedWhileMoving` needs of a cabin with open doors
  and a running motor, and it holds because `Move` does not get to the next sensor;
- `LampsOK`: without obstructions the inside lamps are the inside orders, and so
  the orders survive the process.

From it follow `TypeCorrect`, `ShaftSafety`, `DoorSafety`, `StopSafety`, and the
action properties `InsideOrderSafety` (with the stronger `InsideOrdersSurvive`
when there are no obstructions) and `DroppedCallsSafety`.

`DirectionKept` (`NoReversalPastInside`) needs a second invariant, `TravelOK`: what the
loop remembers of its last ride is true, at the ends of the shaft it means that the
cabin is there, and a cabin at rest stands at a sensor or just past that of its last
floor, the way it came. The direction survives stops, which is what the property is about, because `RememberedDirection` keeps it.

### ElevatorServiceProofs

`Refinement` shows `Spec => ImplementsHallElevator`. One lemma per action of `HallElevator`
says when the visible part of a step is that action (`PressIsWork`, `AcceptIsWork`,
`ServeIsWork`, ...); one per action of `ElevatorControl` shows which of them it is. The
serving actions need from the invariant that orders are buttons; that the time-out of
the doors drops both hall calls of a floor, and leaving it one, are the two ways
`Serve` allows. The writes of an arrival are `Rest`; a loop that is entered again after
`CloseDoorAstray` is `Reset` (`EnteringIsWork`).

`FloorSetsCorrect` shows the answers of words for every width. `MaskOfBit` says what the
masks of `anyHigher` and `anyLower` are: the decrement of a single bit is all bits below
it. `BitsOfWord` turns questions about bits into questions about floors, where
`FloorsFit` is what keeps the shift of the top floor inside the word.

### SessionManagerProofs

For any finite set of addresses and any number of deaths and losses. Lemmas about
places come first: the place of an address is less than the number of addresses
(`PlaceInIds`), different addresses have different places (`PlacesDiffer`), and a
set of addresses that is counted as complete is (`CompleteIfCounted`). The
strengthening:

- `ProgressOK`: who is in a barrier is a peer and has sent Ready; behind the barrier
  all are peers and ready; a node that runs is behind it with its number;
- `MessagesOK`: each message in a socket is `Sound`: a Ready comes from somebody who
  is ready, an answer carries all peers, and a state in it is that of the node it
  is sent to, which has reported one. It is what makes the answer of a node that
  was itself restarted as good as any;
- `StatesOK`: a node has states only of elevators that reported one.

From it follow `TypeSafety`, `NumbersSafety`, `BarrierSafety` and `RecoverySafety`.

### DispatchProofs

`IInv` joins the types, `AddressedRight` (each command in a queue or on a link to a
node is for this node, which carries `NoCommandToOther`), `OneHeld` (the checking
thread holds at most one request) and `OwnLampIsTracked` itself. The latter is nearly
inductive: each step that takes away what tracked a call (the report of the press,
the request, the held request, the order to turn the lamp off) puts the next one in
its place, whatever is lost, overtaken or early. Lemmas about sequences (`Appended`,
`Popped`, `Removed`, ...) say which messages an operation keeps.

`BooksAreKept` and `EachBookIsKept` show that each node's requests are a book, with one
lemma per kind of step (`AckIsReport`, `ScheduleIsReport`, `CheckingIsBooking`) and
`OthersBooks` for the nodes that do not move. With `QueueIsABook` this is the argument that
`Dispatch` may treat a request queue as a set with a hand.

### WatchdogProofs

The four safety properties have an invariant each:

- `NobodyLeavesMotorOn` is inductive with the types: a dying child raises a signal or
  finds one pending, and its handler comes after;
- `ChildOK`: without suspensions a pending SIGCHLD means that no child is up, and a
  parent about to fork has none;
- `CheckedOK`: each age is bounded by the threshold and the time slept since the last
  check;
- `HealthyOK`: a loop that has begun keeps its threshold, one that has not still has
  time before the first check; so the garbage of `_lastBeat` is never compared.

### UdpQueueProofs

For `ConcurrentQueue`, `NobodyOversleeps` counts consumers that are awake but not yet
served; the lemmas `OneMoreAwake` and `OneLessAwake` say how each move changes the number.
`Refinement` shows `Spec => ImplementsFifo`: taking is taking, and waiting, waking and
timing out change nothing of the FIFO. It needs `WorksOutside`.

`EndsAreQueues` shows that the sender's and the receiver's queue, as `UdpQueue` uses
them, each behave as a `ConcurrentQueue` (`LinkSpec => Spec /\ Out!Spec`), so that these
theorems hold of both (`ReadersOfTheWay`). `LInv` is the types with what the sender's
thread is known to do: it holds a datum only between its `dequeue` and `sendto`.

`OneChannel` is the refinement of `Link`: `LinkSpec => ImplementsLink`. `Way` is a
concatenation of five pieces (receiver's hand, socket, sender's hand, sender's
queue), and so the work is in lemmas about sequences that say what an operation on
a piece does to the whole: `TakenOutOfMiddle`, `PutIntoMiddle`, `ExchangedInMiddle`, `InFront`.
One lemma per step (`SendEffect`, `DequeueEffect`, ...) says what becomes of `Way`, and
`ChannelStep` which action of `Link` that is.

`OrderKept` proves `InOrder`. Its invariant `OrderInv` adds that no message has a greater
number than `sent`, and a sequence stays ordered when something leaves it
(`OrderedWithout`), when a message of the own node gets into it (`OrderedWith`), and when a
message newer than all in it comes to its end (`OrderedAppended`).

### GlobalStateProofs

`UnfitRankLast` and `WrongWayRanksLast` are arithmetic: the distance is at most `Range`, and
each penalty exceeds the sum of what the lesser ones and the distance can add up
to. `AlwaysSomebody` and `NoCallsForTheDead` rest on `TimeInv`: a report waits at most
`Slack` in each place (`WaitsOK`), the local elevator's age in the table follows its
reports by what they waited (`LocalOK`), and that of a dead one its silence
(`DeadOK`). With `Slack` 1 the local age reaches exactly the three `keepAlive`s that
are not yet dead.

### Only model-checked

The liveness properties (`OverdueIsTaken`, `EverythingServed`, `EventuallySettled`, `LampsGoOff`,
`EverybodyRunsIfHeard`, `StuckIsReplaced`, `InterruptEndsAll`, `ArrivesUnlessLost`): the prover has
neither fairness nor `ENABLED`. Every other property of a passing run is a theorem.

## What is not modelled

- Crashes of nodes in `Dispatch`: requests, hall orders and messages of a node that
  dies are gone, and its other calls are sent again by those who keep a request.
- A cabin that moves after its motor stopped.
- A node whose address is not among the peers (`sessionmanager.cpp:182`).
- The reading of the beat and of the clock as two steps (`heartbeat.h:63`), and a session
  loop that turns without a beat.
- More than 64 floors, for which the shifts of `FloorSet` are undefined.
- Serialization, socket options, channel numbers, the command line and log messages:
  conversions and I/O without behaviour of their own.
- Wibble, the vendored library, which is by far most of the repository's code: option
  parsing, strings, ranges, HTTP and file system helpers of which the elevator
  software uses a handful of types. Modelling it would say nothing of the elevators,
  and it is why the modules stand for a small share of the repository's lines
  although they cover most of `project/elevator` and `project/tools`.
- The course exercises (`ex01` to `ex08`): small separate programs of other weeks.

`PROJECT.json` lists every component with its status, and every hazard found in
the code with the properties that cover it or the reason why none does.

## Plan

All modules planned are done. What would be worth adding:

1. Nodes that die and come back in `Dispatch`, with the recovery of `SessionManager`: what
   remains of `OwnLampIsTracked` when the node that keeps the request restarts.
2. An abstract start barrier that `SessionManager` implements.
3. `Dispatch` over `Link` instead of its own channels, so that its mishaps are those
   `UdpQueue` was shown to have.
