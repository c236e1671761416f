------------------------- MODULE GlobalStateProofs -------------------------
(***************************************************************************)
(* Proofs about the choice of an elevator, for every number of elevators   *)
(* and of floors: the penalties rank as the comments of _optimalElevator   *)
(* say, its assertion holds, and the dead are left out.                    *)
(***************************************************************************)
EXTENDS GlobalState, TLAPS

-----------------------------------------------------------------------------
(* Type correctness *)

LEMMA OlderType ==
  ASSUME NEW t \in Times
  PROVE  Older(t) \in Times /\ Older(t) <= t + 1 /\ t <= Older(t)
         /\ \A u \in Times : u <= t => Older(u) <= Older(t)
BY TimeAssumption DEF Times, Older

LEMMA NoReportType == NoReport \in Reports
BY TimeAssumption DEF NoReport, Reports, Times

LEMMA TypeInit == Init => TypeOK
<1> SUFFICES ASSUME Init PROVE TypeOK
  OBVIOUS
<1>0. 0 \in Times
  BY TimeAssumption DEF Times
<1>1. PICK s \in States \cup {Unknown}, t \in Times :
        /\ known = [e \in Elevators |-> IF e = Local THEN s ELSE Unknown]
        /\ age = [e \in Elevators |-> IF known[e] = Unknown THEN 0 ELSE t]
  BY DEF Init
<1> QED BY <1>0, <1>1, NoReportType DEF Init, TypeOK

LEMMA TypeStep == TypeOK /\ [Next]_vars => TypeOK'
<1> SUFFICES ASSUME TypeOK, [Next]_vars PROVE TypeOK'
  OBVIOUS
<1>0. 0 \in Times /\ 1 \in Times
  BY TimeAssumption DEF Times
<1>1. CASE Tick
  <2>1. age' \in [Elevators -> Times]
    BY <1>0, <1>1, OlderType DEF Tick, TypeOK
  <2>2. report' \in [Elevators -> Reports]
    <3>1. \A r \in Reports : [r EXCEPT !.since = Older(@)] \in Reports
      BY OlderType DEF Reports
    <3> QED BY <1>1, <3>1, NoReportType DEF Tick, TypeOK
  <2>3. silence' \in [Elevators -> Times]
    BY <1>0, <1>1, OlderType DEF Tick, TypeOK
  <2> QED BY <1>1, <2>1, <2>2, <2>3 DEF Tick, TypeOK
<1>2. ASSUME NEW e \in Elevators, Report(e) PROVE TypeOK'
  BY <1>0, <1>2 DEF Report, TypeOK, Reports
<1>3. ASSUME NEW e \in Elevators, Receive(e) PROVE TypeOK'
  BY <1>0, <1>3 DEF Receive, TypeOK, Reports
<1>4. ASSUME NEW e \in Elevators, Lose(e) PROVE TypeOK'
  BY <1>4, NoReportType DEF Lose, TypeOK
<1>5. ASSUME NEW e \in Elevators, Die(e) PROVE TypeOK'
  BY <1>0, <1>5 DEF Die, TypeOK
<1>6. ASSUME NEW e \in Elevators, Restart(e) PROVE TypeOK'
  BY <1>0, <1>6 DEF Restart, TypeOK
<1>7. ASSUME NEW e \in Elevators, NEW s \in States, Update(e, s) PROVE TypeOK'
  <2>1. report[e].since \in Times
    BY DEF TypeOK, Reports
  <2> QED BY <1>7, <2>1, NoReportType DEF Update, TypeOK
<1>8. CASE UNCHANGED vars
  BY <1>8 DEF vars, TypeOK
<1> QED BY <1>1, <1>2, <1>3, <1>4, <1>5, <1>6, <1>7, <1>8 DEF Next

(* Every state and every age in the table is one. *)
THEOREM TypeCorrect == Spec => []TypeOK
BY TypeInit, TypeStep, PTL DEF Spec

-----------------------------------------------------------------------------
(* The penalties: an elevator that is fit costs at most 3 * Range + 2, and  *)
(* one that is not at least 10 * Range.                                     *)

LEMMA RangeType == Range \in Nat \ {0}
BY FloorsAssumption DEF Range

LEMMA DistanceType ==
  ASSUME NEW s \in States, NEW floor \in Floors
  PROVE  Distance(s, floor) \in 0..Range
BY FloorsAssumption DEF Distance, States, Floors, Range

LEMMA CostOfFit ==
  ASSUME NEW s \in States, NEW t \in Times, NEW type, NEW floor \in Floors,
         ~s.stopped, ~Outdated(t)
  PROVE  /\ CostOf(s, t, type, floor) \in 0 .. 3 * Range + 2
         /\ s.direction # "None" /\ ~OnTheWay(s, type, floor)
              => CostOf(s, t, type, floor) >= 2 * Range + 2
         /\ s.direction = "None" \/ OnTheWay(s, type, floor)
              => CostOf(s, t, type, floor) <= 2 * Range + 1
BY RangeType, DistanceType DEF CostOf, TimePenalty, StopPenalty, BusyPenalty

LEMMA CostOfUnfit ==
  ASSUME NEW s \in States, NEW t \in Times, NEW type, NEW floor \in Floors,
         s.stopped \/ Outdated(t)
  PROVE  CostOf(s, t, type, floor) \in Int /\ CostOf(s, t, type, floor) >= 10 * Range
BY RangeType, DistanceType DEF CostOf, TimePenalty, StopPenalty, BusyPenalty

LEMMA CostOfWrongWay ==
  ASSUME NEW s \in States, NEW t \in Times, NEW type, NEW floor \in Floors,
         s.direction # "None", ~OnTheWay(s, type, floor)
  PROVE  CostOf(s, t, type, floor) \in Int /\ CostOf(s, t, type, floor) >= 2 * Range + 2
BY RangeType, DistanceType DEF CostOf, TimePenalty, StopPenalty, BusyPenalty

LEMMA KnownCandidates ==
  ASSUME TypeOK, NEW e \in Candidates
  PROVE  e \in Elevators /\ known[e] \in States /\ age[e] \in Times
BY DEF TypeOK, Candidates

LEMMA RankUnfit == TypeOK => UnfitIsLast
<1> SUFFICES ASSUME TypeOK, NEW type \in ButtonTypes, NEW floor \in Floors,
                    NEW e \in Optimal(type, floor), ~Fit(e),
                    NEW d \in Candidates, Fit(d)
             PROVE  FALSE
  BY DEF UnfitIsLast
<1>1. e \in Candidates /\ Cost(e, type, floor) <= Cost(d, type, floor)
  BY DEF Optimal
<1>2. Cost(d, type, floor) \in 0 .. 3 * Range + 2
  BY KnownCandidates, CostOfFit DEF Cost, Fit
<1>3. Cost(e, type, floor) \in Int /\ Cost(e, type, floor) >= 10 * Range
  BY <1>1, KnownCandidates, CostOfUnfit DEF Cost, Fit
<1> QED BY <1>1, <1>2, <1>3, RangeType

LEMMA RankWrongWay == TypeOK => WrongWayIsLastResort
<1> SUFFICES ASSUME TypeOK, NEW type \in ButtonTypes, NEW floor \in Floors,
                    NEW e \in Optimal(type, floor), WrongWay(e, type, floor),
                    NEW d \in Candidates, Fit(d), ~WrongWay(d, type, floor)
             PROVE  FALSE
  BY DEF WrongWayIsLastResort
<1>1. e \in Candidates /\ Cost(e, type, floor) <= Cost(d, type, floor)
  BY DEF Optimal
<1>2. Cost(d, type, floor) \in Int /\ Cost(d, type, floor) <= 2 * Range + 1
  BY KnownCandidates, CostOfFit, RangeType DEF Cost, Fit, WrongWay
<1>3. Cost(e, type, floor) \in Int /\ Cost(e, type, floor) >= 2 * Range + 2
  BY <1>1, KnownCandidates, CostOfWrongWay DEF Cost, WrongWay
<1> QED BY <1>1, <1>2, <1>3, RangeType

(* Whatever the number of floors, neither distance nor direction outweighs  *)
(* that an elevator is stopped or has not been heard of.                    *)
THEOREM UnfitRankLast == Spec => []UnfitIsLast
BY TypeCorrect, RankUnfit, PTL

(* Whatever the number of floors, no distance outweighs that an elevator is *)
(* on its way in the other direction.                                       *)
THEOREM WrongWayRanksLast == Spec => []WrongWayIsLastResort
BY TypeCorrect, RankWrongWay, PTL

-----------------------------------------------------------------------------
(* Time.  A report waits at most Slack in each place.  The local elevator   *)
(* is heard of every Slack + 1 and its age in the table follows its reports *)
(* by Slack; a dead one's age follows its silence by Slack.                 *)

WaitsOK ==
  /\ \A e \in Elevators : report[e].at # "nowhere" => report[e].since <= Slack
  /\ report[Local].at # "wire"
  /\ silence[Local] <= Slack + 1

LocalOK ==
  /\ report[Local].at = "queue" => silence[Local] = report[Local].since
  /\ entered =>
       /\ known[Local] \in States
       /\ report[Local].at = "nowhere" => age[Local] <= silence[Local]
       /\ report[Local].at = "queue" => age[Local] <= report[Local].since + Slack + 1

DeadOK ==
  \A e \in Remote \ Alive :
    /\ report[e].at = "wire" => silence[e] <= report[e].since + 1
    /\ report[e].at = "queue" => silence[e] <= report[e].since + 1 + Slack
    /\ known[e] # Unknown => silence[e] <= age[e] + 1 + Slack

TimeInv == TypeOK /\ WaitsOK /\ LocalOK /\ DeadOK

LEMMA TimeInit == Init => TimeInv
<1> SUFFICES ASSUME Init PROVE TimeInv
  OBVIOUS
<1>1. TypeOK /\ Local \in Elevators
  BY TypeInit, ElevatorsAssumption
<1> QED BY <1>1, TimeAssumption
       DEF Init, TimeInv, WaitsOK, LocalOK, DeadOK, NoReport, Remote, Alive

(* Ages that stop at Horizon keep their distance, or lose it.               *)
LEMMA OlderTogether ==
  ASSUME NEW t \in Times, NEW u \in Times, NEW k \in Nat, t <= u + k
  PROVE  Older(t) <= Older(u) + k
BY TimeAssumption DEF Times, Older

LEMMA TickTime ==
  ASSUME TimeInv, Tick
  PROVE  WaitsOK' /\ LocalOK' /\ DeadOK'
<1>0. Local \in Elevators /\ Slack \in Nat
  BY ElevatorsAssumption, TimeAssumption
<1>1. \A e \in Elevators : report[e] \in Reports /\ report[e].since \in Times
                             /\ age[e] \in Times /\ silence[e] \in Times
  BY DEF TimeInv, TypeOK, Reports
<1>2. \A e \in Elevators : report'[e].at = report[e].at
  BY <1>1 DEF Tick, NoReport, Reports
<1>3. \A e \in Elevators : report[e].at # "nowhere" =>
        report'[e].since = Older(report[e].since)
  BY <1>1 DEF Tick, Reports
<1>4. \A e \in Elevators : known[e] # Unknown => age'[e] = Older(age[e])
  BY DEF Tick
<1>5. \A e \in Elevators :
        silence'[e] = IF e = Local \/ e \notin Alive THEN Older(silence[e]) ELSE 0
  BY DEF Tick
<1>6. known' = known /\ entered' = entered
  BY DEF Tick
<1>7. \A t \in Times : t \in Nat /\ t <= Horizon
                       /\ Older(t) = (IF t < Horizon THEN t + 1 ELSE t)
  BY TimeAssumption DEF Times, Older
<1>8. \A e \in Remote : e \in Elevators /\ e # Local /\ (e \notin Alive' => e \notin Alive)
  BY <1>5 DEF Remote, Alive
<1>9. Unknown \notin States
  BY UnknownAssumption
<1>10. WaitsOK'
  <2>1. Punctual
    BY DEF Tick
  <2>2. ASSUME NEW e \in Elevators, report'[e].at # "nowhere"
        PROVE  report'[e].since <= Slack
    <3>1. report[e].at # "nowhere" /\ report[e].since < Slack
      BY <1>2, <2>1, <2>2 DEF Punctual
    <3>2. report'[e].since = Older(report[e].since) /\ report[e].since \in Times
      BY <1>1, <1>3, <3>1
    <3> QED BY <1>0, <1>7, <3>1, <3>2
  <2>3. report'[Local].at # "wire"
    BY <1>0, <1>2 DEF TimeInv, WaitsOK
  <2>4. silence'[Local] <= Slack + 1
    <3>1. silence[Local] <= Slack /\ silence'[Local] = Older(silence[Local])
          /\ silence[Local] \in Times
      BY <1>0, <1>1, <1>5, <2>1 DEF Punctual
    <3> QED BY <1>0, <1>7, <3>1
  <2> QED BY <2>2, <2>3, <2>4 DEF WaitsOK
<1>11. LocalOK'
  <2>1. /\ report[Local] \in Reports /\ report[Local].since \in Times
        /\ age[Local] \in Times /\ silence[Local] \in Times
        /\ report'[Local].at = report[Local].at
        /\ silence'[Local] = Older(silence[Local])
    BY <1>0, <1>1, <1>2, <1>5
  <2>2. ASSUME report'[Local].at = "queue"
        PROVE  silence'[Local] = report'[Local].since
    BY <1>0, <1>3, <2>1, <2>2 DEF TimeInv, LocalOK
  <2>3. ASSUME entered' PROVE known'[Local] \in States
    BY <1>6, <2>3 DEF TimeInv, LocalOK
  <2>4. ASSUME entered' PROVE age'[Local] = Older(age[Local])
    BY <1>0, <1>4, <1>6, <1>9, <2>3, <2>4
  <2>5. ASSUME entered', report'[Local].at = "nowhere"
        PROVE  age'[Local] <= silence'[Local]
    <3>1. age[Local] <= silence[Local] + 0
      BY <1>6, <2>1, <2>5 DEF TimeInv, LocalOK, Times
    <3>2. Older(age[Local]) <= Older(silence[Local]) + 0
      BY <2>1, <3>1, OlderTogether
    <3>3. Older(silence[Local]) \in Nat
      BY <1>7, <2>1
    <3> QED BY <2>1, <2>4, <2>5, <3>2, <3>3
  <2>6. ASSUME entered', report'[Local].at = "queue"
        PROVE  age'[Local] <= report'[Local].since + Slack + 1
    <3>1. age[Local] <= report[Local].since + (Slack + 1)
      BY <1>0, <1>6, <2>1, <2>6 DEF TimeInv, LocalOK, Times
    <3>2. report'[Local].since = Older(report[Local].since)
      BY <1>0, <1>3, <2>1, <2>6
    <3>3. Slack + 1 \in Nat /\ Older(report[Local].since) \in Nat
      BY <1>0, <1>7, <2>1
    <3>4. Older(age[Local]) <= Older(report[Local].since) + (Slack + 1)
      BY <2>1, <3>1, <3>3, OlderTogether
    <3> QED BY <1>0, <2>4, <2>6, <3>2, <3>3, <3>4
  <2> QED BY <2>2, <2>3, <2>5, <2>6 DEF LocalOK
<1>12. DeadOK'
  <2> SUFFICES ASSUME NEW e \in Remote, e \notin Alive'
               PROVE  /\ report'[e].at = "wire" => silence'[e] <= report'[e].since + 1
                      /\ report'[e].at = "queue" => silence'[e] <= report'[e].since + 1 + Slack
                      /\ known'[e] # Unknown => silence'[e] <= age'[e] + 1 + Slack
    BY <1>8 DEF DeadOK, Remote
  <2>1. e \in Elevators /\ e \notin Alive
    BY <1>8
  <2>2. /\ report[e].at = "wire" => silence[e] <= report[e].since + 1
        /\ report[e].at = "queue" => silence[e] <= report[e].since + 1 + Slack
        /\ known[e] # Unknown => silence[e] <= age[e] + 1 + Slack
    BY <2>1 DEF TimeInv, DeadOK
  <2>3. silence'[e] = Older(silence[e]) /\ silence[e] \in Times
    BY <1>1, <1>5, <2>1
  <2>4. report'[e].at = report[e].at /\ report[e].since \in Times
    BY <1>1, <1>2, <2>1
  <2>5. ASSUME report'[e].at # "nowhere" PROVE report'[e].since = Older(report[e].since)
    BY <1>3, <2>1, <2>4, <2>5
  <2>6. ASSUME known'[e] # Unknown
        PROVE  age'[e] = Older(age[e]) /\ age[e] \in Times
               /\ silence[e] <= age[e] + 1 + Slack
    BY <1>1, <1>4, <1>6, <2>1, <2>2, <2>6
  <2>7. ASSUME report'[e].at = "wire" PROVE silence'[e] <= report'[e].since + 1
    <3>1. silence[e] <= report[e].since + 1 /\ report'[e].since = Older(report[e].since)
      BY <2>2, <2>4, <2>5, <2>7
    <3> QED BY <2>3, <2>4, <3>1, OlderTogether
  <2>8. ASSUME report'[e].at = "queue" PROVE silence'[e] <= report'[e].since + 1 + Slack
    <3>1. silence[e] <= report[e].since + 1 + Slack
          /\ report'[e].since = Older(report[e].since)
      BY <2>2, <2>4, <2>5, <2>8
    <3>2. Older(silence[e]) <= Older(report[e].since) + (1 + Slack)
      BY <1>0, <2>3, <2>4, <3>1, OlderTogether DEF Times
    <3> QED BY <1>0, <1>7, <2>3, <2>4, <3>1, <3>2
  <2>9. ASSUME known'[e] # Unknown PROVE silence'[e] <= age'[e] + 1 + Slack
    <3>1. age'[e] = Older(age[e]) /\ age[e] \in Times /\ silence[e] <= age[e] + (1 + Slack)
      BY <1>0, <2>3, <2>6, <2>9 DEF Times
    <3>2. Older(silence[e]) <= Older(age[e]) + (1 + Slack)
      BY <1>0, <2>3, <3>1, OlderTogether
    <3> QED BY <1>0, <1>7, <2>3, <3>1, <3>2
  <2> QED BY <2>7, <2>8, <2>9
<1> QED BY <1>10, <1>11, <1>12

LEMMA OtherTime ==
  ASSUME TimeInv, Next, ~Tick
  PROVE  WaitsOK' /\ LocalOK' /\ DeadOK'
<1>0. Local \in Elevators /\ Slack \in Nat /\ Remote = Elevators \ {Local}
  BY ElevatorsAssumption, TimeAssumption DEF Remote
<1>1. \A e \in Elevators : report[e] \in Reports /\ report[e].since \in Nat
                             /\ age[e] \in Nat /\ silence[e] \in Nat
  BY DEF TimeInv, TypeOK, Reports, Times
<1>2. NoReport.at = "nowhere" /\ NoReport.since = 0
  BY DEF NoReport
<1>3. TypeOK
  BY DEF TimeInv
<1> USE DEF TimeInv, WaitsOK, LocalOK, DeadOK, Alive
<1>4. ASSUME NEW e \in Elevators, Report(e) PROVE WaitsOK' /\ LocalOK' /\ DeadOK'
  BY <1>0, <1>1, <1>2, <1>3, <1>4 DEF Report, TypeOK
<1>5. ASSUME NEW e \in Elevators, Receive(e) PROVE WaitsOK' /\ LocalOK' /\ DeadOK'
  BY <1>0, <1>1, <1>2, <1>3, <1>5 DEF Receive, TypeOK
<1>6. ASSUME NEW e \in Elevators, Lose(e) PROVE WaitsOK' /\ LocalOK' /\ DeadOK'
  BY <1>0, <1>1, <1>2, <1>3, <1>6 DEF Lose, TypeOK
<1>7. ASSUME NEW e \in Elevators, Die(e) PROVE WaitsOK' /\ LocalOK' /\ DeadOK'
  BY <1>0, <1>1, <1>2, <1>3, <1>7 DEF Die, TypeOK
<1>8. ASSUME NEW e \in Elevators, Restart(e) PROVE WaitsOK' /\ LocalOK' /\ DeadOK'
  BY <1>0, <1>1, <1>2, <1>3, <1>8 DEF Restart, TypeOK
<1>9. ASSUME NEW e \in Elevators, NEW s \in States, Update(e, s)
      PROVE  WaitsOK' /\ LocalOK' /\ DeadOK'
  BY <1>0, <1>1, <1>2, <1>3, <1>9 DEF Update, TypeOK
<1> QED BY <1>4, <1>5, <1>6, <1>7, <1>8, <1>9 DEF Next

LEMMA TimeStep == TimeInv /\ [Next]_vars => TimeInv'
<1> SUFFICES ASSUME TimeInv, [Next]_vars PROVE TimeInv'
  OBVIOUS
<1>1. TypeOK'
  BY TypeStep DEF TimeInv
<1>2. CASE UNCHANGED vars
  BY <1>1, <1>2 DEF vars, TimeInv, WaitsOK, LocalOK, DeadOK, Alive
<1> QED BY <1>1, <1>2, TickTime, OtherTime DEF TimeInv

(* The assertion of _optimalElevator: once this node's elevator has         *)
(* reported it is always among those to choose from, although a report may  *)
(* be late, and may wait while another thread chooses.                      *)
THEOREM AlwaysSomebody == Spec => []LocalIsNeverDead
<1>1. TimeInv => LocalIsNeverDead
  <2> SUFFICES ASSUME TimeInv, entered PROVE Local \in Candidates
    BY DEF LocalIsNeverDead
  <2>1. Local \in Elevators /\ Slack \in {0, 1}
    BY ElevatorsAssumption, TimeAssumption
  <2>2. report[Local].at \in {"nowhere", "queue"} /\ report[Local].since \in Nat
        /\ age[Local] \in Nat /\ silence[Local] \in Nat
    BY <2>1 DEF TimeInv, TypeOK, Reports, Times, WaitsOK
  <2>3. age[Local] <= 3
    BY <2>1, <2>2 DEF TimeInv, WaitsOK, LocalOK
  <2>4. known[Local] # Unknown
    BY UnknownAssumption DEF TimeInv, LocalOK
  <2> QED BY <2>1, <2>2, <2>3, <2>4 DEF Candidates, Dead
<1> QED BY <1>1, TimeInit, TimeStep, PTL DEF Spec

(* A process that has been dead for 4 + Slack keepAlives is no candidate,   *)
(* wherever its last reports were held up.                                  *)
THEOREM NoCallsForTheDead == Spec => []DeadGetNoCalls
<1>1. TimeInv => DeadGetNoCalls
  <2> SUFFICES ASSUME TimeInv, NEW e \in Remote \ Alive, silence[e] > 4 + Slack,
                      e \in Candidates
               PROVE  FALSE
    BY DEF DeadGetNoCalls
  <2>1. silence[e] <= age[e] + 1 + Slack /\ ~(age[e] > 3)
    BY DEF TimeInv, DeadOK, Candidates, Dead
  <2>2. silence[e] \in Nat /\ age[e] \in Nat /\ Slack \in Nat
    BY TimeAssumption DEF TimeInv, TypeOK, Remote, Times
  <2> QED BY <2>1, <2>2
<1> QED BY <1>1, TimeInit, TimeStep, PTL DEF Spec
=============================================================================
