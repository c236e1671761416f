----------------------------- MODULE MCUdpQueue -----------------------------
EXTENDS UdpQueue

(* The messages are the queue's data.  In main.cpp one loop reads a queue,  *)
(* and the scheduler's has a timeout; the queue and its tests allow more.   *)
OneReader == {"scheduler"}
TwoReaders == {"scheduler", "another"}
MCOp == [c \in Consumers |->
           IF c = "scheduler" THEN "timeoutDequeue" ELSE "dequeue"]
=============================================================================
