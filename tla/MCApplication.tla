--------------------------- MODULE MCApplication ---------------------------
(* The instance of Application for TLC. *)
EXTENDS Application

TheUsers == <<"u1", "u2", "u3", "u4", "u5">>

(* An environment that is accepted in either mode. *)
Standard ==
  [mode |-> "postgres", database |-> TRUE, maxOpen |-> 2, maxIdle |-> 1,
   retryBase |-> 1, retryMax |-> 1, publisherTimeout |-> 1, lease |-> 2,
   ai |-> FALSE, apiKey |-> FALSE, base |-> 1, minimum |-> 0, maximum |-> 2,
   step |-> 1, adaptive |-> FALSE, prometheus |-> FALSE]

(* The values that some check compares with one another vary together.     *)
TheEnvironments ==
  LET Percent == {0, 1, MaxWaitingBuffer, MaxWaitingBuffer + 1}
      Pools == {[Standard EXCEPT !.mode = mode, !.database = db, !.ai = ai, !.apiKey = key,
                                 !.maxOpen = most, !.maxIdle = idle] :
                 mode \in {"postgres", "mock", "other"}, db \in BOOLEAN, ai \in BOOLEAN,
                 key \in BOOLEAN, most \in 0 .. 2, idle \in 0 .. 2}
      Leases == {[Standard EXCEPT !.retryBase = base, !.retryMax = max,
                                  !.publisherTimeout = timeout, !.lease = lease] :
                  base \in 1 .. 2, max \in 1 .. 2, timeout \in 1 .. 2, lease \in 1 .. 4}
      Buffers == {[Standard EXCEPT !.mode = mode, !.adaptive = on, !.prometheus = url,
                                   !.base = base, !.minimum = min, !.maximum = max, !.step = step] :
                   mode \in {"postgres", "mock"}, on \in BOOLEAN, url \in BOOLEAN,
                   base \in Percent, min \in Percent, max \in Percent, step \in Percent}
  IN  Pools \cup Leases \cup Buffers
=============================================================================
