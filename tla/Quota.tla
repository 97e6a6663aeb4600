-------------------------------- MODULE Quota --------------------------------
(***************************************************************************)
(* wings_control/proxy/proxy_config.py: every proxy worker process works   *)
(* out its own share of the limits that hold for the whole pod, when it    *)
(* starts, from the environment alone; queueing.py makes the capacities of *)
(* its two gates from it.  Nothing coordinates the workers at run time.    *)
(***************************************************************************)
EXTENDS Integers

AtLeast(x, bound) == IF x > bound THEN x ELSE bound

\* _split_strict; the index of a worker without WORKER_INDEX is -1
Split(total, workers, idx) ==
    IF workers <= 0
    THEN total
    ELSE total \div workers
           + (IF 0 <= idx /\ idx < workers /\ idx < total % workers THEN 1 ELSE 0)

\* LOCAL_QUEUE_MAXSIZE and the capacities of the two gates of a worker, from
\* GLOBAL_PASS_THROUGH_LIMIT, GLOBAL_QUEUE_MAXSIZE, PROXY_WORKERS and WORKER_INDEX
Share(limit, queue, workers, idx) ==
    LET gate0 == Split(workers, workers, idx) IN
    [queue |-> Split(queue, workers, idx),
     gate0 |-> AtLeast(gate0, 0),
     gate1 |-> AtLeast(Split(limit, workers, idx) - gate0, 0)]

Tickets(share) == share.gate0 + share.gate1
=============================================================================
