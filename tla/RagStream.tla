------------------------------ MODULE RagStream ------------------------------
(***************************************************************************)
(* wings_control/rag_acc/stream_collector.py: one accelerated RAG request. *)
(* A collector task per document chunk streams the model's answer about    *)
(* that chunk into a queue; when all of them have ended, one more task     *)
(* sends the combining request made of their answers and streams into a    *)
(* queue of its own, which a monitor task looks into first.  The response  *)
(* generator sends the queues to the client one after the other.           *)
(*                                                                         *)
(* The sources of results are the chunks 1..Chunks and Combine.  A result  *)
(* is its number; how it is cut out of the bytes is left out, and so are   *)
(* the pauses between results.  put() and get() of NonBlockingQueue do not *)
(* suspend, as nobody suspends while holding its lock, except for a get()  *)
(* of an empty queue.                                                      *)
(***************************************************************************)
EXTENDS Integers, Sequences, SequencesExt

CONSTANTS
    Chunks,          \* chunk_num
    MaxResults,      \* bound: results of one source
    CombineMayFail   \* sending a combining request may raise

ASSUME RagAssumption ==
    /\ Chunks \in Nat \ {0} /\ MaxResults \in Nat /\ CombineMayFail \in BOOLEAN

Docs == 1..Chunks
Combine == Chunks + 1
Sources == 1..Combine
End == 0           \* the None that is put last into a queue

VARIABLES
    queue,    \* the results of each source that were not taken out yet
    got,      \* the number of results each source has received
    ended,    \* the chunks that are done
    combine,  \* "warming", "waiting", "reading", "ended" or "failed"
    seen,     \* history: buffers as they went into the combining request
    monitor,  \* "waiting", "done" or "cancelled"
    at,       \* the source being sent; Combine + 1 after [DONE]
    left,     \* the client has gone
    out       \* what the client was sent, as <<source, number>>

reading == <<got, ended, combine, seen>>
sending == <<at, out>>
vars == <<queue, reading, monitor, left, sending>>

Init ==
    /\ queue = [s \in Sources |-> <<>>]
    /\ got = [s \in Sources |-> 0]
    /\ ended = {} /\ combine = "warming" /\ seen = [i \in Docs |-> 0]
    /\ monitor = "waiting" /\ at = 1 /\ left = FALSE /\ out = <<>>

-----------------------------------------------------------------------------
Put(s, x) == queue' = [queue EXCEPT ![s] = Append(@, x)]

\* A result of source s arrives and is put into its queue.
Receive(s) ==
    /\ got[s] < MaxResults
    /\ got' = [got EXCEPT ![s] = @ + 1]
    /\ Put(s, got'[s])
    /\ UNCHANGED <<ended, combine, seen, monitor, left, sending>>

Collect(i) == i \notin ended /\ Receive(i)

FinishQuietly(i) ==
    /\ i \notin ended
    /\ ended' = ended \cup {i}
    /\ UNCHANGED <<queue, got, combine, seen, monitor, left, sending>>

\* _collect_single_chunk comes to its end, or to any error before that: both look
\* the same from outside.
Finish(i) ==
    /\ i \notin ended
    /\ ended' = ended \cup {i}
    /\ Put(i, End)
    /\ UNCHANGED <<got, combine, seen, monitor, left, sending>>

\* _combine_results sends a request.  An error raised here ends the task, and its
\* queue never gets an End.
Requested(next) ==
    /\ combine' \in IF CombineMayFail THEN {next, "failed"} ELSE {next}
    /\ UNCHANGED <<queue, got, ended, monitor, left, sending>>

WarmUp == combine = "warming" /\ Requested("waiting") /\ UNCHANGED seen

CombineAny ==
    /\ combine = "waiting" /\ ended # {}
    /\ seen' = [i \in Docs |-> got[i]]
    /\ Requested("reading")

\* done.get() of every chunk, then the request made of the buffers.
CombineAll ==
    /\ combine = "waiting" /\ ended = Docs
    /\ seen' = [i \in Docs |-> got[i]]
    /\ Requested("reading")

CombineReceives == combine = "reading" /\ Receive(Combine)

\* The second answer ends or breaks off.
CombineEnds ==
    /\ combine = "reading" /\ combine' = "ended"
    /\ Put(Combine, End)
    /\ UNCHANGED <<got, ended, seen, monitor, left, sending>>

MonitorPutsBack ==
    /\ monitor = "waiting" /\ queue[Combine] # <<>>
    /\ monitor' = "done"
    /\ queue' = [queue EXCEPT ![Combine] = Append(Tail(@), Head(@))]
    /\ UNCHANGED <<reading, left, sending>>

\* _monitor_combine_start takes the first item and prepends it again, or puts End
\* again.
Monitor ==
    /\ monitor = "waiting" /\ queue[Combine] # <<>>
    /\ monitor' = "done"
    /\ IF Head(queue[Combine]) = End
       THEN queue' = [queue EXCEPT ![Combine] = Append(Tail(@), End)]
       ELSE UNCHANGED queue
    /\ UNCHANGED <<reading, left, sending>>

-----------------------------------------------------------------------------
\* collect_and_stream: the chunks in order, the monitor's end, the combination.
Streaming == ~left /\ at \in Sources /\ (at = Combine => monitor = "done")

Take == queue' = [queue EXCEPT ![at] = Tail(@)]

SendOrSkip ==
    /\ Streaming
    /\ IF queue[at] = <<>>
       THEN at' = at + 1 /\ UNCHANGED <<queue, out>>
       ELSE /\ Take
            /\ IF Head(queue[at]) = End
               THEN at' = at + 1 /\ UNCHANGED out
               ELSE out' = Append(out, <<at, Head(queue[at])>>) /\ UNCHANGED at
    /\ UNCHANGED <<reading, monitor, left>>

\* _stream_chunk_results and _stream_combine_results: the next result, or the next
\* source; after the last one, [DONE].
Send ==
    /\ Streaming /\ queue[at] # <<>>
    /\ Take
    /\ IF Head(queue[at]) = End
       THEN at' = at + 1 /\ UNCHANGED out
       ELSE out' = Append(out, <<at, Head(queue[at])>>) /\ UNCHANGED at
    /\ UNCHANGED <<reading, monitor, left>>

\* The client goes away: the generator is cancelled, and with it the monitor if that
\* is what it waits for.  The other tasks go on.
Leave ==
    /\ ~left /\ at \in Sources
    /\ left' = TRUE
    /\ monitor' = IF at = Combine /\ monitor = "waiting" THEN "cancelled" ELSE monitor
    /\ UNCHANGED <<queue, reading, sending>>

\* [DONE] was sent, or nobody listens any more, and every task has ended.  gather()
\* after [DONE] has then nothing to wait for.
Over ==
    /\ left \/ at \notin Sources
    /\ ended = Docs /\ combine \in {"ended", "failed"} /\ UNCHANGED vars

Tasks ==
    \/ \E i \in Docs : Finish(i)
    \/ WarmUp \/ CombineAll \/ CombineEnds \/ Monitor \/ Send

Next ==
    \/ \E i \in Docs : Collect(i)
    \/ CombineReceives \/ Leave \/ Tasks \/ Over

Spec == Init /\ [][Next]_vars

\* The event loop runs every task that can go on, and every request has a timeout.
FairSpec ==
    /\ Spec /\ \A i \in Docs : WF_vars(Finish(i))
    /\ WF_vars(WarmUp) /\ WF_vars(CombineAll) /\ WF_vars(CombineEnds)
    /\ WF_vars(Monitor) /\ WF_vars(Send)

-----------------------------------------------------------------------------
\* Every variable has its type; End is put once, and last.
TypeOK ==
    /\ got \in [Sources -> 0..MaxResults] /\ seen \in [Docs -> 0..MaxResults]
    /\ ended \subseteq Docs /\ left \in BOOLEAN /\ at \in 1..(Combine + 1)
    /\ combine \in {"warming", "waiting", "reading", "ended", "failed"}
    /\ monitor \in {"waiting", "done", "cancelled"}
    /\ out \in Seq(Sources \X (1..MaxResults))
    /\ DOMAIN queue = Sources
    /\ \A s \in Sources : /\ queue[s] \in Seq(0..MaxResults)
                          /\ \A k \in DOMAIN queue[s] : queue[s][k] = End => k = Len(queue[s])

\* The client gets the answers about the chunks one after the other, then the
\* combination, each in the order in which the model produced it, whatever the
\* order in which they arrive (lines 164-194).
Before(x, y) == x[1] < y[1] \/ (x[1] = y[1] /\ x[2] < y[2])
InOrder == \A i, j \in DOMAIN out : i < j => Before(out[i], out[j])

\* When [DONE] is sent the client has every result of every source, and no task is
\* left that could produce or wait for another one (lines 41-44).
DoneIsLast ==
    at > Combine =>
        /\ ended = Docs /\ combine = "ended"
        /\ \A s \in Sources : \A k \in 1..got[s] : <<s, k>> \in ToSet(out)

\* The combining request is made of the whole answers about all chunks (lines
\* 118-126).
CombinesEverything ==
    combine \in {"reading", "ended"} => \A i \in Docs : seen[i] = got[i]

\* The client that waits gets a [DONE] in the end, even if every request failed.
DoneIsSent == <>(left \/ at > Combine)
=============================================================================
