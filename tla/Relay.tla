-------------------------------- MODULE Relay --------------------------------
(***************************************************************************)
(* wings_control/proxy/gateway.py: how a request that is through the gate  *)
(* is sent to the backend (_send_with_fixed_retries over httpx's pool) and *)
(* how its answer gets to the client (_stream_gen, _pipe_nonstream and the *)
(* one-piece answer of _forward_nonstream).                                *)
(*                                                                         *)
(* A chunk is its number in the backend's answer.  Of its bytes only what  *)
(* the flush rules look at is kept: "small" is at most FAST_PATH_BYTES;    *)
(* of the longer ones an "event" has the delimiter and, without one, a     *)
(* "middle" is shorter than FIRST_FLUSH_BYTES and a "large" is not.  Two   *)
(* chunks that are not small are FIRST_FLUSH_BYTES long together.          *)
(*                                                                         *)
(* A client that leaves is noticed where the code asks for it; what        *)
(* becomes of a task that is cancelled while it sends is not modelled.     *)
(***************************************************************************)
EXTENDS Integers, Sequences, FiniteSets, SequencesExt

CONSTANTS
    Requests,
    PoolSize,    \* max_connections of the client
    Tries,       \* RETRY_TRIES, at least 1
    Modes,       \* how answers are relayed: subset of AllModes
    Kinds,       \* the chunks of the answer to each request: subsets of AllKinds
    MaxChunks    \* bound: chunks of each answer

AllModes == {"stream", "piped", "buffered"}
AllKinds == {"small", "middle", "large", "event"}

ASSUME RelayAssumption ==
    /\ IsFiniteSet(Requests) /\ PoolSize \in Nat \ {0} /\ Tries \in Nat \ {0}
    /\ Modes \subseteq AllModes
    /\ Kinds \in [Requests -> SUBSET AllKinds] /\ MaxChunks \in [Requests -> Nat]

VARIABLES
    phase,     \* see Phases
    mode,
    attempt,   \* of _send_with_fixed_retries, from 1
    pool,      \* the requests that have a connection of the pool
    accepted,  \* times the backend began to work on the request
    refused,   \* answers 502, 503 or 504 after which the request was sent again
    first,     \* first_flush_done
    buf,       \* buf, as <<chunk, kind>>
    got, out   \* chunks received from the backend and sent to the client

sending == <<mode, attempt, accepted, refused>>
relaying == <<first, buf, got, out>>
vars == <<phase, pool, sending, relaying>>

\* A request is "bad" once the client got an error of the gateway's own, "broken"
\* when the backend fell silent in the middle of the answer.
Ended  == {"done", "bad", "broken", "gone"}
Phases == {"new", "trying", "pause", "awaiting", "reading"} \cup Ended

Init ==
    /\ phase = [r \in Requests |-> "new"]
    /\ mode \in [Requests -> Modes]
    /\ attempt = [r \in Requests |-> 1]
    /\ accepted = [r \in Requests |-> 0] /\ refused = accepted
    /\ pool = {}
    /\ first = [r \in Requests |-> FALSE]
    /\ buf = [r \in Requests |-> <<>>] /\ out = buf
    /\ got = [r \in Requests |-> 0]

-----------------------------------------------------------------------------
Goes(r, p) == phase' = [phase EXCEPT ![r] = p]
Close(r) == pool' = pool \ {r}

Start(r) ==
    /\ phase[r] = "new" /\ Goes(r, "trying")
    /\ UNCHANGED <<pool, sending, relaying>>

\* What an attempt that failed is followed by: a pause and the next one, or a 502.
Retry(r) == Goes(r, IF attempt[r] < Tries THEN "pause" ELSE "bad")

ResumeUncounted(r) ==
    /\ phase[r] = "pause" /\ Goes(r, "trying")
    /\ UNCHANGED <<pool, sending, relaying>>

Resume(r) ==
    /\ phase[r] = "pause" /\ Goes(r, "trying")
    /\ attempt' = [attempt EXCEPT ![r] = @ + 1]
    /\ UNCHANGED <<pool, mode, accepted, refused, relaying>>

\* The three errors that are tried again: ConnectError, ConnectTimeout, and
\* PoolTimeout when no connection fell free in time.
Unconnected(r) ==
    /\ phase[r] = "trying" /\ Retry(r)
    /\ UNCHANGED <<pool, sending, relaying>>

Connected(r) ==
    /\ phase[r] = "trying" /\ Cardinality(pool) < PoolSize
    /\ pool' = pool \cup {r}
    /\ Goes(r, "awaiting")
    /\ UNCHANGED <<sending, relaying>>

\* The backend got the request, and the gateway cannot tell whether it began to work.
MayHaveBegun(r) == accepted' \in {accepted, [accepted EXCEPT ![r] = @ + 1]}

\* Any other error of httpx, before the backend has answered: the request is not
\* tried again.
CutOffRetried(r) ==
    /\ phase[r] = "awaiting" /\ Close(r)
    /\ Retry(r) /\ MayHaveBegun(r)
    /\ UNCHANGED <<mode, attempt, refused, relaying>>

CutOff(r) ==
    /\ phase[r] = "awaiting" /\ Close(r)
    /\ Goes(r, "bad") /\ MayHaveBegun(r)
    /\ UNCHANGED <<mode, attempt, refused, relaying>>

RefusedUnclosed(r) ==
    /\ phase[r] = "awaiting" /\ MayHaveBegun(r)
    /\ IF attempt[r] < Tries
       THEN Goes(r, "pause") /\ refused' = [refused EXCEPT ![r] = @ + 1]
       ELSE Goes(r, "reading") /\ UNCHANGED refused
    /\ UNCHANGED <<pool, mode, attempt, relaying>>

\* 502, 503 or 504.  A 503 of the engine says that it has not begun; a 504, or a 502
\* of something in between, may come when it has.  Every mode calls with stream=True,
\* so every one tries again, whichever it was; the last refusal is relayed as it is.
Refused(r) ==
    /\ phase[r] = "awaiting" /\ MayHaveBegun(r)
    /\ IF attempt[r] < Tries
       THEN Goes(r, "pause") /\ Close(r) /\ refused' = [refused EXCEPT ![r] = @ + 1]
       ELSE Goes(r, "reading") /\ UNCHANGED <<pool, refused>>
    /\ UNCHANGED <<mode, attempt, relaying>>

Answered(r) ==
    /\ phase[r] = "awaiting" /\ Goes(r, "reading")
    /\ accepted' = [accepted EXCEPT ![r] = @ + 1]
    /\ UNCHANGED <<pool, mode, attempt, refused, relaying>>

-----------------------------------------------------------------------------
ChunksOf(b) == [i \in DOMAIN b |-> b[i][1]]
Flushed(r, b) ==
    /\ out' = [out EXCEPT ![r] = @ \o ChunksOf(b)]
    /\ buf' = [buf EXCEPT ![r] = <<>>]

Has(b, kinds) == \E i \in DOMAIN b : b[i][2] \in kinds

FastPathAlways(r, c, k) ==
    LET b == Append(buf[r], <<c, k>>)
        FirstFlush == ~first[r] /\ (Has(b, {"event", "large"}) \/ Len(b) > 1) IN
    IF k = "small"
    THEN /\ out' = [out EXCEPT ![r] = Append(@, c)]
         /\ first' = [first EXCEPT ![r] = TRUE]
         /\ UNCHANGED buf
    ELSE \/ FirstFlush /\ Flushed(r, b) /\ first' = [first EXCEPT ![r] = TRUE]
         \/ ~FirstFlush /\ Flushed(r, b) /\ UNCHANGED first
         \/ /\ ~FirstFlush /\ ~Has(b, {"event"})
            /\ buf' = [buf EXCEPT ![r] = b]
            /\ UNCHANGED <<first, out>>

\* One turn of the loop in _stream_gen: the fast path, the first flush, a later one
\* (STREAM_FLUSH_MS may always be over), or none.
StreamTurn(r, c, k) ==
    LET b == Append(buf[r], <<c, k>>)
        FirstFlush == ~first[r] /\ (Has(b, {"event", "large"}) \/ Len(b) > 1) IN
    IF ~first[r] /\ k = "small"
    THEN /\ out' = [out EXCEPT ![r] = Append(@, c)]
         /\ first' = [first EXCEPT ![r] = TRUE]
         /\ UNCHANGED buf
    ELSE \/ FirstFlush /\ Flushed(r, b) /\ first' = [first EXCEPT ![r] = TRUE]
         \/ ~FirstFlush /\ Flushed(r, b) /\ UNCHANGED first
         \/ /\ ~FirstFlush /\ ~Has(b, {"event"})
            /\ buf' = [buf EXCEPT ![r] = b]
            /\ UNCHANGED <<first, out>>

\* A chunk arrives and the client is still there.
Chunk(r, k) ==
    /\ phase[r] = "reading" /\ got[r] < MaxChunks[r]
    /\ got' = [got EXCEPT ![r] = @ + 1]
    /\ CASE mode[r] = "stream" -> StreamTurn(r, got'[r], k)
         [] mode[r] = "piped" -> /\ out' = [out EXCEPT ![r] = Append(@, got'[r])]
                                 /\ UNCHANGED <<first, buf>>
         [] mode[r] = "buffered" -> /\ buf' = [buf EXCEPT ![r] = Append(@, <<got'[r], k>>)]
                                    /\ UNCHANGED <<first, out>>
    /\ UNCHANGED <<phase, pool, sending>>

\* A chunk arrives and the client has gone: the chunk is dropped.
Left(r) ==
    /\ phase[r] = "reading" /\ mode[r] # "buffered"
    /\ Goes(r, "gone") /\ Close(r) /\ Flushed(r, buf[r])
    /\ UNCHANGED <<sending, first, got>>

EndDropsRest(r, p) ==
    /\ phase[r] = "reading"
    /\ Goes(r, p) /\ Close(r)
    /\ UNCHANGED <<sending, relaying>>

\* The answer ends, or breaks off: what is buffered is sent and the connection
\* closed.  A one-piece answer that breaks off is not sent at all.
End(r, p) ==
    /\ phase[r] = "reading"
    /\ Goes(r, p) /\ Close(r)
    /\ IF p = "broken" /\ mode[r] = "buffered" THEN UNCHANGED <<out, buf>>
                                               ELSE Flushed(r, buf[r])
    /\ UNCHANGED <<sending, first, got>>

\* Every wait for a connection has a timeout and every pause an end; the backend may
\* take as long as it likes to answer and to go on (the read timeout is None).
Sends(r) == Start(r) \/ Resume(r) \/ Unconnected(r) \/ Connected(r)

Over == (\A r \in Requests : phase[r] \in Ended) /\ UNCHANGED vars

Next ==
    \/ \E r \in Requests :
        \/ Sends(r) \/ CutOff(r) \/ Refused(r) \/ Answered(r) \/ Left(r)
        \/ \E k \in Kinds[r] : Chunk(r, k)
        \/ \E p \in {"done", "broken"} : End(r, p)
    \/ Over

Spec == Init /\ [][Next]_vars
FairSpec == Spec /\ \A r \in Requests : WF_vars(Sends(r))

-----------------------------------------------------------------------------
\* Every variable has its type; a request is never sent more than Tries times.
TypeOK ==
    /\ phase \in [Requests -> Phases] /\ mode \in [Requests -> Modes]
    /\ attempt \in [Requests -> 1..Tries]
    /\ accepted \in [Requests -> Nat] /\ refused \in [Requests -> Nat]
    /\ pool \subseteq Requests /\ Cardinality(pool) <= PoolSize
    /\ first \in [Requests -> BOOLEAN]
    /\ \A r \in Requests :
        /\ got[r] \in 0..MaxChunks[r]
        /\ buf[r] \in Seq((1..got[r]) \X Kinds[r]) /\ out[r] \in Seq(1..got[r])

\* Exactly the requests that wait for or relay an answer have a connection: none is
\* kept over a pause (lines 301-305) and none is lost on any way an answer can end.
ConnectionsReturned == pool = {r \in Requests : phase[r] \in {"awaiting", "reading"}}

\* Work that the backend may have begun is repeated only on account of an answer 502,
\* 503 or 504 of its own, never after an error that leaves it open (lines 113-115,
\* 194-206, 300-305): of the errors only those are tried again that come before the
\* request is sent.  And it is never begun more often than the attempts that the
\* client is told of in X-Retry-Count (lines 150-165).
RepeatedWhenRefused ==
    \A r \in Requests : accepted[r] <= 1 + refused[r] /\ accepted[r] <= attempt[r]

\* Every chunk the backend sent reaches the client exactly once, also when the answer
\* breaks off in the middle (lines 707-709); only a one-piece answer is lost as a whole.
NothingLost ==
    \A r \in Requests :
        \/ phase[r] \notin {"done", "broken"}
        \/ phase[r] = "broken" /\ mode[r] = "buffered"
        \/ ToSet(out[r]) = 1..got[r] /\ Len(out[r]) = got[r]

InSequence(r) == \A i, j \in DOMAIN out[r] : i < j => out[r][i] < out[r][j]

\* The client gets the chunks in the order in which the backend sent them, whatever
\* is buffered, flushed or passed on at once, if none is a middle one.
InOrder ==
    \A r \in Requests : phase[r] # "gone" /\ "middle" \notin Kinds[r] => InSequence(r)

\* Only the first packet of an answer takes the fast path (docstring at gateway.py
\* line 657), so that the order is kept with chunks of every kind.
AlwaysInOrder == \A r \in Requests : phase[r] # "gone" => InSequence(r)

\* An answer with status 502, 503 or 504 to an ordinary request is relayed, not tried
\* again (comment at gateway.py line 138).
OrdinaryNotRetried ==
    [][\A r \in Requests : mode[r] # "stream" /\ phase[r] = "awaiting" =>
          phase'[r] # "pause"]_vars

\* Nobody waits for a connection or retries for ever, even if the streams of others
\* keep all the connections: it is sent, or refused after Tries timeouts.
WaitsAreBounded ==
    \A r \in Requests : phase[r] \in {"new", "trying", "pause"}
                          ~> phase[r] \in {"awaiting", "reading"} \cup Ended
=============================================================================
