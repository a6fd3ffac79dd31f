------------------------------ MODULE BlobCache ------------------------------
(***************************************************************************)
(* The lookups of internal/clients/celestia/client.go, GetBlobsAtHeight    *)
(* and GetBlockTimestamp, with the caches in front of them and the shared, *)
(* detached fetch behind them.                                             *)
(*                                                                         *)
(* The callers are the verification attempts of the workers; each has a    *)
(* context with a deadline.  A key is a DA height with a namespace, or a   *)
(* DA height alone for its timestamp.  Below the head of the DA layer what *)
(* is there stays; above it a lookup of blobs may come back empty, one of  *)
(* a timestamp only fails.                                                 *)
(***************************************************************************)
EXTENDS Naturals, FiniteSets

CONSTANTS Callers,  \* the attempts that run at the same time
          Keys,     \* the keys of both caches
          TimeKeys  \* those of GetBlockTimestamp

ASSUME TimeKeysAssumption == TimeKeys \subseteq Keys

Answers == {"found", "empty", "error"}
NoFlight == [pc |-> "none"]
NoEntry == [value |-> "none", expired |-> FALSE]

VARIABLES
    onDA,       \* keys the DA layer has something for
    cache,      \* per key, its entry in Client.blobs or Client.timestamps
    flight,     \* per key, the call of Client.inflight and the step of its fetch
    caller,     \* per caller, the step of its call
    done        \* callers whose context is done

vars == <<onDA, cache, flight, caller, done>>

Idle == [pc |-> "idle"]

\* must: the blobs were there, and no fetch was under way, when the call began.
Call == [pc : {"lookup", "missed", "waiting"}, key : Keys, must : BOOLEAN]
Result == [pc : {"answered", "returned"}, key : Keys, must : BOOLEAN,
           answer : Answers \cup {"cancelled"}]

TypeOK ==
    /\ onDA \subseteq Keys
    /\ cache \in [Keys -> {NoEntry} \cup [value : {"found", "empty"}, expired : BOOLEAN]]
    /\ flight \in [Keys -> {NoFlight} \cup [pc : {"fetching"}]
                     \cup [pc : {"fetched", "stored"}, answer : Answers \cup {"cancelled"}]]
    /\ caller \in [Callers -> {Idle} \cup Call \cup Result]
    /\ done \subseteq Callers

Init ==
    /\ onDA = {}
    /\ cache = [k \in Keys |-> NoEntry]
    /\ flight = [k \in Keys |-> NoFlight]
    /\ caller = [c \in Callers |-> Idle]
    /\ done = {}

-----------------------------------------------------------------------------
(* A call of GetBlobsAtHeight or GetBlockTimestamp. *)

Begin(c, k) ==
    /\ caller[c].pc \in {"idle", "returned"}
    /\ caller' = [caller EXCEPT ![c] = [pc |-> "lookup", key |-> k,
                                        must |-> k \in onDA /\ flight[k] = NoFlight]]
    /\ done' = done \ {c}
    /\ UNCHANGED <<onDA, cache, flight>>

\* The call of caller c ends with an answer at step p.
Give(c, p, a) ==
    [pc |-> p, key |-> caller[c].key, must |-> caller[c].must, answer |-> a]

\* cacheGet: a hit is the answer.
Lookup(c) ==
    /\ caller[c].pc = "lookup"
    /\ LET entry == cache[caller[c].key]
           hit == entry # NoEntry /\ ~entry.expired
       IN  caller' = [caller EXCEPT ![c] = IF hit THEN Give(c, "returned", entry.value)
                                           ELSE [@ EXCEPT !.pc = "missed"]]
    /\ UNCHANGED <<onDA, cache, flight, done>>

\* DoChan joins the call of that key, or starts one.
Share(c) ==
    LET k == caller[c].key
    IN  /\ caller[c].pc = "missed"
        /\ caller' = [caller EXCEPT ![c].pc = "waiting"]
        /\ IF flight[k] # NoFlight THEN UNCHANGED flight
           ELSE flight' = [flight EXCEPT ![k] = [pc |-> "fetching"]]
        /\ UNCHANGED <<onDA, cache, done>>

\* shared returns the result on the channel.
Return(c) ==
    /\ caller[c].pc = "answered"
    /\ caller' = [caller EXCEPT ![c].pc = "returned"]
    /\ UNCHANGED <<onDA, cache, flight, done>>

\* mutant: a caller whose context is done still waits for the fetch
GiveUpAnswered(c) ==
    /\ caller[c].pc = "answered" /\ c \in done
    /\ caller' = [caller EXCEPT ![c] = Give(c, "returned", "cancelled")]
    /\ UNCHANGED <<onDA, cache, flight, done>>

\* shared returns on ctx.Done().
GiveUp(c) ==
    /\ caller[c].pc \in {"waiting", "answered"} /\ c \in done
    /\ caller' = [caller EXCEPT ![c] = Give(c, "returned", "cancelled")]
    /\ UNCHANGED <<onDA, cache, flight, done>>

-----------------------------------------------------------------------------
(* The shared fetch. *)

\* fetchBlobs takes "blob: not found" for no blobs; fetchBlockTimestamp has no such case.
Content(k) == IF k \in onDA THEN "found" ELSE IF k \in TimeKeys THEN "error" ELSE "empty"

\* mutant: the fetch is bound to the context of a caller
OutcomesBound(k) == {"error", Content(k)} \cup
    {"cancelled" : c \in {d \in done : caller[d].pc = "waiting" /\ caller[d].key = k}}

\* What a fetch may come back with now: the RPC may fail or time out.
Outcomes(k) == {"error", Content(k)}

Fetch(k) ==
    /\ flight[k].pc = "fetching"
    /\ \E a \in Outcomes(k) :
          flight' = [flight EXCEPT ![k] = [pc |-> "fetched", answer |-> a]]
    /\ UNCHANGED <<onDA, cache, caller, done>>

\* mutant: an empty result is memoized as well
MemoizedAny(a) == a # "error"

\* Only a non-empty result is.
Memoized(a) == a = "found"

\* Those in the same cache.
Alike(j, k) == (j \in TimeKeys) = (k \in TimeKeys)

\* cachePut sweeps the expired entries of that cache.
Store(k) ==
    /\ flight[k].pc = "fetched"
    /\ cache' = IF ~Memoized(flight[k].answer) THEN cache
                ELSE [j \in Keys |-> IF j = k THEN [value |-> flight[k].answer, expired |-> FALSE]
                                     ELSE IF cache[j].expired /\ Alike(j, k) THEN NoEntry ELSE cache[j]]
    /\ flight' = [flight EXCEPT ![k].pc = "stored"]
    /\ UNCHANGED <<onDA, caller, done>>

\* singleflight forgets the call and sends its result to every caller that joined.
Deliver(k) ==
    /\ flight[k].pc = "stored"
    /\ flight' = [flight EXCEPT ![k] = NoFlight]
    /\ caller' = [c \in Callers |->
                     IF caller[c].pc = "waiting" /\ caller[c].key = k
                     THEN Give(c, "answered", flight[k].answer) ELSE caller[c]]
    /\ UNCHANGED <<onDA, cache, done>>

-----------------------------------------------------------------------------
(* The environment. *)

\* The DA layer reaches the height, with blobs in it.
Publish(k) ==
    /\ k \notin onDA
    /\ onDA' = onDA \cup {k}
    /\ UNCHANGED <<cache, flight, caller, done>>

\* cacheTTL is over.
Expire(k) ==
    /\ cache[k] # NoEntry /\ ~cache[k].expired
    /\ cache' = [cache EXCEPT ![k].expired = TRUE]
    /\ UNCHANGED <<onDA, flight, caller, done>>

\* The deadline of an attempt, or the cancellation of the exporter.
ContextDone(c) ==
    /\ caller[c].pc \notin {"idle", "returned"} /\ c \notin done
    /\ done' = done \cup {c}
    /\ UNCHANGED <<onDA, cache, flight, caller>>

Next == \/ \E c \in Callers, k \in Keys : Begin(c, k)
        \/ \E c \in Callers : Lookup(c) \/ Share(c) \/ Return(c) \/ GiveUp(c) \/ ContextDone(c)
        \/ \E k \in Keys : Fetch(k) \/ Store(k) \/ Deliver(k) \/ Publish(k) \/ Expire(k)

Spec == Init /\ [][Next]_vars

\* A caller that can go on does; a fetch may hang until its own timeout.
FairSpec == Spec /\ \A c \in Callers : WF_vars(Lookup(c) \/ Share(c) \/ Return(c) \/ GiveUp(c))

-----------------------------------------------------------------------------
(* Properties. *)

Returned(c) == caller[c].pc = "returned"

\* A caller that gives up does not make others fail: a call ends with a cancellation
\* only if its own context is done (client.go:87-89).
OthersSurvive ==
    \A c \in Callers : Returned(c) /\ caller[c].answer = "cancelled" => c \in done

\* Emptiness is never remembered: a call that begins when the blobs are there and no
\* fetch is under way does not come back empty-handed (client.go:137-139).  A block
\* looked for too early would otherwise stay unverified until the entry expires.
NoStaleEmpty ==
    \A c \in Callers : Returned(c) /\ caller[c].must => caller[c].answer # "empty"

\* "each caller still returns as soon as its own ctx is done" (client.go:89), even if
\* the fetch it waits for hangs.
ReturnsOnDeadline == \A c \in Callers : c \in done ~> (Returned(c) \/ c \notin done)
=============================================================================
