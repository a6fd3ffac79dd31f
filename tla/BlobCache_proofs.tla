-------------------------- MODULE BlobCache_proofs --------------------------
(***************************************************************************)
(* For every set of callers and of keys: a caller that gives up does not   *)
(* take the others with it, and an empty result is never remembered.       *)
(***************************************************************************)
EXTENDS BlobCache, TLAPS

\* OthersSurvive needs to know where an answer comes from: no fetch ends with the
\* cancellation of a caller, so none is handed to those who wait for it.
FetchesKeepGoing ==
    \A k \in Keys : flight[k].pc \in {"fetched", "stored"} => flight[k].answer \in Answers

AnswersAreOfFetches ==
    \A c \in Callers : caller[c].pc = "answered" => caller[c].answer \in Answers

IInv == TypeOK /\ FetchesKeepGoing /\ AnswersAreOfFetches /\ OthersSurvive

\* What the step of a call and of a fetch says of their other fields.
LEMMA CallShape ==
    ASSUME TypeOK, NEW c \in Callers
    PROVE  /\ caller[c].pc \in {"lookup", "missed", "waiting"} => caller[c] \in Call
           /\ caller[c].pc \in {"answered", "returned"} => caller[c] \in Result
BY DEF TypeOK, Call, Result, Idle

\* Giving an answer makes a result of a call.
LEMMA GiveShape ==
    ASSUME TypeOK, NEW c \in Callers, caller[c].pc # "idle",
           NEW p \in {"answered", "returned"}, NEW a \in Answers \cup {"cancelled"}
    PROVE  Give(c, p, a) \in Result /\ Give(c, p, a).pc = p /\ Give(c, p, a).answer = a
<1>1. caller[c] \in Call \cup Result
  BY DEF TypeOK, Idle
<1>2. caller[c].key \in Keys /\ caller[c].must \in BOOLEAN
  BY <1>1 DEF Call, Result
<1> QED BY <1>2 DEF Give, Result

\* A step that changes the call of one caller only.
LEMMA OneCaller ==
    ASSUME IInv, NEW c \in Callers, NEW r \in {Idle} \cup Call \cup Result,
           caller' = [caller EXCEPT ![c] = r],
           UNCHANGED <<onDA, cache>>,
           flight' \in [Keys -> {NoFlight} \cup [pc : {"fetching"}]
                     \cup [pc : {"fetched", "stored"}, answer : Answers \cup {"cancelled"}]],
           \A k \in Keys : flight'[k] = flight[k] \/ flight'[k].pc = "fetching",
           done' \in {done, done \ {c}},
           r.pc = "answered" => r.answer \in Answers,
           r.pc = "returned" => r.answer # "cancelled" \/ c \in done'
    PROVE  IInv'
<1>1. TypeOK'
  BY DEF IInv, TypeOK
<1>2. FetchesKeepGoing'
  BY DEF IInv, FetchesKeepGoing
<1>3. \A d \in Callers : caller'[d] = IF d = c THEN r ELSE caller[d]
  BY DEF IInv, TypeOK
<1>4. AnswersAreOfFetches'
  BY <1>3 DEF IInv, AnswersAreOfFetches
<1>5. OthersSurvive'
  <2> SUFFICES ASSUME NEW d \in Callers, Returned(d)', caller'[d].answer = "cancelled"
               PROVE  d \in done'
    BY DEF OthersSurvive
  <2>1. CASE d = c
    BY <1>3, <2>1 DEF Returned
  <2>2. CASE d # c
    BY <1>3, <2>2 DEF IInv, OthersSurvive, Returned
  <2> QED BY <2>1, <2>2
<1> QED BY <1>1, <1>2, <1>4, <1>5 DEF IInv

\* The invariant holds initially.
LEMMA InitIInv == Init => IInv
BY DEF Init, IInv, TypeOK, FetchesKeepGoing, AnswersAreOfFetches, OthersSurvive, Returned,
       NoEntry, NoFlight, Idle

\* The steps of a call keep it.
LEMMA CallerIInv ==
    ASSUME IInv, NEW c \in Callers,
           (\E k \in Keys : Begin(c, k)) \/ Lookup(c) \/ Share(c) \/ Return(c) \/ GiveUp(c)
    PROVE  IInv'
<1>0. TypeOK
  BY DEF IInv
<1>1. ASSUME NEW k \in Keys, Begin(c, k) PROVE IInv'
  <2> DEFINE r == [pc |-> "lookup", key |-> k, must |-> k \in onDA /\ flight[k] = NoFlight]
  <2>1. r \in Call /\ r.pc = "lookup"
    BY DEF Call
  <2>2. caller' = [caller EXCEPT ![c] = r] /\ done' = done \ {c} /\ UNCHANGED <<onDA, cache, flight>>
    BY <1>1 DEF Begin
  <2> HIDE DEF r
  <2> QED BY <1>0, <2>1, <2>2, OneCaller DEF TypeOK
<1>2. CASE Lookup(c)
  <2> DEFINE entry == cache[caller[c].key]
             hit == entry # NoEntry /\ ~entry.expired
             r == IF hit THEN Give(c, "returned", entry.value) ELSE [caller[c] EXCEPT !.pc = "missed"]
  <2>1. caller' = [caller EXCEPT ![c] = r] /\ UNCHANGED <<onDA, cache, flight, done>>
    BY <1>0, <1>2 DEF Lookup, TypeOK
  <2>2. caller[c] \in Call /\ caller[c].pc = "lookup"
    BY <1>0, <1>2, CallShape DEF Lookup
  <2>3. CASE hit
    <3>1. entry.value \in {"found", "empty"}
      BY <1>0, <2>2, <2>3 DEF TypeOK, Call, NoEntry
    <3>2. r \in Result /\ r.pc = "returned" /\ r.answer # "cancelled"
      BY <1>0, <2>2, <2>3, <3>1, GiveShape DEF Answers
    <3> HIDE DEF r
    <3> QED BY <1>0, <2>1, <3>2, OneCaller DEF TypeOK
  <2>4. CASE ~hit
    <3>1. r \in Call /\ r.pc = "missed"
      BY <2>2, <2>4 DEF Call
    <3> HIDE DEF r
    <3> QED BY <1>0, <2>1, <3>1, OneCaller DEF TypeOK
  <2> QED BY <2>3, <2>4
<1>3. CASE Share(c)
  <2> DEFINE r == [caller[c] EXCEPT !.pc = "waiting"]
  <2>1. caller' = [caller EXCEPT ![c] = r] /\ UNCHANGED <<onDA, cache, done>>
    BY <1>0, <1>3 DEF Share, TypeOK
  <2>2. caller[c] \in Call
    BY <1>0, <1>3, CallShape DEF Share
  <2>3. r \in Call /\ r.pc = "waiting" /\ caller[c].key \in Keys
    BY <2>2 DEF Call
  <2>4. \/ UNCHANGED flight
        \/ flight' = [flight EXCEPT ![caller[c].key] = [pc |-> "fetching"]]
    BY <1>3 DEF Share
  <2> HIDE DEF r
  <2>5. \A k \in Keys : flight'[k] = flight[k] \/ flight'[k].pc = "fetching"
    BY <1>0, <2>3, <2>4 DEF TypeOK
  <2>6. flight' \in [Keys -> {NoFlight} \cup [pc : {"fetching"}]
                     \cup [pc : {"fetched", "stored"}, answer : Answers \cup {"cancelled"}]]
    BY <1>0, <2>3, <2>4 DEF TypeOK
  <2> QED BY <2>1, <2>3, <2>5, <2>6, OneCaller
<1>4. CASE Return(c)
  <2> DEFINE r == [caller[c] EXCEPT !.pc = "returned"]
  <2>1. caller' = [caller EXCEPT ![c] = r] /\ UNCHANGED <<onDA, cache, flight, done>>
    BY <1>0, <1>4 DEF Return, TypeOK
  <2>2. caller[c] \in Result /\ caller[c].answer \in Answers
    BY <1>0, <1>4, CallShape DEF Return, IInv, AnswersAreOfFetches
  <2>3. r \in Result /\ r.pc = "returned" /\ r.answer # "cancelled"
    BY <2>2 DEF Result, Answers
  <2> HIDE DEF r
  <2> QED BY <1>0, <2>1, <2>3, OneCaller DEF TypeOK
<1>5. CASE GiveUp(c)
  <2> DEFINE r == Give(c, "returned", "cancelled")
  <2>1. caller' = [caller EXCEPT ![c] = r] /\ UNCHANGED <<onDA, cache, flight, done>> /\ c \in done
    BY <1>5 DEF GiveUp
  <2>2. r \in Result /\ r.pc = "returned"
    BY <1>0, <1>5, GiveShape DEF GiveUp
  <2> HIDE DEF r
  <2> QED BY <1>0, <2>1, <2>2, OneCaller DEF TypeOK
<1> QED BY <1>1, <1>2, <1>3, <1>4, <1>5

\* The steps of a fetch keep it.
LEMMA FlightIInv ==
    ASSUME IInv, NEW k \in Keys, Fetch(k) \/ Store(k) \/ Deliver(k)
    PROVE  IInv'
<1>0. TypeOK
  BY DEF IInv
<1>1. CASE Fetch(k)
  <2>1. PICK a \in Outcomes(k) :
           flight' = [flight EXCEPT ![k] = [pc |-> "fetched", answer |-> a]]
    BY <1>1 DEF Fetch
  <2>2. a \in Answers
    BY DEF Outcomes, Content, Answers
  <2>4. TypeOK'
    BY <1>0, <1>1, <2>1, <2>2 DEF Fetch, TypeOK
  <2>5. FetchesKeepGoing'
    BY <1>0, <2>1, <2>2 DEF IInv, FetchesKeepGoing, TypeOK
  <2> QED BY <1>1, <2>4, <2>5 DEF Fetch, IInv, AnswersAreOfFetches, OthersSurvive, Returned
<1>2. CASE Store(k)
  <2>1. flight' = [flight EXCEPT ![k].pc = "stored"] /\ UNCHANGED <<onDA, caller, done>>
        /\ flight[k].pc = "fetched"
    BY <1>2 DEF Store
  <2>2. flight[k] \in [pc : {"fetched", "stored"}, answer : Answers \cup {"cancelled"}]
    BY <1>0, <2>1 DEF TypeOK, NoFlight
  <2>3. [flight[k] EXCEPT !.pc = "stored"]
           \in [pc : {"fetched", "stored"}, answer : Answers \cup {"cancelled"}]
    BY <2>2
  <2>4. cache' \in [Keys -> {NoEntry} \cup [value : {"found", "empty"}, expired : BOOLEAN]]
    BY <1>0, <1>2 DEF Store, Memoized, TypeOK
  <2>5. TypeOK'
    BY <1>0, <2>1, <2>3, <2>4 DEF TypeOK
  <2>6. FetchesKeepGoing'
    BY <1>0, <2>1, <2>2 DEF IInv, FetchesKeepGoing, TypeOK
  <2> QED BY <2>1, <2>5, <2>6 DEF IInv, AnswersAreOfFetches, OthersSurvive, Returned
<1>3. CASE Deliver(k)
  <2>1. flight' = [flight EXCEPT ![k] = NoFlight] /\ UNCHANGED <<onDA, cache, done>>
        /\ flight[k].pc = "stored"
    BY <1>3 DEF Deliver
  <2>2. flight[k].answer \in Answers
    BY <2>1 DEF IInv, FetchesKeepGoing
  <2>3. \A c \in Callers : \/ caller'[c] = caller[c]
                           \/ caller'[c] = Give(c, "answered", flight[k].answer) /\ caller[c].pc = "waiting"
    BY <1>3 DEF Deliver
  <2>4. \A c \in Callers : \/ caller'[c] = caller[c]
                           \/ /\ caller'[c] \in Result /\ caller'[c].pc = "answered"
                              /\ caller'[c].answer \in Answers
    BY <1>0, <2>2, <2>3, GiveShape
  <2>5. TypeOK'
    <3>1. DOMAIN caller' = Callers /\ caller' = [c \in Callers |-> caller'[c]]
      BY <1>3 DEF Deliver
    <3> QED BY <1>0, <2>1, <2>4, <3>1 DEF TypeOK
  <2>6. FetchesKeepGoing'
    BY <1>0, <2>1 DEF IInv, FetchesKeepGoing, TypeOK, NoFlight
  <2>7. AnswersAreOfFetches'
    BY <2>4 DEF IInv, AnswersAreOfFetches
  <2>8. OthersSurvive'
    BY <2>1, <2>4 DEF IInv, OthersSurvive, Returned
  <2> QED BY <2>5, <2>6, <2>7, <2>8 DEF IInv
<1> QED BY <1>1, <1>2, <1>3

\* So does every other step.
LEMMA NextIInv == IInv /\ [Next]_vars => IInv'
<1> SUFFICES ASSUME IInv, [Next]_vars PROVE IInv'
  OBVIOUS
<1>1. ASSUME NEW c \in Callers, ContextDone(c) PROVE IInv'
  BY <1>1 DEF ContextDone, IInv, TypeOK, FetchesKeepGoing, AnswersAreOfFetches, OthersSurvive, Returned
<1>2. ASSUME NEW k \in Keys, Publish(k) PROVE IInv'
  BY <1>2 DEF Publish, IInv, TypeOK, FetchesKeepGoing, AnswersAreOfFetches, OthersSurvive, Returned
<1>3. ASSUME NEW k \in Keys, Expire(k) PROVE IInv'
  <2>1. cache' = [cache EXCEPT ![k].expired = TRUE] /\ cache[k] # NoEntry
        /\ UNCHANGED <<onDA, flight, caller, done>>
    BY <1>3 DEF Expire
  <2>2. TypeOK'
    BY <2>1 DEF IInv, TypeOK
  <2> QED BY <2>1, <2>2 DEF IInv, FetchesKeepGoing, AnswersAreOfFetches, OthersSurvive, Returned
<1>4. CASE UNCHANGED vars
  BY <1>4 DEF vars, IInv, TypeOK, FetchesKeepGoing, AnswersAreOfFetches, OthersSurvive, Returned
<1> QED BY <1>1, <1>2, <1>3, <1>4, CallerIInv, FlightIInv DEF Next

\* The inductive invariant of the lookups.
LEMMA Invariance == Spec => []IInv
BY InitIInv, NextIInv, PTL DEF Spec

\* Whatever the callers, the keys and the order of their steps, the cache and the
\* calls in flight hold what their types say: only results that may be memoized
\* reach the cache.
THEOREM BlobCacheTypeCorrect == Spec => []TypeOK
<1>1. IInv => TypeOK
  BY DEF IInv
<1> QED BY <1>1, Invariance, PTL

\* A call that shares a fetch ends with a cancellation only if its own context is
\* done, whoever started the fetch and whoever gave up waiting for it.
THEOREM OthersAlwaysSurvive == Spec => []OthersSurvive
<1>1. IInv => OthersSurvive
  BY DEF IInv
<1> QED BY <1>1, Invariance, PTL

-----------------------------------------------------------------------------
(* NoStaleEmpty. *)

\* NoStaleEmpty needs to know why a call that must find the blobs cannot find the
\* emptiness: the cache never holds it, and a fetch it can still join began, and so
\* looked, when the blobs were there.
CacheNotEmpty == \A k \in Keys : cache[k].value # "empty"

MustFind ==
    \A c \in Callers : caller[c].pc # "idle" /\ caller[c].must =>
        LET f == flight[caller[c].key]
        IN  /\ caller[c].pc \in {"answered", "returned"} => caller[c].answer # "empty"
            /\ caller[c].pc \in {"lookup", "missed", "waiting"} =>
                  /\ caller[c].key \in onDA
                  /\ f.pc \in {"fetched", "stored"} => f.answer # "empty"

EInv == CacheNotEmpty /\ MustFind

\* The invariant holds initially.
LEMMA InitEInv == Init => EInv
BY DEF Init, EInv, CacheNotEmpty, MustFind, NoEntry, Idle

\* Every step keeps it.
LEMMA NextEInv == IInv /\ EInv /\ [Next]_vars => EInv'
<1> SUFFICES ASSUME IInv, EInv, [Next]_vars PROVE EInv'
  OBVIOUS
<1>0. TypeOK
  BY DEF IInv
<1>1. ASSUME NEW c \in Callers, NEW k \in Keys, Begin(c, k) PROVE EInv'
  <2> DEFINE r == [pc |-> "lookup", key |-> k, must |-> k \in onDA /\ flight[k] = NoFlight]
  <2>1. \A d \in Callers : caller'[d] = IF d = c THEN r ELSE caller[d]
    BY <1>0, <1>1 DEF Begin, TypeOK
  <2>2. r.pc = "lookup" /\ r.key = k /\ (r.must => k \in onDA /\ flight[k].pc = "none")
    <3>1. flight[k] = NoFlight => flight[k].pc = "none"
      BY DEF NoFlight
    <3>2. r.must = (k \in onDA /\ flight[k] = NoFlight)
      OBVIOUS
    <3> QED BY <3>1, <3>2
  <2>3. UNCHANGED <<onDA, cache, flight>>
    BY <1>1 DEF Begin
  <2> HIDE DEF r
  <2>4. MustFind'
    <3> SUFFICES ASSUME NEW d \in Callers, caller'[d].pc # "idle", caller'[d].must
                 PROVE  LET f == flight'[caller'[d].key]
                        IN  /\ caller'[d].pc \in {"answered", "returned"} => caller'[d].answer # "empty"
                            /\ caller'[d].pc \in {"lookup", "missed", "waiting"} =>
                                  /\ caller'[d].key \in onDA'
                                  /\ f.pc \in {"fetched", "stored"} => f.answer # "empty"
      BY DEF MustFind
    <3>1. CASE d = c
      BY <2>1, <2>2, <2>3, <3>1
    <3>2. CASE d # c
      BY <2>1, <2>3, <3>2 DEF EInv, MustFind
    <3> QED BY <3>1, <3>2
  <2> QED BY <2>3, <2>4 DEF EInv, CacheNotEmpty
<1>2. ASSUME NEW c \in Callers, Lookup(c) PROVE EInv'
  <2>1. caller[c] \in Call
    BY <1>0, <1>2, CallShape DEF Lookup
  <2>2. caller[c].key \in Keys
    BY <2>1 DEF Call
  <2> QED BY <1>0, <1>2, <2>1, <2>2 DEF Lookup, Give, EInv, CacheNotEmpty, MustFind, TypeOK, Call
<1>3. ASSUME NEW c \in Callers, Share(c) PROVE EInv'
  <2>1. caller[c] \in Call
    BY <1>0, <1>3, CallShape DEF Share
  <2>2. caller[c].key \in Keys
    BY <2>1 DEF Call
  <2> QED BY <1>0, <1>3, <2>1, <2>2 DEF Share, EInv, CacheNotEmpty, MustFind, TypeOK, Call
<1>4. ASSUME NEW c \in Callers, Return(c) PROVE EInv'
  <2>1. caller[c] \in Result
    BY <1>0, <1>4, CallShape DEF Return
  <2> QED BY <1>0, <1>4, <2>1 DEF Return, EInv, CacheNotEmpty, MustFind, TypeOK, Result
<1>5. ASSUME NEW c \in Callers, GiveUp(c) PROVE EInv'
  BY <1>0, <1>5 DEF GiveUp, Give, EInv, CacheNotEmpty, MustFind, TypeOK
<1>6. ASSUME NEW k \in Keys, Fetch(k) PROVE EInv'
  BY <1>0, <1>6 DEF Fetch, Outcomes, Content, EInv, CacheNotEmpty, MustFind, TypeOK
<1>7. ASSUME NEW k \in Keys, Store(k) PROVE EInv'
  <2>1. CacheNotEmpty'
    BY <1>0, <1>7 DEF Store, Memoized, EInv, CacheNotEmpty, TypeOK, NoEntry
  <2>2. MustFind'
    BY <1>0, <1>7 DEF Store, EInv, MustFind, TypeOK
  <2> QED BY <2>1, <2>2 DEF EInv
<1>8. ASSUME NEW k \in Keys, Deliver(k) PROVE EInv'
  <2>1. CacheNotEmpty'
    BY <1>8 DEF Deliver, EInv, CacheNotEmpty
  <2>2. MustFind'
    <3> SUFFICES ASSUME NEW c \in Callers, caller'[c].pc # "idle", caller'[c].must
                 PROVE  LET f == flight'[caller'[c].key]
                        IN  /\ caller'[c].pc \in {"answered", "returned"} => caller'[c].answer # "empty"
                            /\ caller'[c].pc \in {"lookup", "missed", "waiting"} =>
                                  /\ caller'[c].key \in onDA'
                                  /\ f.pc \in {"fetched", "stored"} => f.answer # "empty"
      BY DEF MustFind
    <3>1. CASE caller[c].pc = "waiting" /\ caller[c].key = k
      <4>1. caller'[c] = Give(c, "answered", flight[k].answer)
        BY <1>8, <3>1 DEF Deliver
      <4> QED BY <1>8, <3>1, <4>1 DEF Deliver, Give, EInv, MustFind
    <3>2. CASE ~(caller[c].pc = "waiting" /\ caller[c].key = k)
      <4>1. caller'[c] = caller[c]
        BY <1>8, <3>2 DEF Deliver
      <4>2. caller[c].pc \in {"lookup", "missed", "waiting"} => caller[c].key \in Keys
        BY <1>0, CallShape DEF Call
      <4>3. \A j \in Keys : flight'[j] = flight[j] \/ flight'[j].pc = "none"
        BY <1>0, <1>8 DEF Deliver, TypeOK, NoFlight
      <4> QED BY <1>8, <4>1, <4>2, <4>3 DEF Deliver, EInv, MustFind
    <3> QED BY <3>1, <3>2
  <2> QED BY <2>1, <2>2 DEF EInv
<1>9. ASSUME NEW k \in Keys, Publish(k) PROVE EInv'
  BY <1>9 DEF Publish, EInv, CacheNotEmpty, MustFind
<1>10. ASSUME NEW k \in Keys, Expire(k) PROVE EInv'
  <2>1. CacheNotEmpty'
    BY <1>0, <1>10 DEF Expire, EInv, CacheNotEmpty, TypeOK
  <2> QED BY <1>10, <2>1 DEF Expire, EInv, MustFind
<1>11. ASSUME NEW c \in Callers, ContextDone(c) PROVE EInv'
  BY <1>11 DEF ContextDone, EInv, CacheNotEmpty, MustFind
<1>12. CASE UNCHANGED vars
  BY <1>12 DEF vars, EInv, CacheNotEmpty, MustFind
<1> QED BY <1>1, <1>2, <1>3, <1>4, <1>5, <1>6, <1>7, <1>8, <1>9, <1>10, <1>11, <1>12 DEF Next

\* A call that began when the blobs were there and no fetch was under way does not
\* come back empty-handed, whatever was looked up, expired and swept before.
THEOREM NeverStaleEmpty == Spec => []NoStaleEmpty
<1>1. EInv => NoStaleEmpty
  BY DEF EInv, MustFind, NoStaleEmpty, Returned
<1> QED BY <1>1, InitEInv, NextEInv, Invariance, PTL DEF Spec
=============================================================================
