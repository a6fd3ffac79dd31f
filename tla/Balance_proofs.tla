--------------------------- MODULE Balance_proofs ---------------------------
(***************************************************************************)
(* For every list of endpoints, every set of denominations and of amounts: *)
(* the gauges keep their types, and a scrape reports what it found.        *)
(***************************************************************************)
EXTENDS Balance, SequenceTheorems, TLAPS

\* In the middle of a scrape every endpoint that was tried is shown as down.
TriedAreDown == \A i \in 1 .. turn - 1 : available[Endpoints[i]] = 0

IInv == TypeOK /\ TriedAreDown

\* What the end of a scrape leaves behind: no endpoint answered and none is shown as
\* available, or one answered, which is, those before it are not, and the gauge shows
\* what the address holds.
Reported ==
    \/ \A e \in Range(Endpoints) : available'[e] = 0
    \/ \E k \in DOMAIN Endpoints :
          /\ available'[Endpoints[k]] = 1
          /\ \A i \in 1 .. k - 1 : available'[Endpoints[i]] = 0
          /\ \A d \in DOMAIN coins : gauge'[d] = coins[d]

ScrapeReports == [][turn # 0 /\ turn' = 0 => Reported]_vars

-----------------------------------------------------------------------------
\* The list of the endpoints, and the one being asked.
LEMMA TheEndpoints ==
    /\ Len(Endpoints) \in Nat \ {0} /\ DOMAIN Endpoints = 1 .. Len(Endpoints)
    /\ \A i \in 1 .. Len(Endpoints) : Endpoints[i] \in Range(Endpoints)
    /\ \A e \in Range(Endpoints) : \E i \in 1 .. Len(Endpoints) : e = Endpoints[i]
    /\ \A i, j \in 1 .. Len(Endpoints) : i # j => Endpoints[i] # Endpoints[j]
<1>1. Len(Endpoints) \in Nat \ {0} /\ DOMAIN Endpoints = 1 .. Len(Endpoints)
  BY EndpointsAssumption, LenProperties
<1>2. Range(Endpoints) = {Endpoints[i] : i \in 1 .. Len(Endpoints)}
  BY <1>1 DEF Range
<1>3. \A i, j \in 1 .. Len(Endpoints) : i # j => Endpoints[i] # Endpoints[j]
  BY <1>1, EndpointsAssumption DEF IsInjective
<1> QED BY <1>1, <1>2, <1>3

\* What an address holds: amounts of some of the denominations.
LEMMA TheCoins ==
    ASSUME TypeOK
    PROVE  DOMAIN coins \subseteq Denoms /\ \A d \in DOMAIN coins : coins[d] \in Amounts
BY DEF TypeOK, Ledger

\* A scrape under way is at one of the endpoints, and goes on to the next one or ends.
LEMMA TheTurn ==
    ASSUME TypeOK, turn # 0
    PROVE  /\ turn \in 1 .. Len(Endpoints) /\ Current \in Range(Endpoints)
           /\ NextEndpoint \in 0 .. Len(Endpoints)
           /\ NextEndpoint = turn + 1 \/ (NextEndpoint = 0 /\ turn = Len(Endpoints))
<1>1. turn \in 1 .. Len(Endpoints) /\ Len(Endpoints) \in Nat
  BY TheEndpoints DEF TypeOK
<1>2. Current \in Range(Endpoints)
  BY <1>1, TheEndpoints DEF Current
<1> QED BY <1>1, <1>2 DEF NextEndpoint

\* The invariant holds initially.
LEMMA InitIInv == Init => IInv
<1> SUFFICES ASSUME Init PROVE IInv
  OBVIOUS
<1>1. 0 \in 0 .. Len(Endpoints)
  BY TheEndpoints
<1>2. TypeOK
  BY <1>1 DEF Init, TypeOK
<1>3. \A i \in 1 .. turn - 1 : FALSE
  BY DEF Init
<1> QED BY <1>2, <1>3 DEF IInv, TriedAreDown

\* A failed try: the endpoint joins those shown as down.
LEMMA FailKeeps ==
    ASSUME IInv, NEW dialled \in BOOLEAN, TryFails(dialled)
    PROVE  /\ IInv'
           /\ turn' = 0 => \A i \in 1 .. Len(Endpoints) : available'[Endpoints[i]] = 0
<1>1. /\ TypeOK /\ turn # 0
      /\ turn \in 1 .. Len(Endpoints) /\ Current \in Range(Endpoints)
      /\ turn' \in 0 .. Len(Endpoints)
      /\ turn' = turn + 1 \/ (turn' = 0 /\ turn = Len(Endpoints))
      /\ Len(Endpoints) \in Nat
  BY TheTurn, TheEndpoints DEF IInv, TryFails
<1>2. turn \in Nat /\ 1 <= turn /\ turn <= Len(Endpoints)
  BY <1>1
<1>3. TypeOK'
  BY <1>1 DEF TryFails, TypeOK
<1>4. ASSUME NEW i \in 1 .. turn PROVE available'[Endpoints[i]] = 0
  <2>1. /\ available' = [available EXCEPT ![Endpoints[turn]] = 0]
        /\ DOMAIN available = Range(Endpoints)
    <3>1. available' = [available EXCEPT ![Endpoints[turn]] = 0]
      BY DEF TryFails, Current
    <3>2. DOMAIN available = Range(Endpoints)
      BY <1>1 DEF TypeOK
    <3> QED BY <3>1, <3>2
  <2>2. Endpoints[i] \in Range(Endpoints)
    <3>1. i \in 1 .. Len(Endpoints)
      BY <1>1, <1>2
    <3> QED BY <3>1, TheEndpoints
  <2>3. CASE i = turn
    BY <2>1, <2>2, <2>3
  <2>4. CASE i # turn
    <3>1. i \in 1 .. turn - 1
      BY <1>1, <2>4
    <3>2. available[Endpoints[i]] = 0
      BY <3>1 DEF IInv, TriedAreDown
    <3> QED BY <2>1, <2>2, <3>2
  <2> QED BY <2>3, <2>4
<1>5. TriedAreDown'
  <2>1. ASSUME NEW i \in 1 .. turn' - 1 PROVE i \in 1 .. turn
    <3>1. CASE turn' = turn + 1
      BY <1>2, <3>1
    <3>2. CASE turn' = 0
      BY <3>2
    <3> QED BY <1>1, <3>1, <3>2
  <2> QED BY <1>4, <2>1 DEF TriedAreDown
<1> QED BY <1>1, <1>3, <1>4, <1>5 DEF IInv

\* Every step keeps the invariant.
LEMMA NextIInv == IInv /\ [Next]_vars => IInv'
<1> SUFFICES ASSUME IInv, [Next]_vars PROVE IInv'
  OBVIOUS
<1>0. TypeOK
  BY DEF IInv
<1>1. CASE Transfer
  BY <1>1 DEF Transfer, metricVars, IInv, TypeOK, TriedAreDown
<1>2. CASE Cancel
  BY <1>2 DEF Cancel, metricVars, IInv, TypeOK, TriedAreDown
<1>3. ASSUME NEW e \in Range(Endpoints), Outage(e) PROVE IInv'
  <2>1. reachable' \subseteq Range(Endpoints)
    BY <1>0, <1>3 DEF Outage, TypeOK
  <2>2. UNCHANGED <<coins, turn, clients, gauge, available, cancelled, returned>>
    BY <1>3 DEF Outage, metricVars
  <2> QED BY <2>1, <2>2 DEF IInv, TypeOK, TriedAreDown
<1>4. CASE Scrape
  <2>1. /\ turn' = 1
        /\ UNCHANGED <<reachable, coins, clients, gauge, available, cancelled, returned>>
    BY <1>4 DEF Scrape, metricVars
  <2>2. 1 \in 0 .. Len(Endpoints)
    BY TheEndpoints
  <2>3. \A i \in 1 .. turn' - 1 : FALSE
    BY <2>1
  <2>4. TypeOK'
    BY <1>0, <2>1, <2>2 DEF TypeOK
  <2> QED BY <2>3, <2>4 DEF IInv, TriedAreDown
<1>5. ASSUME NEW dialled \in BOOLEAN, TryFails(dialled) PROVE IInv'
  BY <1>5, FailKeeps
<1>6. CASE TryAnswers
  <2>1. turn # 0 /\ turn' = 0 /\ Current \in Range(Endpoints) /\ 0 \in 0 .. Len(Endpoints)
    BY <1>0, <1>6, TheTurn, TheEndpoints DEF TryAnswers
  <2>2. gauge' \in [Denoms -> Amounts \cup {Unset}]
    BY <1>0, <1>6, TheCoins DEF TryAnswers, Recorded, TypeOK
  <2>3. TypeOK'
    BY <1>0, <1>6, <2>1, <2>2 DEF TryAnswers, TypeOK
  <2>4. TriedAreDown'
    BY <2>1 DEF TriedAreDown
  <2> QED BY <2>3, <2>4 DEF IInv
<1>7. CASE Return
  BY <1>7 DEF Return, metricVars, IInv, TypeOK, TriedAreDown
<1>8. CASE UNCHANGED vars
  BY <1>8 DEF vars, metricVars, IInv, TypeOK, TriedAreDown
<1> QED BY <1>1, <1>2, <1>3, <1>4, <1>5, <1>6, <1>7, <1>8 DEF Next

\* The inductive invariant of the exporter.
LEMMA Invariance == Spec => []IInv
BY InitIInv, NextIInv, PTL DEF Spec

\* Every gauge is unset or shows an amount the address may hold, never a sum of them,
\* and a scrape never runs past the last endpoint.
THEOREM BalanceTypeCorrect == Spec => []TypeOK
<1>1. IInv => TypeOK
  BY DEF IInv
<1> QED BY <1>1, Invariance, PTL

\* checkBalance asks the endpoints in order and stops at the first that answers: its end
\* leaves gauges that tell which one that was, whatever goes down and comes back
\* meanwhile.  The labels have to differ for that, or an answer would hide a failure.
THEOREM ScrapeAlwaysReports == Spec => ScrapeReports
<1>1. ASSUME IInv, [Next]_vars PROVE [turn # 0 /\ turn' = 0 => Reported]_vars
  <2> SUFFICES ASSUME Next, turn # 0, turn' = 0 PROVE Reported
    BY <1>1
  <2>1. TypeOK /\ Len(Endpoints) \in Nat
    BY <1>1, TheEndpoints DEF IInv
  <2>2. CASE Transfer \/ Cancel \/ (\E e \in Range(Endpoints) : Outage(e)) \/ Scrape \/ Return
    BY <2>2 DEF Transfer, Cancel, Outage, Scrape, Return
  <2>3. ASSUME NEW dialled \in BOOLEAN, TryFails(dialled) PROVE Reported
    <3>1. \A i \in 1 .. Len(Endpoints) : available'[Endpoints[i]] = 0
      BY <1>1, <2>3, FailKeeps
    <3> QED BY <3>1, TheEndpoints DEF Reported
  <2>4. CASE TryAnswers
    <3>1. turn \in 1 .. Len(Endpoints) /\ turn \in DOMAIN Endpoints
      BY <2>1, TheTurn, TheEndpoints
    <3>2. /\ available' = [available EXCEPT ![Endpoints[turn]] = 1]
          /\ DOMAIN available = Range(Endpoints)
          /\ gauge' = [d \in Denoms |-> Recorded(d)]
      BY <2>1, <2>4 DEF TryAnswers, Current, TypeOK
    <3>3. available'[Endpoints[turn]] = 1
      BY <3>1, <3>2, TheEndpoints
    <3>4. ASSUME NEW i \in 1 .. turn - 1 PROVE available'[Endpoints[i]] = 0
      <4>1. i \in 1 .. Len(Endpoints) /\ i # turn
        BY <2>1, <3>1
      <4>2. Endpoints[i] # Endpoints[turn] /\ Endpoints[i] \in Range(Endpoints)
        BY <3>1, <4>1, TheEndpoints
      <4>3. available[Endpoints[i]] = 0
        BY <1>1 DEF IInv, TriedAreDown
      <4> QED BY <3>2, <4>2, <4>3
    <3>5. \A d \in DOMAIN coins : gauge'[d] = coins[d]
      BY <2>1, <3>2, TheCoins DEF Recorded
    <3> QED BY <3>1, <3>3, <3>4, <3>5 DEF Reported
  <2> QED BY <2>2, <2>3, <2>4 DEF Next
<1> QED BY <1>1, Invariance, PTL DEF Spec, ScrapeReports
=============================================================================
