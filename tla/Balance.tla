------------------------------- MODULE Balance -------------------------------
(***************************************************************************)
(* pkg/exporters/balance/balance.go: every scrape asks the consensus RPC   *)
(* endpoints for the balance of an address, in order, until one answers,   *)
(* and records the balance and who was available.  The addresses of a      *)
(* scrape are asked for one after the other and share nothing but the      *)
(* clients and the availability gauges: the model follows one address.     *)
(***************************************************************************)
EXTENDS Integers, Sequences, Functions, SequencesExt

CONSTANTS Endpoints,  \* the endpoints (their labels), in the order they are tried
          Denoms,     \* the denominations an address may hold
          Amounts     \* bound: the amounts it may hold

\* strings.Split of a flag that is not empty; RedactEndpoints numbers what is repeated.
ASSUME EndpointsAssumption ==
    /\ Endpoints \in Seq(Range(Endpoints)) /\ Len(Endpoints) # 0
    /\ IsInjective(Endpoints)
ASSUME AmountsAssumption == Amounts \subseteq Nat \ {0}

Unset == -1

VARIABLES
    reachable,  \* endpoints that answer
    coins,      \* what the address holds: denom to positive amount
    turn,       \* index of the endpoint being tried, 0 between two scrapes
    clients,    \* endpoints that have a client
    gauge,      \* account_balance of the address, per denom
    available,  \* consensus_rpc_endpoint_availability, per endpoint
    cancelled,  \* the context is cancelled
    returned    \* ExportMetrics has returned

metricVars == <<gauge, available>>
vars == <<reachable, coins, turn, clients, metricVars, cancelled, returned>>

Ledger == UNION {[D -> Amounts] : D \in SUBSET Denoms}

TypeOK ==
    /\ reachable \cup clients \subseteq Range(Endpoints)
    /\ coins \in Ledger /\ turn \in 0 .. Len(Endpoints)
    /\ gauge \in [Denoms -> Amounts \cup {Unset}]
    /\ available \in [Range(Endpoints) -> {0, 1, Unset}]
    /\ {cancelled, returned} \subseteq BOOLEAN

Init ==
    /\ reachable \in SUBSET Range(Endpoints) /\ coins \in Ledger
    /\ turn = 0 /\ clients = {}
    /\ gauge = [d \in Denoms |-> Unset]
    /\ available = [e \in Range(Endpoints) |-> Unset]
    /\ cancelled = FALSE /\ returned = FALSE

-----------------------------------------------------------------------------
(* The environment.  The bank module lists the coins an address holds, and no *)
(* denomination it holds nothing of.                                          *)

Transfer ==
    /\ coins' \in Ledger \ {coins}
    /\ UNCHANGED <<reachable, turn, clients, metricVars, cancelled, returned>>

Outage(e) ==
    /\ reachable' = IF e \in reachable THEN reachable \ {e} ELSE reachable \cup {e}
    /\ UNCHANGED <<coins, turn, clients, metricVars, cancelled, returned>>

Cancel ==
    /\ ~cancelled
    /\ cancelled' = TRUE
    /\ UNCHANGED <<reachable, coins, turn, clients, metricVars, returned>>

-----------------------------------------------------------------------------
(* ExportMetrics and checkBalance *)

\* The ticker, or the first turn of the loop; select may prefer a tick to ctx.Done().
Scrape ==
    /\ turn = 0 /\ ~returned
    /\ turn' = 1
    /\ UNCHANGED <<reachable, coins, clients, metricVars, cancelled, returned>>

Current == Endpoints[turn]

\* A query may succeed when the endpoint answers, until the context is cancelled.
MayAnswer == Current \in reachable /\ ~cancelled

\* mutant: only the first endpoint is ever asked
NoFailover == 0

\* The endpoint after the current one, 0 when there is none left.
NextEndpoint == IF turn < Len(Endpoints) THEN turn + 1 ELSE 0

\* cosmos.NewClient rejects the endpoint, or the query fails or times out.
TryFails(dialled) ==
    /\ turn # 0
    /\ ~MayAnswer
    /\ clients' = IF dialled THEN clients \cup {Current} ELSE clients
    /\ dialled \/ Current \notin clients
    /\ available' = [available EXCEPT ![Current] = 0]
    /\ turn' = NextEndpoint
    /\ UNCHANGED <<reachable, coins, gauge, cancelled, returned>>

\* mutant: the balances are added to what the gauge shows
Accumulated(d) == IF d \in DOMAIN coins THEN gauge[d] + coins[d] ELSE gauge[d]

\* RecordAccountBalance for every coin of the answer.  The text of a math.Int always
\* parses, so the continue on one that does not (balance.go:128-135) is never taken.
Recorded(d) == IF d \in DOMAIN coins THEN coins[d] ELSE gauge[d]

TryAnswers ==
    /\ turn # 0
    /\ MayAnswer
    /\ clients' = clients \cup {Current}
    /\ available' = [available EXCEPT ![Current] = 1]
    /\ gauge' = [d \in Denoms |-> Recorded(d)]
    /\ turn' = 0
    /\ UNCHANGED <<reachable, coins, cancelled, returned>>

Return ==
    /\ turn = 0 /\ cancelled /\ ~returned
    /\ returned' = TRUE /\ clients' = {}
    /\ UNCHANGED <<reachable, coins, turn, metricVars, cancelled>>

Next == Transfer \/ Cancel \/ (\E e \in Range(Endpoints) : Outage(e))
        \/ Scrape \/ TryFails(TRUE) \/ TryFails(FALSE) \/ TryAnswers \/ Return

Spec == Init /\ [][Next]_vars

\* The ticker ticks, every query ends within rpcTimeout; select picks at random.
FairSpec == Spec /\ WF_vars(Scrape) /\ SF_vars(Return)
                 /\ WF_vars(TryFails(TRUE) \/ TryFails(FALSE) \/ TryAnswers)

-----------------------------------------------------------------------------
(* Properties. *)

\* The address holds c, endpoint e answers and the exporter runs.
Quiet(e, c) == e \in reachable /\ coins = c /\ ~cancelled

\* "automatic failover between RPC endpoints" (README.md:123): as long as any one
\* endpoint keeps answering, the gauge ends up at the balance the address holds,
\* whatever the endpoints before it do.
FailoverReaches ==
    \A e \in Range(Endpoints), c \in Ledger :
        <>[]Quiet(e, c) => <>[](\A d \in DOMAIN c : gauge[d] = c[d])
=============================================================================
