-------------------------------- MODULE Drift -------------------------------
(***************************************************************************)
(* pkg/exporters/drift/drift.go: every poll asks the reference node for    *)
(* its height and then, concurrently, the full nodes for theirs, and       *)
(* records heights, drift and availability.  Node 1 is the reference node. *)
(*                                                                         *)
(* A node's client is dialed on first use and dropped on failure; an       *)
(* outage kills the connection of a client.  A node's answer and the       *)
(* recording of the reply are two steps, with the reply on its way between *)
(* them.  The update of the last block time by a poll that sees a new      *)
(* height is in BlockTime.                                                 *)
(***************************************************************************)
EXTENDS Integers, Sequences

CONSTANTS Redacted,    \* RedactEndpoint of --reference-node and each of --full-nodes
          MaxHeight    \* bound: the height the chain reaches

ASSUME RedactedAssumption == Len(Redacted) \in Nat \ {0} /\ DOMAIN Redacted = 1 .. Len(Redacted)
ASSUME MaxHeightAssumption == MaxHeight \in Nat

Nodes == DOMAIN Redacted
Ref == 1
FullNodes == Nodes \ {Ref}

\* mutant: no suffix, endpoints may share a label
PlainLabel(i) == <<Redacted[i], 0>>

\* RedactEndpoints: a repeat gets its position as a suffix (0 stands for none).
Label(i) == <<Redacted[i], IF \E j \in 1 .. i - 1 : Redacted[j] = Redacted[i] THEN i ELSE 0>>

Labels == {Label(i) : i \in Nodes}
Unset == -1
Nothing == [height |-> Unset, drift |-> Unset]

VARIABLES
    height,     \* the height each node is at
    reachable,  \* the nodes that answer
    client,     \* per node: "none", "live", or "dead": its connection is gone
    pending,    \* full nodes whose goroutine is not done with the current poll
    reply,      \* per node: the height in a reply on its way, else Unset
    refHeight,  \* the reference height of the current poll
    lastHeight, \* highest reference height so far
    available,  \* endpoint_availability, per label
    refShown,   \* reference_block_height
    shown,      \* target_block_height and block_height_drift, per label
    cancelled,  \* the context is cancelled
    returned,   \* ExportMetrics has returned
    behind      \* history: how far a node was behind the reference node when it last answered

envVars == <<height, reachable, cancelled>>
refVars == <<refHeight, lastHeight, refShown>>
gaugeVars == <<available, shown>>
replyVars == <<reply, behind>>
pollVars == <<pending, refVars, gaugeVars, replyVars, returned>>
driftVars == <<envVars, client, pollVars>>

TypeOK ==
    /\ height \in [Nodes -> 0 .. MaxHeight] /\ reachable \subseteq Nodes
    /\ client \in [Nodes -> {"none", "live", "dead"}]
    /\ pending \subseteq FullNodes
    /\ reply \in [Nodes -> 0 .. MaxHeight \cup {Unset}]
    /\ behind \in [Nodes -> -MaxHeight .. MaxHeight]
    /\ {refHeight, refShown} \subseteq 0 .. MaxHeight \cup {Unset} /\ lastHeight \in 0 .. MaxHeight
    /\ available \in [Labels -> {0, 1, Unset}]
    /\ shown \in [Labels -> [height : 0 .. MaxHeight, drift : -MaxHeight .. MaxHeight] \cup {Nothing}]
    /\ {cancelled, returned} \subseteq BOOLEAN

Init ==
    /\ height = [i \in Nodes |-> 0] /\ reachable \in SUBSET Nodes
    /\ client = [i \in Nodes |-> "none"] /\ pending = {}
    /\ reply = [i \in Nodes |-> Unset] /\ behind = [i \in Nodes |-> 0]
    /\ refHeight = Unset /\ lastHeight = 0 /\ refShown = Unset
    /\ available = [l \in Labels |-> Unset]
    /\ shown = [l \in Labels |-> Nothing]
    /\ cancelled = FALSE /\ returned = FALSE

-----------------------------------------------------------------------------
(* The nodes. *)

\* The chain's next block reaches node i.
Advance(i) ==
    /\ height[i] < MaxHeight
    /\ height' = [height EXCEPT ![i] = @ + 1]
    /\ UNCHANGED <<reachable, cancelled, client, pollVars>>

Outage(i) ==
    /\ i \in reachable
    /\ reachable' = reachable \ {i}
    /\ client' = [client EXCEPT ![i] = IF @ = "live" THEN "dead" ELSE @]
    /\ UNCHANGED <<height, cancelled, pollVars>>

Recover(i) ==
    /\ i \notin reachable
    /\ reachable' = reachable \cup {i}
    /\ UNCHANGED <<height, cancelled, client, pollVars>>

Cancel ==
    /\ ~cancelled
    /\ cancelled' = TRUE
    /\ UNCHANGED <<height, reachable, client, pollVars>>

-----------------------------------------------------------------------------
(* blockHeight and poll *)

Answers(i) == i \in reachable /\ client[i] # "dead" /\ ~cancelled

\* mutant: a client that failed is kept
KeepClient(i) == IF client[i] = "none" THEN "none" ELSE "dead"

\* close on failure: the next poll dials again.
ClientAfterFailure(i) == "none"

\* Node i answers blockHeight: there was a client, or one was dialed.
Answered(i) ==
    /\ Answers(i) /\ reply[i] = Unset
    /\ client' = [client EXCEPT ![i] = "live"]
    /\ reply' = [reply EXCEPT ![i] = height[i]]
    /\ behind' = [behind EXCEPT ![i] = height[Ref] - height[i]]

\* The reply arrives, whatever has become of the node and the context since: blockHeight
\* succeeds.
Succeeded(i) ==
    /\ reply[i] # Unset
    /\ reply' = [reply EXCEPT ![i] = Unset]
    /\ available' = [available EXCEPT ![Label(i)] = 1]

\* mutant: a failure is not recorded
FailedUnrecorded(i) ==
    /\ ~Answers(i)
    /\ client' = [client EXCEPT ![i] = ClientAfterFailure(i)]
    /\ reply' = [reply EXCEPT ![i] = Unset]
    /\ UNCHANGED available

\* blockHeight(i) fails; a reply on its way is lost.
Failed(i) ==
    /\ ~Answers(i)
    /\ client' = [client EXCEPT ![i] = ClientAfterFailure(i)]
    /\ reply' = [reply EXCEPT ![i] = Unset]
    /\ available' = [available EXCEPT ![Label(i)] = 0]

\* No full node is being asked: wg.Wait() of the poll before has returned.
Waited == pending = {} /\ ~returned

\* The loop is in its select.
InSelect == Waited /\ reply[Ref] = Unset

ReferenceAnswers ==
    /\ Waited
    /\ Answered(Ref)
    /\ UNCHANGED <<envVars, pending, refVars, gaugeVars, returned>>

RecordReference ==
    /\ Waited
    /\ Succeeded(Ref)
    /\ refHeight' = reply[Ref] /\ refShown' = reply[Ref]
    /\ lastHeight' = IF reply[Ref] > lastHeight THEN reply[Ref] ELSE lastHeight
    /\ pending' = FullNodes
    /\ UNCHANGED <<envVars, client, shown, behind, returned>>

\* The full nodes are not asked.
ReferenceFails ==
    /\ Waited
    /\ Failed(Ref)
    /\ UNCHANGED <<envVars, pending, refVars, shown, behind, returned>>

\* mutant: the operands are swapped
SwappedDrift(ref, target) == target - ref

BlockHeightDrift(ref, target) == ref - target

NodeAnswers(i) ==
    /\ i \in pending
    /\ Answered(i)
    /\ UNCHANGED <<envVars, pending, refVars, gaugeVars, returned>>

RecordAnswer(i) ==
    /\ i \in pending /\ pending' = pending \ {i}
    /\ Succeeded(i)
    /\ shown' = [shown EXCEPT ![Label(i)] =
            [height |-> reply[i], drift |-> BlockHeightDrift(refHeight, reply[i])]]
    /\ UNCHANGED <<envVars, client, refVars, behind, returned>>

NodeFails(i) ==
    /\ i \in pending /\ pending' = pending \ {i}
    /\ Failed(i)
    /\ UNCHANGED <<envVars, refVars, shown, behind, returned>>

\* The steps of the reference query, and of pollFullNode.
PollReference == ReferenceAnswers \/ RecordReference \/ ReferenceFails
PollFullNode(i) == NodeAnswers(i) \/ RecordAnswer(i) \/ NodeFails(i)

\* The branch on ctx.Done(), which is reached after the first poll.
Return ==
    /\ InSelect /\ cancelled /\ available[Label(Ref)] # Unset
    /\ client' = [i \in Nodes |-> "none"]
    /\ returned' = TRUE
    /\ UNCHANGED <<envVars, pending, refVars, gaugeVars, replyVars>>

Next == \/ \E i \in Nodes : Advance(i) \/ Outage(i) \/ Recover(i)
        \/ Cancel \/ PollReference \/ Return
        \/ \E i \in FullNodes : PollFullNode(i)

Spec == Init /\ [][Next]_driftVars

\* The ticker ticks and every query ends within rpcTimeout; select picks at random.
FairSpec == Spec /\ WF_driftVars(PollReference) /\ SF_driftVars(Return)
                 /\ \A i \in FullNodes : WF_driftVars(PollFullNode(i))

-----------------------------------------------------------------------------
(* Properties. *)

\* Between two polls the three gauges of a full node that is shown as available agree
\* with each other and with the reference height: they are of one poll, although the
\* nodes answer concurrently and may have failed in the polls before.
DriftConsistent ==
    InSelect => \A i \in FullNodes :
        available[Label(i)] = 1 =>
            shown[Label(i)].drift = refShown - shown[Label(i)].height

\* A positive drift was real: when it answered, the target was at least that far behind.
\* (When the reply is recorded the target may have caught up, and a negative drift need
\* not be real even then: the reference is asked first.)
DriftNeverOverstates ==
    [][\A i \in FullNodes : shown'[Label(i)] # shown[Label(i)] =>
           shown'[Label(i)].drift <= behind[i]]_driftVars

\* Once a node stays up (and the reference node does), it is shown as available:
\* a client whose connection died does not stick.
ComesBack ==
    \A i \in Nodes : <>[]({Ref, i} \subseteq reachable /\ ~cancelled)
                         => <>[](available[Label(i)] = 1)

\* Once a node stays down, it is shown as unavailable, provided that the reference
\* node answers: if it does not, the full nodes are not even asked.
OutageShown ==
    \A i \in Nodes : <>[](i \notin reachable /\ (i = Ref \/ Ref \in reachable) /\ ~cancelled)
                         => <>[](available[Label(i)] = 0)
=============================================================================
