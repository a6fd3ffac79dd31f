----------------------------- MODULE Drift_proofs -----------------------------
(***************************************************************************)
(* For every list of endpoints, whichever of them redact alike, and every  *)
(* height: the gauges of a full node are of one poll, and a positive drift *)
(* was real when the node answered.                                        *)
(***************************************************************************)
EXTENDS Drift, TLAPS

\* Endpoints that redact alike still have labels of their own.
LEMMA LabelsDistinct ==
    ASSUME NEW i \in Nodes, NEW j \in Nodes, Label(i) = Label(j)
    PROVE  i = j
<1>1. i \in Nat \ {0} /\ j \in Nat \ {0} /\ i \in 1 .. Len(Redacted) /\ j \in 1 .. Len(Redacted)
  BY RedactedAssumption DEF Nodes
<1>2. Redacted[i] = Redacted[j]
  BY DEF Label
<1>3. (\E k \in 1 .. i - 1 : Redacted[k] = Redacted[i]) <=> (\E k \in 1 .. j - 1 : Redacted[k] = Redacted[j])
  BY <1>1 DEF Label
<1>4. CASE i < j
  BY <1>1, <1>2, <1>3, <1>4, i \in 1 .. j - 1 DEF Label
<1>5. CASE j < i
  BY <1>1, <1>2, <1>3, <1>5, j \in 1 .. i - 1 DEF Label
<1> QED BY <1>1, <1>4, <1>5

\* The gauges of the full nodes that have answered, in the current poll or the last one.
PollConsistent ==
    \A i \in FullNodes \ pending :
        available[Label(i)] = 1 => shown[Label(i)].drift = refShown - shown[Label(i)].height

\* The reference height of a poll is the one it shows, and was reached.
ReferenceFirst ==
    /\ refHeight = refShown
    /\ pending # {} => refHeight # Unset
    /\ refHeight <= height[Ref] /\ reply[Ref] <= height[Ref]

\* A full node's reply is of the current poll: the node answered after the reference did.
RepliesOfPoll ==
    \A i \in FullNodes : reply[i] # Unset => i \in pending /\ refHeight - reply[i] <= behind[i]

IInv == TypeOK /\ PollConsistent /\ ReferenceFirst /\ RepliesOfPoll

\* The reference node is a node, and the labels of nodes are labels.
LEMMA Endpoints ==
    /\ Ref \in Nodes /\ Ref \notin FullNodes /\ FullNodes \subseteq Nodes
    /\ \A i \in Nodes : Label(i) \in Labels
BY RedactedAssumption DEF Nodes, FullNodes, Labels, Ref

\* The invariant holds initially.
LEMMA InitIInv == Init => IInv
<1> SUFFICES ASSUME Init PROVE IInv
  OBVIOUS
<1>1. {cancelled, returned} \subseteq BOOLEAN
  BY Zenon DEF Init
<1>2. TypeOK
  BY <1>1, MaxHeightAssumption DEF Init, TypeOK, Nothing, Unset
<1>3. PollConsistent
  BY Endpoints DEF Init, PollConsistent, Unset
<1>4. ReferenceFirst
  BY Endpoints, MaxHeightAssumption DEF Init, ReferenceFirst, Unset
<1>5. RepliesOfPoll
  BY Endpoints DEF Init, RepliesOfPoll
<1> QED BY <1>2, <1>3, <1>4, <1>5 DEF IInv

\* The steps of the nodes and of the context touch no gauge.
LEMMA EnvironmentKeeps ==
    ASSUME IInv, NEW i \in Nodes, Advance(i) \/ Outage(i) \/ Recover(i) \/ Cancel
    PROVE  IInv'
<1> USE DEF IInv
<1>1. UNCHANGED pollVars
  BY DEF Advance, Outage, Recover, Cancel
<1>2. height' \in [Nodes -> 0 .. MaxHeight] /\ \A j \in Nodes : height[j] <= height'[j]
  BY MaxHeightAssumption DEF Advance, Outage, Recover, Cancel, TypeOK
<1>3. client' \in [Nodes -> {"none", "live", "dead"}]
  BY DEF Advance, Outage, Recover, Cancel, TypeOK
<1>4. reachable' \subseteq Nodes /\ {cancelled', returned'} \subseteq BOOLEAN
  BY <1>1 DEF Advance, Outage, Recover, Cancel, TypeOK, pollVars
<1>5. TypeOK'
  BY <1>1, <1>2, <1>3, <1>4 DEF TypeOK, pollVars, refVars, gaugeVars, replyVars
<1>6. PollConsistent' /\ RepliesOfPoll'
  BY <1>1 DEF PollConsistent, RepliesOfPoll, pollVars, refVars, gaugeVars, replyVars
<1>7. ReferenceFirst'
  <2>1. refHeight <= height[Ref] /\ reply[Ref] <= height[Ref] /\ height[Ref] <= height'[Ref]
    BY <1>2, Endpoints DEF ReferenceFirst
  <2>2. refHeight \in Int /\ reply[Ref] \in Int /\ height[Ref] \in Int /\ height'[Ref] \in Int
    BY <1>2, Endpoints, MaxHeightAssumption DEF TypeOK, Unset
  <2>3. refHeight <= height'[Ref] /\ reply[Ref] <= height'[Ref]
    BY <2>1, <2>2
  <2> QED BY <1>1, <2>3 DEF ReferenceFirst, pollVars, refVars, replyVars
<1> QED BY <1>5, <1>6, <1>7

\* An answer puts a reply on its way, and no gauge changes.
LEMMA AnswerKeeps ==
    ASSUME IInv, NEW i \in Nodes, Answered(i), i # Ref => i \in pending,
           UNCHANGED <<envVars, pending, refVars, gaugeVars, returned>>
    PROVE  IInv'
<1> USE DEF IInv
<1>1. height[i] \in 0 .. MaxHeight /\ height[Ref] \in 0 .. MaxHeight
  BY Endpoints DEF TypeOK
<1>2. height[Ref] - height[i] \in -MaxHeight .. MaxHeight
  BY <1>1, MaxHeightAssumption
<1>3. TypeOK'
  BY <1>1, <1>2 DEF Answered, TypeOK, envVars, refVars, gaugeVars
<1>4. PollConsistent'
  BY DEF PollConsistent, refVars, gaugeVars
<1>5. ReferenceFirst'
  BY <1>1, Endpoints DEF Answered, ReferenceFirst, TypeOK, envVars, refVars
<1>6. RepliesOfPoll'
  <2> SUFFICES ASSUME NEW j \in FullNodes, reply'[j] # Unset
               PROVE  j \in pending /\ refHeight - reply'[j] <= behind'[j]
    BY DEF RepliesOfPoll, refVars
  <2>1. CASE j = i
    <3>1. j \in pending /\ reply'[j] = height[j] /\ behind'[j] = height[Ref] - height[j]
      BY <2>1, Endpoints DEF Answered, TypeOK
    <3>2. refHeight <= height[Ref] /\ refHeight \in Int /\ height[Ref] \in Int /\ height[j] \in Int
      BY <1>1, <2>1, MaxHeightAssumption DEF ReferenceFirst, TypeOK, Unset
    <3> QED BY <3>1, <3>2
  <2>2. CASE j # i
    BY <2>2, Endpoints DEF Answered, RepliesOfPoll, TypeOK
  <2> QED BY <2>1, <2>2
<1> QED BY <1>3, <1>4, <1>5, <1>6

\* What the two ways a query ends leave of its client, its reply and its availability.
LEMMA QueryEnds ==
    ASSUME IInv, NEW i \in Nodes, (Succeeded(i) /\ UNCHANGED client) \/ Failed(i)
    PROVE  /\ client' \in [Nodes -> {"none", "live", "dead"}]
           /\ reply' = [reply EXCEPT ![i] = Unset]
           /\ reply' \in [Nodes -> 0 .. MaxHeight \cup {Unset}]
           /\ available' \in [Labels -> {0, 1, Unset}]
           /\ \E a \in {0, 1} : available' = [available EXCEPT ![Label(i)] = a]
           /\ Failed(i) => available' = [available EXCEPT ![Label(i)] = 0]
BY Endpoints DEF Succeeded, Failed, ClientAfterFailure, IInv, TypeOK

\* A poll of the reference node.
LEMMA ReferenceKeeps ==
    ASSUME IInv, PollReference
    PROVE  IInv'
<1> USE DEF IInv
<1>1. CASE ReferenceAnswers
  BY <1>1, AnswerKeeps, Endpoints DEF ReferenceAnswers
<1>2. CASE RecordReference
  <2>0. /\ reply[Ref] \in 0 .. MaxHeight /\ reply[Ref] <= height[Ref]
        /\ pending = {} /\ Succeeded(Ref) /\ UNCHANGED client
    BY <1>2, Endpoints DEF RecordReference, Succeeded, Waited, TypeOK, ReferenceFirst
  <2>1. TypeOK'
    BY <1>2, <2>0, QueryEnds, Endpoints DEF RecordReference, TypeOK, envVars
  <2>2. PollConsistent'
    BY <1>2 DEF RecordReference, PollConsistent
  <2>3. ReferenceFirst'
    <3>1. reply'[Ref] = Unset /\ height[Ref] \in 0 .. MaxHeight
      BY <2>0, QueryEnds, Endpoints DEF TypeOK
    <3> QED BY <1>2, <2>0, <3>1, MaxHeightAssumption DEF RecordReference, ReferenceFirst, envVars, Unset
  <2>4. RepliesOfPoll'
    BY <2>0, QueryEnds, Endpoints DEF RepliesOfPoll, TypeOK
  <2> QED BY <2>1, <2>2, <2>3, <2>4
<1>3. CASE ReferenceFails
  <2>0. pending = {} /\ Failed(Ref)
    BY <1>3 DEF ReferenceFails, Waited
  <2>1. TypeOK'
    BY <1>3, QueryEnds, Endpoints DEF ReferenceFails, TypeOK, envVars, refVars
  <2>2. PollConsistent'
    <3>1. \A i \in FullNodes : Label(i) # Label(Ref) /\ Label(i) \in Labels
      BY Endpoints, LabelsDistinct
    <3>2. available' = [available EXCEPT ![Label(Ref)] = 0]
      BY <2>0, QueryEnds, Endpoints
    <3>3. \A i \in FullNodes : available'[Label(i)] = available[Label(i)]
      BY <3>1, <3>2 DEF TypeOK
    <3> QED BY <1>3, <3>3 DEF ReferenceFails, PollConsistent, refVars
  <2>3. ReferenceFirst'
    <3>1. reply'[Ref] = Unset /\ height[Ref] \in 0 .. MaxHeight
      BY <2>0, QueryEnds, Endpoints DEF TypeOK
    <3> QED BY <1>3, <3>1, MaxHeightAssumption DEF ReferenceFails, ReferenceFirst, envVars, refVars, Unset
  <2>4. RepliesOfPoll'
    BY <2>0, QueryEnds, Endpoints DEF RepliesOfPoll, TypeOK
  <2> QED BY <2>1, <2>2, <2>3, <2>4
<1> QED BY <1>1, <1>2, <1>3 DEF PollReference

\* The query of a full node ends.
LEMMA FullNodeEnds ==
    ASSUME IInv, NEW i \in FullNodes, RecordAnswer(i) \/ NodeFails(i)
    PROVE  IInv'
<1> USE DEF IInv
<1> DEFINE record == [height |-> reply[i], drift |-> BlockHeightDrift(refHeight, reply[i])]
<1>0. /\ i \in Nodes /\ i # Ref /\ i \in pending /\ Label(i) \in Labels /\ refHeight \in 0 .. MaxHeight
      /\ Label(i) \in DOMAIN shown /\ Label(i) \in DOMAIN available
  BY Endpoints DEF RecordAnswer, NodeFails, TypeOK, ReferenceFirst
<1>1. /\ pending' = pending \ {i}
      /\ UNCHANGED <<envVars, refVars, behind, returned>>
      /\ (Succeeded(i) /\ UNCHANGED client) \/ Failed(i)
      /\ \/ RecordAnswer(i) /\ reply[i] # Unset /\ shown' = [shown EXCEPT ![Label(i)] = record]
         \/ NodeFails(i) /\ Failed(i) /\ UNCHANGED shown
  BY DEF RecordAnswer, NodeFails, Succeeded
<1>2. reply' = [reply EXCEPT ![i] = Unset]
  BY <1>0, <1>1, QueryEnds
<1>3. TypeOK'
  <2>1. shown' \in [Labels -> [height : 0 .. MaxHeight, drift : -MaxHeight .. MaxHeight] \cup {Nothing}]
    <3>1. CASE reply[i] # Unset /\ shown' = [shown EXCEPT ![Label(i)] = record]
      <4>1. reply[i] \in 0 .. MaxHeight
        BY <1>0, <3>1 DEF TypeOK
      <4>2. record \in [height : 0 .. MaxHeight, drift : -MaxHeight .. MaxHeight]
        BY <1>0, <4>1, MaxHeightAssumption DEF BlockHeightDrift
      <4> QED BY <1>0, <3>1, <4>2 DEF TypeOK
    <3>2. CASE UNCHANGED shown
      BY <3>2 DEF TypeOK
    <3> QED BY <1>1, <3>1, <3>2
  <2> QED BY <1>0, <1>1, <2>1, QueryEnds DEF TypeOK, envVars, refVars
<1>4. PollConsistent'
  <2> SUFFICES ASSUME NEW j \in FullNodes, j \notin pending', available'[Label(j)] = 1
               PROVE  shown'[Label(j)].drift = refShown - shown'[Label(j)].height
    BY <1>1 DEF PollConsistent, refVars
  <2>1. CASE j = i
    <3>1. ~Failed(i)
      BY <1>0, <2>1, QueryEnds
    <3>2. shown'[Label(i)] = record
      BY <1>0, <1>1, <3>1
    <3>3. record.drift = refHeight - record.height
      BY DEF BlockHeightDrift
    <3> QED BY <2>1, <3>2, <3>3 DEF ReferenceFirst
  <2>2. CASE j # i
    <3>1. Label(j) # Label(i) /\ Label(j) \in Labels
      BY <1>0, <2>2, Endpoints, LabelsDistinct
    <3>2. available'[Label(j)] = available[Label(j)]
      BY <1>0, <1>1, <3>1, QueryEnds DEF TypeOK
    <3>3. shown'[Label(j)] = shown[Label(j)]
      BY <1>1, <3>1 DEF TypeOK
    <3> QED BY <1>1, <2>2, <3>2, <3>3 DEF PollConsistent
  <2> QED BY <2>1, <2>2
<1>5. ReferenceFirst'
  <2>1. reply'[Ref] = reply[Ref]
    BY <1>0, <1>2
  <2> QED BY <1>1, <2>1 DEF ReferenceFirst, envVars, refVars
<1>6. RepliesOfPoll'
  BY <1>0, <1>1, <1>2, Endpoints DEF RepliesOfPoll, TypeOK, refVars
<1> QED BY <1>3, <1>4, <1>5, <1>6

\* A step of the query of a full node.
LEMMA FullNodeKeeps ==
    ASSUME IInv, NEW i \in FullNodes, PollFullNode(i)
    PROVE  IInv'
<1>1. CASE NodeAnswers(i)
  BY <1>1, AnswerKeeps, Endpoints DEF NodeAnswers
<1> QED BY <1>1, FullNodeEnds DEF PollFullNode

\* Every step keeps the invariant.
LEMMA NextIInv == IInv /\ [Next]_driftVars => IInv'
<1> SUFFICES ASSUME IInv, [Next]_driftVars PROVE IInv'
  OBVIOUS
<1>1. CASE Return
  <2>1. UNCHANGED <<envVars, pending, refVars, gaugeVars, replyVars>>
    BY <1>1 DEF Return
  <2>2. TypeOK'
    BY <1>1, <2>1 DEF Return, IInv, TypeOK, envVars, refVars, gaugeVars, replyVars
  <2> QED BY <2>1, <2>2 DEF IInv, PollConsistent, ReferenceFirst, RepliesOfPoll, envVars, refVars,
                            gaugeVars, replyVars
<1>2. CASE UNCHANGED driftVars
  BY <1>2 DEF driftVars, envVars, pollVars, refVars, gaugeVars, replyVars, IInv, TypeOK, PollConsistent,
              ReferenceFirst, RepliesOfPoll
<1>3. CASE Cancel
  BY <1>3, Endpoints, EnvironmentKeeps
<1> QED BY <1>1, <1>2, <1>3, EnvironmentKeeps, ReferenceKeeps, FullNodeKeeps DEF Next

\* The inductive invariant of the poll.
LEMMA Invariance == Spec => []IInv
BY InitIInv, NextIInv, PTL DEF Spec

\* A step that shows another drift shows one the target had when it answered.
LEMMA StepNeverOverstates ==
    ASSUME IInv, [Next]_driftVars, NEW i \in FullNodes, shown'[Label(i)] # shown[Label(i)]
    PROVE  shown'[Label(i)].drift <= behind[i]
<1>1. PICK j \in FullNodes : RecordAnswer(j)
  BY DEF Next, driftVars, pollVars, gaugeVars, Advance, Outage, Recover, Cancel, PollReference,
         ReferenceAnswers, RecordReference, ReferenceFails, PollFullNode, NodeAnswers, NodeFails, Return
<1>2. shown' = [shown EXCEPT ![Label(j)] =
                  [height |-> reply[j], drift |-> BlockHeightDrift(refHeight, reply[j])]]
  BY <1>1 DEF RecordAnswer
<1>3. Label(i) \in DOMAIN shown /\ Label(j) \in DOMAIN shown
  BY Endpoints DEF IInv, TypeOK
<1>4. Label(i) = Label(j)
  BY <1>2, <1>3
<1>5. i = j
  BY <1>4, LabelsDistinct, Endpoints
<1>6. shown'[Label(i)].drift = refHeight - reply[i]
  BY <1>2, <1>3, <1>5 DEF BlockHeightDrift
<1>7. reply[i] # Unset
  BY <1>1, <1>5 DEF RecordAnswer, Succeeded
<1> QED BY <1>6, <1>7 DEF IInv, RepliesOfPoll

\* Heights stay heights, drifts differences of heights.
THEOREM DriftTypeCorrect == Spec => []TypeOK
<1>1. IInv => TypeOK
  BY DEF IInv
<1> QED BY <1>1, Invariance, PTL

\* Between polls the gauges of an available full node are those of one poll, however the
\* goroutines of the poll and failures before it interleave.
THEOREM AlwaysConsistent == Spec => []DriftConsistent
<1>1. IInv => DriftConsistent
  BY DEF IInv, PollConsistent, DriftConsistent, InSelect, Waited
<1> QED BY <1>1, Invariance, PTL

\* No step shows a target further behind the reference node than it was when it answered.
THEOREM NeverOverstates == Spec => DriftNeverOverstates
<1>1. IInv /\ [Next]_driftVars =>
        [\A i \in FullNodes : shown'[Label(i)] # shown[Label(i)] =>
           shown'[Label(i)].drift <= behind[i]]_driftVars
  BY StepNeverOverstates
<1> QED BY <1>1, Invariance, PTL DEF Spec, DriftNeverOverstates
=============================================================================
