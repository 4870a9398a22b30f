--------------------------- MODULE MaterialProofs ---------------------------
(***************************************************************************)
(* What comes in from outside, proved.  First the dialogue with the model, *)
(* for every budget and every set of documents: its properties are proved  *)
(* together, as the retry bound of a snapshot rests on the account of the  *)
(* calls, and the account on the shape of the states.  Then the import of  *)
(* character cards, for every set of cards, however they share files, the  *)
(* signed catalog, for every set of signed files and callers, and the      *)
(* document crawl, for every web of pages and every budget.                *)
(***************************************************************************)
EXTENDS MCMaterial, FiniteSetTheorems, WellFoundedInduction, TLAPS

(* What the properties leave out: a call in flight has paid for the tool   *)
(* call it may ask for, and a pending tool call has no result yet.         *)
Outstanding ==
    /\ state = "awaiting_assistant" => toolCalls < turns
    /\ state = "awaiting_tool_result" => Len(observations) < toolCalls

IInv == TypeOK /\ SnapshotRestores /\ EveryCallIsAskedFor /\ OnlyApprovedIsDisclosed /\ Outstanding

(* A new engine satisfies everything.                                      *)
LEMMA InitIInv == Init => IInv
<1> SUFFICES ASSUME Init PROVE IInv
  OBVIOUS
<1> USE DEF Init
<1>1. TypeOK
  <2>1. observations \in Seq(Observations)
    OBVIOUS
  <2>2. QED
    BY <2>1 DEF TypeOK, AssistantStates, ToolCalls, NoTool, Drafts, NoDraft, Startable
<1>2. SnapshotRestores
  <2>1. Len(observations) = 0
    OBVIOUS
  <2>2. QED
    BY <2>1, AssistantAssumption DEF SnapshotRestores, QuestionsRestorable, UsageRestorable, TranscriptRestorable,
       ConsentRestorable, ShapeRestorable, AssistantAssumption, Over, NoTool, NoDraft
<1>3. EveryCallIsAskedFor
  BY DEF EveryCallIsAskedFor, InFlight
<1>4. OnlyApprovedIsDisclosed /\ Outstanding
  BY DEF OnlyApprovedIsDisclosed, Outstanding
<1>5. QED
  BY <1>1, <1>2, <1>3, <1>4 DEF IInv

LEMMA StartOverKeeps ==
    ASSUME NEW ev \in SUBSET Evidence, IInv, StartOver(ev) PROVE IInv'
<1> USE AssistantAssumption DEF AssistantAssumption, StartOver, usage, history, New, Startable
<1>0. TypeOK /\ QuestionsRestorable /\ UsageRestorable /\ TranscriptRestorable /\ ConsentRestorable
      /\ ShapeRestorable /\ EveryCallIsAskedFor /\ OnlyApprovedIsDisclosed /\ Outstanding
  BY DEF IInv, SnapshotRestores
<1>1. TypeOK'
  <2>1. observations' \in Seq(Observations)
    OBVIOUS
  <2>2. QED
    BY <1>0, <2>1 DEF TypeOK, AssistantStates, ToolCalls, NoTool, Drafts, NoDraft
<1>2. QuestionsRestorable'
  BY <1>0 DEF TypeOK, QuestionsRestorable, InFlight, Over, NoTool, Nothing
<1>3. UsageRestorable'
  BY <1>0 DEF TypeOK, UsageRestorable, EveryCallIsAskedFor, InFlight
<1>4. TranscriptRestorable'
  BY <1>0 DEF TypeOK, TranscriptRestorable, Observations
<1>5. ConsentRestorable'
  BY <1>0 DEF TypeOK, ConsentRestorable, EvidenceOrigins, InFlight, Over
<1>6. ShapeRestorable'
  <2>1. pendingTool' = NoTool /\ NoTool.id = 0
    BY <1>0 DEF ShapeRestorable, NoTool, InFlight
  <2>2. QED
    BY <1>0, <2>1 DEF TypeOK, ShapeRestorable, NoDraft, InFlight, Over, Drafts, AssistantStates
<1>7. EveryCallIsAskedFor'
  BY <1>0 DEF TypeOK, EveryCallIsAskedFor, InFlight, Over
<1>8. OnlyApprovedIsDisclosed'
  BY <1>0 DEF TypeOK, OnlyApprovedIsDisclosed, ConsentRestorable, EvidenceOrigins
<1>9. Outstanding'
  BY <1>0 DEF TypeOK, Outstanding, UsageRestorable, TranscriptRestorable, InFlight, Over
<1>10. QED
  BY <1>1, <1>2, <1>3, <1>4, <1>5, <1>6, <1>7, <1>8, <1>9 DEF IInv, SnapshotRestores

LEMMA GrantConsentKeeps ==
    ASSUME IInv, GrantConsent PROVE IInv'
<1> USE AssistantAssumption DEF AssistantAssumption, GrantConsent, usage, history
<1>0. TypeOK /\ QuestionsRestorable /\ UsageRestorable /\ TranscriptRestorable /\ ConsentRestorable
      /\ ShapeRestorable /\ EveryCallIsAskedFor /\ OnlyApprovedIsDisclosed /\ Outstanding
  BY DEF IInv, SnapshotRestores
<1>1. TypeOK'
  BY <1>0 DEF TypeOK, AssistantStates, ToolCalls, NoTool, Nothing, Drafts, NoDraft, Observations, EvidenceOrigins, InFlight, Over
<1>2. QuestionsRestorable'
  BY <1>0 DEF TypeOK, QuestionsRestorable, InFlight, Over, NoTool, Nothing
<1>3. UsageRestorable'
  BY <1>0 DEF TypeOK, UsageRestorable, EveryCallIsAskedFor, InFlight
<1>4. TranscriptRestorable'
  BY <1>0 DEF TypeOK, TranscriptRestorable, Observations
<1>5. ConsentRestorable'
  BY <1>0 DEF TypeOK, ConsentRestorable, EvidenceOrigins, InFlight, Over
<1>6. ShapeRestorable'
  BY <1>0 DEF TypeOK, ShapeRestorable, TranscriptRestorable, NoTool, NoDraft, InFlight, Over, ToolCalls, Drafts, AssistantStates
<1>7. EveryCallIsAskedFor'
  BY <1>0 DEF TypeOK, EveryCallIsAskedFor, InFlight, Over
<1>8. OnlyApprovedIsDisclosed'
  BY <1>0 DEF TypeOK, OnlyApprovedIsDisclosed, ConsentRestorable, EvidenceOrigins
<1>9. Outstanding'
  BY <1>0 DEF TypeOK, Outstanding, UsageRestorable, TranscriptRestorable, InFlight, Over
<1>10. QED
  BY <1>1, <1>2, <1>3, <1>4, <1>5, <1>6, <1>7, <1>8, <1>9 DEF IInv, SnapshotRestores

LEMMA AddRedactedEvidenceKeeps ==
    ASSUME NEW e \in Evidence, IInv, AddRedactedEvidence(e) PROVE IInv'
<1> USE AssistantAssumption DEF AssistantAssumption, AddRedactedEvidence, usage, history
<1>0. TypeOK /\ QuestionsRestorable /\ UsageRestorable /\ TranscriptRestorable /\ ConsentRestorable
      /\ ShapeRestorable /\ EveryCallIsAskedFor /\ OnlyApprovedIsDisclosed /\ Outstanding
  BY DEF IInv, SnapshotRestores
<1>1. TypeOK'
  BY <1>0 DEF TypeOK, AssistantStates, ToolCalls, NoTool, Nothing, Drafts, NoDraft, Observations, EvidenceOrigins, InFlight, Over
<1>2. QuestionsRestorable'
  BY <1>0 DEF TypeOK, QuestionsRestorable, InFlight, Over, NoTool, Nothing
<1>3. UsageRestorable'
  BY <1>0 DEF TypeOK, UsageRestorable, EveryCallIsAskedFor, InFlight
<1>4. TranscriptRestorable'
  BY <1>0 DEF TypeOK, TranscriptRestorable, Observations
<1>5. ConsentRestorable'
  BY <1>0 DEF TypeOK, ConsentRestorable, EvidenceOrigins, InFlight, Over
<1>6. ShapeRestorable'
  BY <1>0 DEF TypeOK, ShapeRestorable, TranscriptRestorable, NoTool, NoDraft, InFlight, Over, ToolCalls, Drafts, AssistantStates
<1>7. EveryCallIsAskedFor'
  BY <1>0 DEF TypeOK, EveryCallIsAskedFor, InFlight, Over
<1>8. OnlyApprovedIsDisclosed'
  BY <1>0 DEF TypeOK, OnlyApprovedIsDisclosed, ConsentRestorable, EvidenceOrigins
<1>9. Outstanding'
  BY <1>0 DEF TypeOK, Outstanding, UsageRestorable, TranscriptRestorable, InFlight, Over
<1>10. QED
  BY <1>1, <1>2, <1>3, <1>4, <1>5, <1>6, <1>7, <1>8, <1>9 DEF IInv, SnapshotRestores

LEMMA BeginTurnKeeps ==
    ASSUME NEW estimate \in Estimates, IInv, BeginTurn(estimate) PROVE IInv'
<1> USE AssistantAssumption DEF AssistantAssumption, BeginTurn, usage, history
<1>0. TypeOK /\ QuestionsRestorable /\ UsageRestorable /\ TranscriptRestorable /\ ConsentRestorable
      /\ ShapeRestorable /\ EveryCallIsAskedFor /\ OnlyApprovedIsDisclosed /\ Outstanding
  BY DEF IInv, SnapshotRestores
<1>1. TypeOK'
  BY <1>0 DEF TypeOK, AssistantStates, ToolCalls, NoTool, Nothing, Drafts, NoDraft, Observations, EvidenceOrigins, InFlight, Over
<1>2. QuestionsRestorable'
  BY <1>0 DEF TypeOK, QuestionsRestorable, InFlight, Over, NoTool, Nothing
<1>3. UsageRestorable'
  BY <1>0 DEF TypeOK, UsageRestorable, EveryCallIsAskedFor, InFlight
<1>4. TranscriptRestorable'
  BY <1>0 DEF TypeOK, TranscriptRestorable, Observations
<1>5. ConsentRestorable'
  BY <1>0 DEF TypeOK, ConsentRestorable, EvidenceOrigins, InFlight, Over
<1>6. ShapeRestorable'
  BY <1>0 DEF TypeOK, ShapeRestorable, TranscriptRestorable, NoTool, NoDraft, InFlight, Over, ToolCalls, Drafts, AssistantStates
<1>7. EveryCallIsAskedFor'
  BY <1>0 DEF TypeOK, EveryCallIsAskedFor, InFlight, Over
<1>8. OnlyApprovedIsDisclosed'
  BY <1>0 DEF TypeOK, OnlyApprovedIsDisclosed, ConsentRestorable, EvidenceOrigins
<1>9. Outstanding'
  BY <1>0 DEF TypeOK, Outstanding, UsageRestorable, TranscriptRestorable, InFlight, Over
<1>10. QED
  BY <1>1, <1>2, <1>3, <1>4, <1>5, <1>6, <1>7, <1>8, <1>9 DEF IInv, SnapshotRestores

LEMMA CallToolKeeps ==
    ASSUME NEW about \in Evidence \cup {"questions", Nothing}, IInv, CallTool(about) PROVE IInv'
<1> USE AssistantAssumption DEF AssistantAssumption, CallTool, usage, history
<1>0. TypeOK /\ QuestionsRestorable /\ UsageRestorable /\ TranscriptRestorable /\ ConsentRestorable
      /\ ShapeRestorable /\ EveryCallIsAskedFor /\ OnlyApprovedIsDisclosed /\ Outstanding
  BY DEF IInv, SnapshotRestores
<1>1. TypeOK'
  BY <1>0 DEF TypeOK, AssistantStates, ToolCalls, NoTool, Nothing, Drafts, NoDraft, Observations, EvidenceOrigins, InFlight, Over
<1>2. QuestionsRestorable'
  BY <1>0 DEF TypeOK, QuestionsRestorable, InFlight, Over, NoTool, Nothing
<1>3. UsageRestorable'
  BY <1>0 DEF TypeOK, UsageRestorable, Outstanding
<1>4. TranscriptRestorable'
  <2>1. ASSUME NEW i \in 1..Len(observations)
        PROVE  observations[i].id >= 1 /\ observations[i].id < nextCall' /\ observations[i].cites \subseteq evidence
    <3> HIDE DEF CallTool
    <3>0. observations[i] \in Observations
      BY <1>0 DEF TypeOK
    <3>1. observations[i].id \in Nat
      BY <3>0 DEF Observations
    <3>2. observations[i].id >= 1 /\ observations[i].id < nextCall /\ observations[i].cites \subseteq evidence
      BY <1>0 DEF TranscriptRestorable
    <3>3. QED
      BY <1>0, <3>1, <3>2 DEF TypeOK, CallTool
  <2>2. QED
    BY <1>0, <2>1 DEF TypeOK, TranscriptRestorable
<1>5. ConsentRestorable'
  BY <1>0 DEF TypeOK, ConsentRestorable, EvidenceOrigins, InFlight, Over
<1>6. ShapeRestorable'
  BY <1>0 DEF TypeOK, ShapeRestorable, TranscriptRestorable, NoTool, NoDraft, InFlight, Over, ToolCalls, Drafts, AssistantStates
<1>7. EveryCallIsAskedFor'
  BY <1>0 DEF TypeOK, EveryCallIsAskedFor, InFlight, Over
<1>8. OnlyApprovedIsDisclosed'
  BY <1>0 DEF TypeOK, OnlyApprovedIsDisclosed, ConsentRestorable, EvidenceOrigins
<1>9. Outstanding'
  BY <1>0 DEF TypeOK, Outstanding, UsageRestorable, TranscriptRestorable, InFlight, Over
<1>10. QED
  BY <1>1, <1>2, <1>3, <1>4, <1>5, <1>6, <1>7, <1>8, <1>9 DEF IInv, SnapshotRestores

LEMMA SubmitDraftKeeps ==
    ASSUME NEW cites \in SUBSET Evidence, NEW open \in BOOLEAN, IInv, SubmitDraft(cites, open) PROVE IInv'
<1> USE AssistantAssumption DEF AssistantAssumption, SubmitDraft, usage, history
<1>0. TypeOK /\ QuestionsRestorable /\ UsageRestorable /\ TranscriptRestorable /\ ConsentRestorable
      /\ ShapeRestorable /\ EveryCallIsAskedFor /\ OnlyApprovedIsDisclosed /\ Outstanding
  BY DEF IInv, SnapshotRestores
<1>1. TypeOK'
  BY <1>0 DEF TypeOK, AssistantStates, ToolCalls, NoTool, Nothing, Drafts, NoDraft, Observations, EvidenceOrigins, InFlight, Over
<1>2. QuestionsRestorable'
  <2>1. pendingTool = NoTool
    BY <1>0 DEF ShapeRestorable
  <2>2. QED
    BY <1>0, <2>1 DEF TypeOK, QuestionsRestorable, Over, NoTool
<1>3. UsageRestorable'
  BY <1>0 DEF TypeOK, UsageRestorable, EveryCallIsAskedFor, InFlight
<1>4. TranscriptRestorable'
  BY <1>0 DEF TypeOK, TranscriptRestorable, Observations
<1>5. ConsentRestorable'
  BY <1>0 DEF TypeOK, ConsentRestorable, EvidenceOrigins, InFlight, Over
<1>6. ShapeRestorable'
  <2>1. pendingTool' = NoTool /\ NoTool.id = 0
    BY <1>0 DEF ShapeRestorable, NoTool, InFlight
  <2>2. QED
    BY <1>0, <2>1 DEF TypeOK, ShapeRestorable, NoDraft, InFlight, Over, Drafts, AssistantStates
<1>7. EveryCallIsAskedFor'
  BY <1>0 DEF TypeOK, EveryCallIsAskedFor, InFlight, Over
<1>8. OnlyApprovedIsDisclosed'
  BY <1>0 DEF TypeOK, OnlyApprovedIsDisclosed, ConsentRestorable, EvidenceOrigins
<1>9. Outstanding'
  BY <1>0 DEF TypeOK, Outstanding, UsageRestorable, TranscriptRestorable, InFlight, Over
<1>10. QED
  BY <1>1, <1>2, <1>3, <1>4, <1>5, <1>6, <1>7, <1>8, <1>9 DEF IInv, SnapshotRestores

LEMMA NeedMoreEvidenceKeeps ==
    ASSUME IInv, NeedMoreEvidence PROVE IInv'
<1> USE AssistantAssumption DEF AssistantAssumption, NeedMoreEvidence, usage, history
<1>0. TypeOK /\ QuestionsRestorable /\ UsageRestorable /\ TranscriptRestorable /\ ConsentRestorable
      /\ ShapeRestorable /\ EveryCallIsAskedFor /\ OnlyApprovedIsDisclosed /\ Outstanding
  BY DEF IInv, SnapshotRestores
<1>1. TypeOK'
  BY <1>0 DEF TypeOK, AssistantStates, ToolCalls, NoTool, Nothing, Drafts, NoDraft, Observations, EvidenceOrigins, InFlight, Over
<1>2. QuestionsRestorable'
  BY <1>0 DEF TypeOK, QuestionsRestorable, InFlight, Over, NoTool, Nothing
<1>3. UsageRestorable'
  BY <1>0 DEF TypeOK, UsageRestorable, EveryCallIsAskedFor, InFlight
<1>4. TranscriptRestorable'
  BY <1>0 DEF TypeOK, TranscriptRestorable, Observations
<1>5. ConsentRestorable'
  BY <1>0 DEF TypeOK, ConsentRestorable, EvidenceOrigins, InFlight, Over
<1>6. ShapeRestorable'
  BY <1>0 DEF TypeOK, ShapeRestorable, TranscriptRestorable, NoTool, NoDraft, InFlight, Over, ToolCalls, Drafts, AssistantStates
<1>7. EveryCallIsAskedFor'
  BY <1>0 DEF TypeOK, EveryCallIsAskedFor, InFlight, Over
<1>8. OnlyApprovedIsDisclosed'
  BY <1>0 DEF TypeOK, OnlyApprovedIsDisclosed, ConsentRestorable, EvidenceOrigins
<1>9. Outstanding'
  BY <1>0 DEF TypeOK, Outstanding, UsageRestorable, TranscriptRestorable, InFlight, Over
<1>10. QED
  BY <1>1, <1>2, <1>3, <1>4, <1>5, <1>6, <1>7, <1>8, <1>9 DEF IInv, SnapshotRestores

LEMMA RecordFailureKeeps ==
    ASSUME NEW retryable \in BOOLEAN, IInv, RecordFailure(retryable) PROVE IInv'
<1> USE AssistantAssumption DEF AssistantAssumption, RecordFailure, usage, history, TransitionAfterFailure
<1>0. TypeOK /\ QuestionsRestorable /\ UsageRestorable /\ TranscriptRestorable /\ ConsentRestorable
      /\ ShapeRestorable /\ EveryCallIsAskedFor /\ OnlyApprovedIsDisclosed /\ Outstanding
  BY DEF IInv, SnapshotRestores
<1>1. TypeOK'
  BY <1>0 DEF TypeOK, AssistantStates, ToolCalls, NoTool, Nothing, Drafts, NoDraft, Observations, EvidenceOrigins, InFlight, Over
<1>2. QuestionsRestorable'
  <2>1. pendingTool = NoTool
    BY <1>0 DEF ShapeRestorable
  <2>2. QED
    BY <1>0, <2>1 DEF TypeOK, QuestionsRestorable, Over, NoTool
<1>3. UsageRestorable'
  BY <1>0 DEF TypeOK, UsageRestorable, EveryCallIsAskedFor, InFlight
<1>4. TranscriptRestorable'
  BY <1>0 DEF TypeOK, TranscriptRestorable, Observations
<1>5. ConsentRestorable'
  BY <1>0 DEF TypeOK, ConsentRestorable, EvidenceOrigins, InFlight, Over
<1>6. ShapeRestorable'
  BY <1>0 DEF TypeOK, ShapeRestorable, TranscriptRestorable, NoTool, NoDraft, InFlight, Over, ToolCalls, Drafts, AssistantStates
<1>7. EveryCallIsAskedFor'
  BY <1>0 DEF TypeOK, EveryCallIsAskedFor, InFlight, Over
<1>8. OnlyApprovedIsDisclosed'
  BY <1>0 DEF TypeOK, OnlyApprovedIsDisclosed, ConsentRestorable, EvidenceOrigins
<1>9. Outstanding'
  BY <1>0 DEF TypeOK, Outstanding, UsageRestorable, TranscriptRestorable, InFlight, Over
<1>10. QED
  BY <1>1, <1>2, <1>3, <1>4, <1>5, <1>6, <1>7, <1>8, <1>9 DEF IInv, SnapshotRestores

LEMMA SubmitToolResultKeeps ==
    ASSUME NEW cites \in SUBSET Evidence, IInv, SubmitToolResult(cites) PROVE IInv'
<1> USE AssistantAssumption DEF AssistantAssumption, SubmitToolResult, usage, history
<1>0. TypeOK /\ QuestionsRestorable /\ UsageRestorable /\ TranscriptRestorable /\ ConsentRestorable
      /\ ShapeRestorable /\ EveryCallIsAskedFor /\ OnlyApprovedIsDisclosed /\ Outstanding
  BY DEF IInv, SnapshotRestores
<1>1. TypeOK'
  BY <1>0 DEF TypeOK, AssistantStates, ToolCalls, NoTool, Nothing, Drafts, NoDraft, Observations, EvidenceOrigins, InFlight, Over
<1>2. QuestionsRestorable'
  BY <1>0 DEF TypeOK, QuestionsRestorable, InFlight, Over, NoTool, Nothing
<1>3. UsageRestorable'
  BY <1>0 DEF TypeOK, UsageRestorable, EveryCallIsAskedFor, InFlight
<1>4. TranscriptRestorable'
  <2> DEFINE n == Len(observations)
             new == [id |-> pendingTool.id, cites |-> cites]
  <2>1. /\ n \in Nat /\ Len(observations') = n + 1
        /\ \A i \in 1..n : observations'[i] = observations[i]
        /\ observations'[n + 1] = new
    BY <1>0 DEF TypeOK, Observations, ToolCalls
  <2>2. n + 1 <= toolCalls
    BY <1>0, <2>1 DEF TypeOK, Outstanding
  <2>3. /\ pendingTool.id \in Nat /\ pendingTool.id >= 1 /\ pendingTool.id < nextCall
        /\ \A i \in 1..n : observations[i].id < pendingTool.id
    BY <1>0 DEF TypeOK, ShapeRestorable, ToolCalls
  <2>4. ASSUME NEW i \in 1..(n + 1)
        PROVE  /\ observations'[i].id >= 1 /\ observations'[i].id < nextCall
               /\ observations'[i].cites \subseteq evidence
               /\ \A j \in 1..(n + 1) : i < j => observations'[i].id < observations'[j].id
    <3>1. CASE i = n + 1
      BY <2>1, <2>3, <3>1
    <3>2. CASE i \in 1..n
      <4>1. ASSUME NEW j \in 1..(n + 1), i < j
            PROVE  observations'[i].id < observations'[j].id
        <5>1. CASE j = n + 1
          BY <2>1, <2>3, <3>2, <5>1
        <5>2. CASE j \in 1..n
          BY <1>0, <2>1, <3>2, <4>1, <5>2 DEF TranscriptRestorable
        <5>3. QED
          BY <2>1, <5>1, <5>2
      <4>2. QED
        BY <1>0, <2>1, <3>2, <4>1 DEF TranscriptRestorable
    <3>3. QED
      BY <2>1, <3>1, <3>2
  <2>5. QED
    BY <1>0, <2>1, <2>2, <2>4 DEF TranscriptRestorable
<1>5. ConsentRestorable'
  BY <1>0 DEF TypeOK, ConsentRestorable, EvidenceOrigins, InFlight, Over
<1>6. ShapeRestorable'
  BY <1>0 DEF TypeOK, ShapeRestorable, TranscriptRestorable, NoTool, NoDraft, InFlight, Over, ToolCalls, Drafts, AssistantStates
<1>7. EveryCallIsAskedFor'
  BY <1>0 DEF TypeOK, EveryCallIsAskedFor, InFlight, Over
<1>8. OnlyApprovedIsDisclosed'
  BY <1>0 DEF TypeOK, OnlyApprovedIsDisclosed, ConsentRestorable, EvidenceOrigins
<1>9. Outstanding'
  BY <1>0 DEF TypeOK, Outstanding, UsageRestorable, TranscriptRestorable, InFlight, Over
<1>10. QED
  BY <1>1, <1>2, <1>3, <1>4, <1>5, <1>6, <1>7, <1>8, <1>9 DEF IInv, SnapshotRestores

LEMMA ContinueAfterMoreEvidenceKeeps ==
    ASSUME IInv, ContinueAfterMoreEvidence PROVE IInv'
<1> USE AssistantAssumption DEF AssistantAssumption, ContinueAfterMoreEvidence, usage, history
<1>0. TypeOK /\ QuestionsRestorable /\ UsageRestorable /\ TranscriptRestorable /\ ConsentRestorable
      /\ ShapeRestorable /\ EveryCallIsAskedFor /\ OnlyApprovedIsDisclosed /\ Outstanding
  BY DEF IInv, SnapshotRestores
<1>1. TypeOK'
  BY <1>0 DEF TypeOK, AssistantStates, ToolCalls, NoTool, Nothing, Drafts, NoDraft, Observations, EvidenceOrigins, InFlight, Over
<1>2. QuestionsRestorable'
  BY <1>0 DEF TypeOK, QuestionsRestorable, InFlight, Over, NoTool, Nothing
<1>3. UsageRestorable'
  BY <1>0 DEF TypeOK, UsageRestorable, EveryCallIsAskedFor, InFlight
<1>4. TranscriptRestorable'
  BY <1>0 DEF TypeOK, TranscriptRestorable, Observations
<1>5. ConsentRestorable'
  BY <1>0 DEF TypeOK, ConsentRestorable, EvidenceOrigins, InFlight, Over
<1>6. ShapeRestorable'
  BY <1>0 DEF TypeOK, ShapeRestorable, TranscriptRestorable, NoTool, NoDraft, InFlight, Over, ToolCalls, Drafts, AssistantStates
<1>7. EveryCallIsAskedFor'
  BY <1>0 DEF TypeOK, EveryCallIsAskedFor, InFlight, Over
<1>8. OnlyApprovedIsDisclosed'
  BY <1>0 DEF TypeOK, OnlyApprovedIsDisclosed, ConsentRestorable, EvidenceOrigins
<1>9. Outstanding'
  BY <1>0 DEF TypeOK, Outstanding, UsageRestorable, TranscriptRestorable, InFlight, Over
<1>10. QED
  BY <1>1, <1>2, <1>3, <1>4, <1>5, <1>6, <1>7, <1>8, <1>9 DEF IInv, SnapshotRestores

LEMMA ApproveRetryKeeps ==
    ASSUME IInv, ApproveRetry PROVE IInv'
<1> USE AssistantAssumption DEF AssistantAssumption, ApproveRetry, usage, history
<1>0. TypeOK /\ QuestionsRestorable /\ UsageRestorable /\ TranscriptRestorable /\ ConsentRestorable
      /\ ShapeRestorable /\ EveryCallIsAskedFor /\ OnlyApprovedIsDisclosed /\ Outstanding
  BY DEF IInv, SnapshotRestores
<1>1. TypeOK'
  <2>1. retries' \in Nat
    BY <1>0 DEF TypeOK
  <2>2. QED
    BY <1>0, <2>1 DEF TypeOK, AssistantStates
<1>2. QuestionsRestorable'
  BY <1>0 DEF TypeOK, QuestionsRestorable, InFlight, Over, NoTool, Nothing
<1>3. UsageRestorable'
  BY <1>0 DEF TypeOK, UsageRestorable, EveryCallIsAskedFor, InFlight
<1>4. TranscriptRestorable'
  BY <1>0 DEF TypeOK, TranscriptRestorable, Observations
<1>5. ConsentRestorable'
  BY <1>0 DEF TypeOK, ConsentRestorable, EvidenceOrigins, InFlight, Over
<1>6. ShapeRestorable'
  BY <1>0 DEF TypeOK, ShapeRestorable, TranscriptRestorable, NoTool, NoDraft, InFlight, Over, ToolCalls, Drafts, AssistantStates
<1>7. EveryCallIsAskedFor'
  BY <1>0 DEF TypeOK, EveryCallIsAskedFor, InFlight, Over
<1>8. OnlyApprovedIsDisclosed'
  BY <1>0 DEF TypeOK, OnlyApprovedIsDisclosed, ConsentRestorable, EvidenceOrigins
<1>9. Outstanding'
  BY <1>0 DEF TypeOK, Outstanding, UsageRestorable, TranscriptRestorable, InFlight, Over
<1>10. QED
  BY <1>1, <1>2, <1>3, <1>4, <1>5, <1>6, <1>7, <1>8, <1>9 DEF IInv, SnapshotRestores

LEMMA MarkInterruptedKeeps ==
    ASSUME IInv, MarkInterrupted PROVE IInv'
<1> USE AssistantAssumption DEF AssistantAssumption, MarkInterrupted, usage, history
<1>0. TypeOK /\ QuestionsRestorable /\ UsageRestorable /\ TranscriptRestorable /\ ConsentRestorable
      /\ ShapeRestorable /\ EveryCallIsAskedFor /\ OnlyApprovedIsDisclosed /\ Outstanding
  BY DEF IInv, SnapshotRestores
<1>1. TypeOK'
  BY <1>0 DEF TypeOK, AssistantStates, ToolCalls, NoTool, Nothing, Drafts, NoDraft, Observations, EvidenceOrigins, InFlight, Over
<1>2. QuestionsRestorable'
  BY <1>0 DEF TypeOK, QuestionsRestorable, InFlight, Over, NoTool, Nothing
<1>3. UsageRestorable'
  BY <1>0 DEF TypeOK, UsageRestorable, EveryCallIsAskedFor, InFlight
<1>4. TranscriptRestorable'
  BY <1>0 DEF TypeOK, TranscriptRestorable, Observations
<1>5. ConsentRestorable'
  BY <1>0 DEF TypeOK, ConsentRestorable, EvidenceOrigins, InFlight, Over
<1>6. ShapeRestorable'
  <2>1. pendingTool' = NoTool /\ NoTool.id = 0
    BY <1>0 DEF ShapeRestorable, NoTool, InFlight
  <2>2. QED
    BY <1>0, <2>1 DEF TypeOK, ShapeRestorable, NoDraft, InFlight, Over, Drafts, AssistantStates
<1>7. EveryCallIsAskedFor'
  BY <1>0 DEF TypeOK, EveryCallIsAskedFor, InFlight, Over
<1>8. OnlyApprovedIsDisclosed'
  BY <1>0 DEF TypeOK, OnlyApprovedIsDisclosed, ConsentRestorable, EvidenceOrigins
<1>9. Outstanding'
  BY <1>0 DEF TypeOK, Outstanding, UsageRestorable, TranscriptRestorable, InFlight, Over
<1>10. QED
  BY <1>1, <1>2, <1>3, <1>4, <1>5, <1>6, <1>7, <1>8, <1>9 DEF IInv, SnapshotRestores

LEMMA RestartAfterInterruptionKeeps ==
    ASSUME IInv, RestartAfterInterruption PROVE IInv'
<1> USE AssistantAssumption DEF AssistantAssumption, RestartAfterInterruption, usage, history
<1>0. TypeOK /\ QuestionsRestorable /\ UsageRestorable /\ TranscriptRestorable /\ ConsentRestorable
      /\ ShapeRestorable /\ EveryCallIsAskedFor /\ OnlyApprovedIsDisclosed /\ Outstanding
  BY DEF IInv, SnapshotRestores
<1>1. TypeOK'
  BY <1>0 DEF TypeOK, AssistantStates, ToolCalls, NoTool, Nothing, Drafts, NoDraft, Observations, EvidenceOrigins, InFlight, Over
<1>2. QuestionsRestorable'
  BY <1>0 DEF TypeOK, QuestionsRestorable, InFlight, Over, NoTool, Nothing
<1>3. UsageRestorable'
  BY <1>0 DEF TypeOK, UsageRestorable, EveryCallIsAskedFor, InFlight
<1>4. TranscriptRestorable'
  BY <1>0 DEF TypeOK, TranscriptRestorable, Observations
<1>5. ConsentRestorable'
  BY <1>0 DEF TypeOK, ConsentRestorable, EvidenceOrigins, InFlight, Over
<1>6. ShapeRestorable'
  BY <1>0 DEF TypeOK, ShapeRestorable, TranscriptRestorable, NoTool, NoDraft, InFlight, Over, ToolCalls, Drafts, AssistantStates
<1>7. EveryCallIsAskedFor'
  BY <1>0 DEF TypeOK, EveryCallIsAskedFor, InFlight, Over
<1>8. OnlyApprovedIsDisclosed'
  BY <1>0 DEF TypeOK, OnlyApprovedIsDisclosed, ConsentRestorable, EvidenceOrigins
<1>9. Outstanding'
  BY <1>0 DEF TypeOK, Outstanding, UsageRestorable, TranscriptRestorable, InFlight, Over
<1>10. QED
  BY <1>1, <1>2, <1>3, <1>4, <1>5, <1>6, <1>7, <1>8, <1>9 DEF IInv, SnapshotRestores

LEMMA CancelKeeps ==
    ASSUME IInv, Cancel PROVE IInv'
<1> USE AssistantAssumption DEF AssistantAssumption, Cancel, usage, history
<1>0. TypeOK /\ QuestionsRestorable /\ UsageRestorable /\ TranscriptRestorable /\ ConsentRestorable
      /\ ShapeRestorable /\ EveryCallIsAskedFor /\ OnlyApprovedIsDisclosed /\ Outstanding
  BY DEF IInv, SnapshotRestores
<1>1. TypeOK'
  BY <1>0 DEF TypeOK, AssistantStates, ToolCalls, NoTool, Nothing, Drafts, NoDraft, Observations, EvidenceOrigins, InFlight, Over
<1>2. QuestionsRestorable'
  BY <1>0 DEF TypeOK, QuestionsRestorable, InFlight, Over, NoTool, Nothing
<1>3. UsageRestorable'
  BY <1>0 DEF TypeOK, UsageRestorable, EveryCallIsAskedFor, InFlight
<1>4. TranscriptRestorable'
  BY <1>0 DEF TypeOK, TranscriptRestorable, Observations
<1>5. ConsentRestorable'
  BY <1>0 DEF TypeOK, ConsentRestorable, EvidenceOrigins, InFlight, Over
<1>6. ShapeRestorable'
  <2>1. pendingTool' = NoTool /\ NoTool.id = 0
    BY <1>0 DEF ShapeRestorable, NoTool, InFlight
  <2>2. QED
    BY <1>0, <2>1 DEF TypeOK, ShapeRestorable, NoDraft, InFlight, Over, Drafts, AssistantStates
<1>7. EveryCallIsAskedFor'
  BY <1>0 DEF TypeOK, EveryCallIsAskedFor, InFlight, Over
<1>8. OnlyApprovedIsDisclosed'
  BY <1>0 DEF TypeOK, OnlyApprovedIsDisclosed, ConsentRestorable, EvidenceOrigins
<1>9. Outstanding'
  BY <1>0 DEF TypeOK, Outstanding, UsageRestorable, TranscriptRestorable, InFlight, Over
<1>10. QED
  BY <1>1, <1>2, <1>3, <1>4, <1>5, <1>6, <1>7, <1>8, <1>9 DEF IInv, SnapshotRestores

LEMMA RequestDraftRevisionKeeps ==
    ASSUME IInv, RequestDraftRevision PROVE IInv'
<1> USE AssistantAssumption DEF AssistantAssumption, RequestDraftRevision, usage, history
<1>0. TypeOK /\ QuestionsRestorable /\ UsageRestorable /\ TranscriptRestorable /\ ConsentRestorable
      /\ ShapeRestorable /\ EveryCallIsAskedFor /\ OnlyApprovedIsDisclosed /\ Outstanding
  BY DEF IInv, SnapshotRestores
<1>1. TypeOK'
  BY <1>0 DEF TypeOK, AssistantStates, ToolCalls, NoTool, Nothing, Drafts, NoDraft, Observations, EvidenceOrigins, InFlight, Over
<1>2. QuestionsRestorable'
  BY <1>0 DEF TypeOK, QuestionsRestorable, InFlight, Over, NoTool, Nothing
<1>3. UsageRestorable'
  BY <1>0 DEF TypeOK, UsageRestorable, EveryCallIsAskedFor, InFlight
<1>4. TranscriptRestorable'
  BY <1>0 DEF TypeOK, TranscriptRestorable, Observations
<1>5. ConsentRestorable'
  BY <1>0 DEF TypeOK, ConsentRestorable, EvidenceOrigins, InFlight, Over
<1>6. ShapeRestorable'
  BY <1>0 DEF TypeOK, ShapeRestorable, TranscriptRestorable, NoTool, NoDraft, InFlight, Over, ToolCalls, Drafts, AssistantStates
<1>7. EveryCallIsAskedFor'
  BY <1>0 DEF TypeOK, EveryCallIsAskedFor, InFlight, Over
<1>8. OnlyApprovedIsDisclosed'
  BY <1>0 DEF TypeOK, OnlyApprovedIsDisclosed, ConsentRestorable, EvidenceOrigins
<1>9. Outstanding'
  BY <1>0 DEF TypeOK, Outstanding, UsageRestorable, TranscriptRestorable, InFlight, Over
<1>10. QED
  BY <1>1, <1>2, <1>3, <1>4, <1>5, <1>6, <1>7, <1>8, <1>9 DEF IInv, SnapshotRestores

(* Every operation of the engine, and doing nothing, keeps the invariant.  *)
LEMMA NextKeeps == IInv /\ [Next]_vars => IInv'
<1> SUFFICES ASSUME IInv, [Next]_vars PROVE IInv'
  OBVIOUS
<1>1. CASE Next
  BY <1>1, StartOverKeeps, GrantConsentKeeps, AddRedactedEvidenceKeeps, BeginTurnKeeps, CallToolKeeps, SubmitDraftKeeps, NeedMoreEvidenceKeeps, RecordFailureKeeps, SubmitToolResultKeeps, ContinueAfterMoreEvidenceKeeps, ApproveRetryKeeps, MarkInterruptedKeeps, RestartAfterInterruptionKeeps, CancelKeeps, RequestDraftRevisionKeeps DEF Next, Answer
<1>2. CASE UNCHANGED vars
  BY <1>2 DEF vars, engine, usage, history, IInv, TypeOK, SnapshotRestores, QuestionsRestorable, UsageRestorable,
     TranscriptRestorable, ConsentRestorable, ShapeRestorable, EveryCallIsAskedFor, OnlyApprovedIsDisclosed, Outstanding
<1>3. QED
  BY <1>1, <1>2

LEMMA Invariance == Spec => []IInv
  BY InitIInv, NextKeeps, PTL DEF Spec

(* The fields of the engine keep their types.                              *)
THEOREM TypeCorrect == Spec => []TypeOK
<1>1. IInv => TypeOK
  BY DEF IInv
<1>2. QED
  BY <1>1, Invariance, PTL

(* from_snapshot never refuses what the engine stored.                     *)
THEOREM SnapshotsRestore == Spec => []SnapshotRestores
<1>1. IInv => SnapshotRestores
  BY DEF IInv
<1>2. QED
  BY <1>1, Invariance, PTL

(* The engine never repeats a billable call by itself.                     *)
THEOREM CallsAreAskedFor == Spec => []EveryCallIsAskedFor
<1>1. IInv => EveryCallIsAskedFor
  BY DEF IInv
<1>2. QED
  BY <1>1, Invariance, PTL

(* A prompt holds documents of approved sites only.                        *)
THEOREM DisclosureIsApproved == Spec => []OnlyApprovedIsDisclosed
<1>1. IInv => OnlyApprovedIsDisclosed
  BY DEF IInv
<1>2. QED
  BY <1>1, Invariance, PTL

(* No call is billed and no document disclosed that the user did not       *)
(* decide on.                                                              *)
THEOREM TheUserDecides == Spec => []UserDecides
<1>1. IInv => UserDecides
  BY DEF IInv, UserDecides
<1>2. QED
  BY <1>1, Invariance, PTL

-----------------------------------------------------------------------------
(***************************************************************************)
(* The import of character cards                                           *)
(***************************************************************************)
Committing == {"journal", "store", "publish", "sync", "records", "restore"}

(* The staged files of an inspection are there.                            *)
Staged(i) == <<i, "snapshot">> \in staging /\ (i \notin Blocked => <<i, "assets">> \in staging)

(* An import is in one place: a ticket, an inspection under way, a listed  *)
(* inspection or a commit; and as long as a character may be made of it,   *)
(* none has been.                                                          *)
OwnStage(i) ==
    /\ i \notin picked => tickets[i] = "none" /\ work[i].pc = "none" /\ characters[i] = 0
    /\ i \in pending => i \in picked
    /\ tickets[i] = "live" => work[i].pc = "none"
    /\ tickets[i] = "reserved" <=> work[i].pc = "ticket"
    /\ tickets[i] # "none" => i \notin pending /\ characters[i] = 0 /\ <<i, "transport">> \in staging
    /\ work[i].pc \in {"snapshot", "prepare", "insert", "release"} => characters[i] = 0
    /\ work[i].pc \in {"prepare", "insert"} => <<i, "snapshot">> \in staging
    /\ work[i].pc = "insert" => Staged(i)
    /\ i \in pending => work[i].pc \in {"none", "release"} /\ Staged(i) /\ characters[i] = 0
    /\ work[i].pc \in Committing \/ (work[i].pc = "lookup" /\ ~work[i].done)
          => Staged(i) /\ characters[i] = 0
    /\ work[i].pc \notin {"lookup", "cleanup"} => ~work[i].done

(* A commit has journalled its files and made the ones it has passed       *)
(* durable.                                                                *)
OwnFiles(i) ==
    /\ work[i].pc \in {"store", "publish", "sync", "records"} => journal[i] # "none"
    /\ work[i].pc \in {"store", "publish", "sync"} =>
          /\ work[i].at \in 1..(Len(FilesOf[i]) + 1)
          /\ \A n \in 1..(work[i].at - 1) : cas[FilesOf[i][n]] = "durable"
    /\ work[i].pc \in {"publish", "sync"} => work[i].at <= Len(FilesOf[i])
    /\ work[i].pc = "sync" => cas[FilesOf[i][work[i].at]] # "absent"
    /\ work[i].pc = "records" => \A f \in Import!Contents(i) : cas[f] = "durable"

(* A process that is not up has nothing in memory.                         *)
MemoryIsGone ==
    phase # "up" => pending = {} /\ \A i \in Imports : tickets[i] = "none" /\ work[i] = Import!Idle

Stages == /\ Import!TypeOK /\ MemoryIsGone
          /\ \A i \in Imports : OwnStage(i)

Stored == /\ \A i \in Imports : OwnFiles(i)
          /\ Import!CharactersHaveTheirFiles /\ Import!NoFileForgotten /\ Import!RecoveryCleans

TicketsFit == Cardinality(Import!Held) <= Tickets

ImportInv == Stages /\ Stored /\ TicketsFit

-----------------------------------------------------------------------------
(* A command changes nothing of the other imports.                         *)
Apart(i) ==
    \A j \in Imports \ {i} :
        /\ tickets'[j] = tickets[j] /\ work'[j] = work[j] /\ characters'[j] = characters[j]
        /\ j \in pending' <=> j \in pending
        /\ j \in picked' <=> j \in picked
        /\ \A copy : <<j, copy>> \in staging' <=> <<j, copy>> \in staging

(* What a command does to its own import decides.                          *)
LEMMA StagesStep ==
    ASSUME Stages, NEW i \in Imports, Import!TypeOK', phase = "up", phase' = "up",
           Apart(i), OwnStage(i)'
    PROVE  Stages'
<1>1. ASSUME NEW j \in Imports, j # i PROVE OwnStage(j)'
  BY <1>1 DEF Stages, Apart, OwnStage, Staged
<1>2. QED
  BY <1>1 DEF Stages, MemoryIsGone

(* A command moves on.                                                     *)
LEMMA GotoWork ==
    ASSUME Import!TypeOK, NEW i \in Imports, NEW pc \in Import!Commands, Import!Goto(i, pc)
    PROVE  /\ work' \in [Imports -> [pc : Import!Commands, at : Nat, done : BOOLEAN]]
           /\ work'[i].pc = pc /\ work'[i].at = work[i].at /\ work'[i].done = work[i].done
           /\ \A j \in Imports : j # i => work'[j] = work[j]
BY DEF Import!Goto, Import!TypeOK

(* A command ends.                                                         *)
LEMMA EndWork ==
    ASSUME Import!TypeOK, NEW i \in Imports, Import!End(i)
    PROVE  /\ work' \in [Imports -> [pc : Import!Commands, at : Nat, done : BOOLEAN]]
           /\ work'[i].pc = "none" /\ ~work'[i].done
           /\ \A j \in Imports : j # i => work'[j] = work[j]
<1>1. PICK idle : idle = Import!Idle
  OBVIOUS
<1>2. idle \in [pc : Import!Commands, at : Nat, done : BOOLEAN] /\ idle.pc = "none" /\ ~idle.done
  BY <1>1 DEF Import!Idle, Import!Commands
<1>3. work' = [work EXCEPT ![i] = idle]
  BY <1>1 DEF Import!End
<1>4. QED
  BY <1>2, <1>3 DEF Import!TypeOK

-----------------------------------------------------------------------------
(* Each command keeps the import in its place.                             *)
LEMMA StagePick == ASSUME Stages, NEW i \in Imports, Import!PickImport(i) PROVE Stages'
<1>1. /\ phase = "up" /\ phase' = "up" /\ i \notin picked /\ picked' = picked \cup {i}
      /\ UNCHANGED <<pending, work, partials, cas, journal, rows, characters, crashes>>
  BY DEF Import!PickImport, Import!dbVars
<1>2. Import!TypeOK /\ OwnStage(i)
  BY DEF Stages
<1>3. CASE /\ tickets' = [tickets EXCEPT ![i] = "live"]
           /\ staging' = staging \cup {<<i, "transport">>}
  <2>1. Import!TypeOK'
    BY <1>1, <1>2, <1>3 DEF Import!TypeOK, Import!StagedParts
  <2>2. tickets'[i] = "live" /\ \A j \in Imports : j # i => tickets'[j] = tickets[j]
    BY <1>2, <1>3 DEF Import!TypeOK
  <2>3. Apart(i)
    BY <1>1, <1>3, <2>2 DEF Apart
  <2>4. OwnStage(i)'
    BY <1>1, <1>2, <1>3, <2>2 DEF OwnStage, Committing
  <2>5. QED
    BY <1>1, <2>1, <2>3, <2>4, StagesStep
<1>4. CASE UNCHANGED <<tickets, staging>>
  <2>1. Import!TypeOK'
    BY <1>1, <1>2, <1>4 DEF Import!TypeOK
  <2>2. Apart(i)
    BY <1>1, <1>4 DEF Apart
  <2>3. OwnStage(i)'
    BY <1>1, <1>2, <1>4 DEF OwnStage, Committing, Staged
  <2>4. QED
    BY <1>1, <2>1, <2>2, <2>3, StagesStep
<1>5. QED
  BY <1>3, <1>4 DEF Import!PickImport

(* A ticket is taken, reserved, given back or used up.                     *)
LEMMA StageTicket ==
    ASSUME Stages, NEW i \in Imports,
           Import!ReserveTicket(i) \/ Import!DiscardTicket(i) \/ Import!TakeTicket(i)
    PROVE  Stages'
<1>1. /\ phase = "up" /\ phase' = "up"
      /\ UNCHANGED <<picked, pending, partials, cas, journal, rows, characters, crashes>>
  BY DEF Import!ReserveTicket, Import!DiscardTicket, Import!TakeTicket, Import!At, Import!dbVars, Import!diskVars
<1>2. Import!TypeOK /\ OwnStage(i)
  BY DEF Stages
<1>3. PICK ticket \in {"none", "live", "reserved"}, pc \in {"none", "ticket", "snapshot"} :
          /\ tickets' = [tickets EXCEPT ![i] = ticket]
          /\ IF pc = "none" THEN Import!End(i) ELSE Import!Goto(i, pc)
          /\ pc = "none" <=> work[i].pc = "ticket"
          /\ pc # "none" => work[i].pc = "none" /\ tickets[i] = "live"
          /\ pc = "ticket" => ticket = "reserved"
          /\ pc = "snapshot" => ticket = "none"
          /\ pc = "none" => ticket # "reserved"
          /\ \/ UNCHANGED staging
             \/ ticket = "none" /\ staging' = staging \ {<<i, "transport">>}
  BY DEF Import!ReserveTicket, Import!DiscardTicket, Import!TakeTicket, Import!At, Import!diskVars
<1>4. /\ work' \in [Imports -> [pc : Import!Commands, at : Nat, done : BOOLEAN]]
      /\ work'[i].pc = pc /\ ~work'[i].done
      /\ \A j \in Imports : j # i => work'[j] = work[j]
  <2>1. CASE pc = "none"
    BY <1>2, <1>3, <2>1, EndWork
  <2>2. CASE pc # "none"
    <3>1. ~work[i].done
      BY <1>2, <1>3, <2>2 DEF OwnStage
    <3>2. pc \in Import!Commands
      BY DEF Import!Commands
    <3>3. Import!Goto(i, pc)
      BY <1>3, <2>2
    <3>4. QED
      BY <1>2, <3>1, <3>2, <3>3, GotoWork
  <2>3. QED
    BY <2>1, <2>2
<1>5. tickets'[i] = ticket /\ (\A j \in Imports : j # i => tickets'[j] = tickets[j])
  BY <1>2, <1>3 DEF Import!TypeOK
<1>6. Import!TypeOK'
  BY <1>1, <1>2, <1>3, <1>4 DEF Import!TypeOK
<1>7. Apart(i)
  BY <1>1, <1>3, <1>4, <1>5 DEF Apart
<1>8. OwnStage(i)'
  <2>1. tickets[i] # "none"
    BY <1>2, <1>3 DEF OwnStage
  <2>2. QED
    BY <1>1, <1>2, <1>3, <1>4, <1>5, <2>1 DEF OwnStage, Committing, Staged
<1>9. QED
  BY <1>1, <1>6, <1>7, <1>8, StagesStep

(* An inspection is made and listed.                                       *)
LEMMA StageInspect ==
    ASSUME Stages, NEW i \in Imports,
           Import!SnapshotSource(i) \/ Import!PrepareImport(i) \/ Import!InsertPending(i)
    PROVE  Stages'
<1>1. /\ phase = "up" /\ phase' = "up"
      /\ UNCHANGED <<picked, tickets, partials, cas, journal, rows, characters, crashes>>
  BY DEF Import!SnapshotSource, Import!PrepareImport, Import!InsertPending, Import!At, Import!dbVars, Import!diskVars
<1>2. Import!TypeOK /\ OwnStage(i)
  BY DEF Stages
<1>3. PICK pc \in {"prepare", "insert", "release"} :
          /\ Import!Goto(i, pc)
          /\ work[i].pc \in {"snapshot", "prepare", "insert"}
          /\ \A j \in Imports \ {i} : \A copy : <<j, copy>> \in staging' <=> <<j, copy>> \in staging
          /\ staging' \subseteq Imports \X Import!StagedParts
          /\ pc = "prepare" => <<i, "snapshot">> \in staging'
          /\ pc = "insert" => Staged(i)'
          /\ \/ pending' = pending
             \/ pending' = pending \cup {i} /\ work[i].pc = "insert" /\ pc = "release" /\ UNCHANGED staging
  <2>1. CASE Import!SnapshotSource(i)
    BY <1>2, <2>1 DEF Import!SnapshotSource, Import!At, Import!TryRemove, Import!TypeOK, Import!StagedParts
  <2>2. CASE Import!PrepareImport(i)
    <3>1. <<i, "snapshot">> \in staging /\ work[i].pc = "prepare"
      BY <1>2, <2>2 DEF Import!PrepareImport, Import!At, OwnStage
    <3>2. QED
      BY <1>2, <2>2, <3>1 DEF Import!PrepareImport, Import!TryRemove, Import!TypeOK, Import!StagedParts, Staged
  <2>3. CASE Import!InsertPending(i)
    BY <1>2, <2>3 DEF Import!InsertPending, Import!At, Import!TypeOK, Import!StagedParts, Import!diskVars
  <2>4. QED
    BY <2>1, <2>2, <2>3
<1>4. /\ work' \in [Imports -> [pc : Import!Commands, at : Nat, done : BOOLEAN]]
      /\ work'[i].pc = pc /\ ~work'[i].done
      /\ \A j \in Imports : j # i => work'[j] = work[j]
  <2>1. ~work[i].done
    BY <1>2, <1>3 DEF OwnStage
  <2>2. pc \in Import!Commands
    BY DEF Import!Commands
  <2>3. QED
    BY <1>2, <1>3, <2>1, <2>2, GotoWork
<1>5. i \notin pending /\ i \in picked /\ tickets[i] = "none" /\ characters[i] = 0
  BY <1>2, <1>3 DEF OwnStage, Import!TypeOK
<1>6. Import!TypeOK'
  BY <1>1, <1>2, <1>3, <1>4 DEF Import!TypeOK
<1>7. Apart(i)
  BY <1>1, <1>3, <1>4 DEF Apart
<1>8. OwnStage(i)'
  BY <1>1, <1>2, <1>3, <1>4, <1>5 DEF OwnStage, Committing, Staged
<1>9. QED
  BY <1>1, <1>6, <1>7, <1>8, StagesStep

(* The commands that end.                                                  *)
LEMMA StageEnds ==
    ASSUME Stages, NEW i \in Imports,
           Import!ReleaseTransport(i) \/ Import!RestorePendingImport(i) \/ Import!CleanupPendingImport(i)
    PROVE  Stages'
<1>1. /\ phase = "up" /\ phase' = "up" /\ Import!End(i)
      /\ UNCHANGED <<picked, tickets, partials, cas, journal, rows, characters, crashes>>
  BY DEF Import!ReleaseTransport, Import!RestorePendingImport, Import!CleanupPendingImport, Import!At,
         Import!dbVars, Import!diskVars
<1>2. Import!TypeOK /\ OwnStage(i)
  BY DEF Stages
<1>3. /\ work[i].pc \in {"release", "restore", "cleanup"}
      /\ \A j \in Imports \ {i} : \A copy : <<j, copy>> \in staging' <=> <<j, copy>> \in staging
      /\ staging' \subseteq staging
      /\ \/ pending' = pending \ {i}
         \/ /\ pending' \in {pending, pending \cup {i}}
            /\ i \in pending' => Staged(i)' /\ characters[i] = 0
  <2>1. CASE Import!ReleaseTransport(i)
    BY <1>2, <2>1 DEF Import!ReleaseTransport, Import!At, Import!TryRemove, Import!Owned, OwnStage, Staged
  <2>2. CASE Import!RestorePendingImport(i)
    BY <1>2, <2>2 DEF Import!RestorePendingImport, Import!At, Import!diskVars, OwnStage, Staged, Committing
  <2>3. CASE Import!CleanupPendingImport(i)
    <3>1. i \notin pending
      BY <1>2, <2>3 DEF Import!CleanupPendingImport, Import!At, OwnStage
    <3>2. QED
      BY <2>3, <3>1 DEF Import!CleanupPendingImport, Import!At, Import!TryRemove, Import!Owned
  <2>4. QED
    BY <2>1, <2>2, <2>3
<1>4. /\ work' \in [Imports -> [pc : Import!Commands, at : Nat, done : BOOLEAN]]
      /\ work'[i].pc = "none" /\ ~work'[i].done
      /\ \A j \in Imports : j # i => work'[j] = work[j]
  BY <1>1, <1>2, EndWork
<1>5. i \in picked /\ tickets[i] = "none"
  BY <1>2, <1>3 DEF OwnStage, Import!TypeOK
<1>6. Import!TypeOK'
  BY <1>1, <1>2, <1>3, <1>4 DEF Import!TypeOK
<1>7. Apart(i)
  BY <1>1, <1>3, <1>4 DEF Apart
<1>8. OwnStage(i)'
  BY <1>1, <1>2, <1>3, <1>4, <1>5 DEF OwnStage, Committing, Staged
<1>9. QED
  BY <1>1, <1>6, <1>7, <1>8, StagesStep

(* A listed inspection is claimed by one command.                          *)
LEMMA StageClaim ==
    ASSUME Stages, NEW i \in Imports, Import!CommitImport(i) \/ Import!DiscardImport(i)
    PROVE  Stages'
<1>1. /\ phase = "up" /\ phase' = "up" /\ i \in pending /\ pending' = pending \ {i} /\ work[i].pc = "none"
      /\ UNCHANGED <<picked, tickets, staging, partials, cas, journal, rows, characters, crashes>>
  BY DEF Import!CommitImport, Import!DiscardImport, Import!At, Import!dbVars, Import!diskVars
<1>2. Import!TypeOK /\ OwnStage(i)
  BY DEF Stages
<1>3. PICK pc \in {"restore", "journal", "cleanup"} : Import!Goto(i, pc)
  BY DEF Import!CommitImport, Import!DiscardImport
<1>4. /\ work' \in [Imports -> [pc : Import!Commands, at : Nat, done : BOOLEAN]]
      /\ work'[i].pc = pc /\ ~work'[i].done
      /\ \A j \in Imports : j # i => work'[j] = work[j]
  <2>1. ~work[i].done
    BY <1>1, <1>2 DEF OwnStage
  <2>2. pc \in Import!Commands
    BY DEF Import!Commands
  <2>3. QED
    BY <1>2, <1>3, <2>1, <2>2, GotoWork
<1>5. i \in picked /\ tickets[i] = "none" /\ characters[i] = 0 /\ Staged(i)
  BY <1>1, <1>2 DEF OwnStage, Import!TypeOK
<1>6. Import!TypeOK'
  BY <1>1, <1>2, <1>4 DEF Import!TypeOK
<1>7. Apart(i)
  BY <1>1, <1>4 DEF Apart
<1>8. OwnStage(i)'
  BY <1>1, <1>2, <1>4, <1>5 DEF OwnStage, Committing, Staged
<1>9. QED
  BY <1>1, <1>6, <1>7, <1>8, StagesStep

(* The files of an import.                                                 *)
LEMMA FileFacts ==
    ASSUME NEW i \in Imports
    PROVE  /\ FilesOf[i] \in Seq(Files) /\ Len(FilesOf[i]) \in Nat /\ DOMAIN FilesOf[i] = 1..Len(FilesOf[i])
           /\ \A n \in 1..Len(FilesOf[i]) : FilesOf[i][n] \in Files /\ FilesOf[i][n] \in Import!Contents(i)
           /\ Import!Contents(i) = {FilesOf[i][n] : n \in 1..Len(FilesOf[i])}
           /\ Import!Contents(i) \subseteq Files
<1>1. FilesOf[i] \in Seq(Files)
  BY ImportAssumption
<1>2. Len(FilesOf[i]) \in Nat /\ DOMAIN FilesOf[i] = 1..Len(FilesOf[i])
      /\ \A n \in 1..Len(FilesOf[i]) : FilesOf[i][n] \in Files
  BY <1>1
<1>3. QED
  BY <1>1, <1>2 DEF Import!Contents

(* A step of a commit keeps the import in its place.                       *)
LEMMA StageCommit ==
    ASSUME Stages, NEW i \in Imports, phase = "up", UNCHANGED <<picked, tickets, pending, staging, phase>>,
           Import!TypeOK', \A j \in Imports : j # i => work'[j] = work[j] /\ characters'[j] = characters[j],
           work[i].pc \in Committing \cup {"lookup"},
           \/ work'[i].pc = "none" /\ ~work'[i].done
           \/ work'[i].pc = "cleanup"
           \/ work'[i].pc = "lookup" /\ work'[i].done
           \/ /\ work'[i].pc \in Committing \cup {"lookup"} /\ characters'[i] = characters[i]
              /\ ~work'[i].done /\ ~work[i].done
    PROVE  Stages'
<1>1. Import!TypeOK /\ OwnStage(i)
  BY DEF Stages
<1>2. i \in picked /\ tickets[i] = "none" /\ i \notin pending
  BY <1>1 DEF OwnStage, Import!TypeOK, Committing
<1>3. Apart(i)
  BY DEF Apart
<1>4. OwnStage(i)'
  BY <1>1, <1>2 DEF OwnStage, Committing, Staged
<1>5. QED
  BY <1>3, <1>4, StagesStep

(* Files are only added while the process is up, and what is durable stays *)
(* so: the commits that share a file do not disturb one another.           *)
LEMMA StoredStep ==
    ASSUME Stages, Stored, NEW i \in Imports, phase' = "up",
           \A f \in Files : (cas[f] = "durable" => cas'[f] = "durable") /\ (cas[f] # "absent" => cas'[f] # "absent"),
           \A j \in Imports : j # i => work'[j] = work[j] /\ journal'[j] = journal[j],
           OwnFiles(i)', Import!CharactersHaveTheirFiles', Import!NoFileForgotten'
    PROVE  Stored'
<1>1. ASSUME NEW j \in Imports, j # i PROVE OwnFiles(j)'
  <2>1. /\ work'[j] = work[j] /\ journal'[j] = journal[j] /\ OwnFiles(j)
        /\ work[j].at \in Nat
    BY <1>1 DEF Stored, Stages, Import!TypeOK
  <2>2. (Import!Contents(j))' = Import!Contents(j)
    BY DEF Import!Contents
  <2>3. QED
    BY <2>1, <2>2, FileFacts DEF OwnFiles
<1>2. Import!RecoveryCleans'
  BY DEF Import!RecoveryCleans
<1>3. QED
  BY <1>1, <1>2 DEF Stored

(* A command that commits nothing leaves the store and its records alone.  *)
LEMMA StoredKept ==
    ASSUME Stages, Stored, NEW i \in Imports, phase = "up", UNCHANGED <<cas, journal, rows, characters, phase>>,
           \A j \in Imports : j # i => work'[j] = work[j],
           \/ work'[i].pc \notin {"store", "publish", "sync", "records"}
           \/ work'[i] = work[i]
    PROVE  Stored'
<1>1. OwnFiles(i)'
  BY DEF Stored, OwnFiles, Import!Contents
<1>2. Import!CharactersHaveTheirFiles' /\ Import!NoFileForgotten'
  BY DEF Stored, Import!CharactersHaveTheirFiles, Import!NoFileForgotten, Import!Contents, Import!Stored
<1>3. QED
  BY <1>1, <1>2, StoredStep

-----------------------------------------------------------------------------
(* The steps of a commit, each with all it must keep.                      *)
LEMMA KeepJournal ==
    ASSUME Stages, Stored, NEW i \in Imports, Import!CreateImportJournal(i) PROVE Stages' /\ Stored'
<1>1. /\ phase = "up" /\ work[i].pc = "journal" /\ journal' = [journal EXCEPT ![i] = "preparing"]
      /\ work' = [work EXCEPT ![i].pc = "store", ![i].at = 1]
      /\ UNCHANGED <<picked, tickets, pending, staging, partials, cas, rows, characters, phase, crashes>>
  BY DEF Import!CreateImportJournal, Import!At, Import!diskVars
<1>2. Import!TypeOK /\ ~work[i].done
  BY <1>1 DEF Stages, OwnStage
<1>3. /\ work' \in [Imports -> [pc : Import!Commands, at : Nat, done : BOOLEAN]]
      /\ \A j \in Imports : j # i => work'[j] = work[j]
      /\ work'[i].pc = "store" /\ work'[i].at = 1 /\ work'[i].done = work[i].done
  BY <1>1, <1>2 DEF Import!TypeOK, Import!Commands
<1>4. Import!TypeOK'
  BY <1>1, <1>2, <1>3 DEF Import!TypeOK
<1>5. Stages'
  BY <1>1, <1>2, <1>3, <1>4, StageCommit DEF Committing
<1>6. journal'[i] = "preparing" /\ \A j \in Imports : j # i => journal'[j] = journal[j]
  BY <1>1, <1>2 DEF Import!TypeOK
<1>7. OwnFiles(i)'
  BY <1>3, <1>6, FileFacts DEF OwnFiles
<1>8. Import!CharactersHaveTheirFiles'
  BY <1>1 DEF Stored, Import!CharactersHaveTheirFiles, Import!Contents
<1>9. Import!NoFileForgotten'
  BY <1>1, <1>6 DEF Stored, Import!NoFileForgotten, Import!Contents, Import!Stored
<1>10. QED
  BY <1>1, <1>3, <1>5, <1>6, <1>7, <1>8, <1>9, StoredStep

(* A file that is there is synced, whoever put it there.                   *)
LEMMA KeepAdvance ==
    ASSUME Stages, Stored, NEW i \in Imports, Import!FileThere(i) \/ Import!SyncFile(i)
    PROVE  Stages' /\ Stored'
<1>1. /\ phase = "up" /\ work[i].pc \in {"store", "sync"}
      /\ cas' = [cas EXCEPT ![FilesOf[i][work[i].at]] = "durable"]
      /\ \/ work' = [work EXCEPT ![i].at = @ + 1] /\ work[i].pc = "store"
         \/ work' = [work EXCEPT ![i].pc = "store", ![i].at = @ + 1]
      /\ UNCHANGED <<picked, tickets, pending, staging, partials, journal, rows, characters, phase, crashes>>
      /\ work[i].pc = "store" => work[i].at \in DOMAIN FilesOf[i] /\ cas[FilesOf[i][work[i].at]] # "absent"
  BY DEF Import!FileThere, Import!SyncFile, Import!At, Import!dbVars, Import!Current, Import!Stored
<1>2. Import!TypeOK /\ ~work[i].done /\ work[i].at \in Nat
  BY <1>1 DEF Stages, OwnStage, Import!TypeOK
<1>3. /\ work' \in [Imports -> [pc : Import!Commands, at : Nat, done : BOOLEAN]]
      /\ \A j \in Imports : j # i => work'[j] = work[j]
      /\ work'[i].pc = "store" /\ work'[i].at = work[i].at + 1 /\ work'[i].done = work[i].done
  BY <1>1, <1>2 DEF Import!TypeOK, Import!Commands
<1>4. PICK f \in Files : /\ f = FilesOf[i][work[i].at] /\ cas[f] # "absent"
                         /\ work[i].at \in 1..Len(FilesOf[i])
  BY <1>1, <1>2, FileFacts DEF Stored, OwnFiles
<1>5. cas'[f] = "durable" /\ (\A g \in Files : g # f => cas'[g] = cas[g]) /\ cas' \in [Files -> {"absent", "linked", "durable"}]
  BY <1>1, <1>2, <1>4 DEF Import!TypeOK
<1>6. Import!TypeOK'
  BY <1>1, <1>2, <1>3, <1>5 DEF Import!TypeOK
<1>7. Stages'
  BY <1>1, <1>2, <1>3, <1>6, StageCommit DEF Committing
<1>8. OwnFiles(i)'
  <2>1. work'[i].at \in 1..(Len(FilesOf[i]) + 1)
    BY <1>3, <1>4, FileFacts
  <2>2. ASSUME NEW n \in 1..(work'[i].at - 1) PROVE cas'[FilesOf[i][n]] = "durable"
    <3>1. n \in 1..(work[i].at - 1) \/ n = work[i].at
      BY <1>2, <1>3, <1>4, FileFacts
    <3>2. n \in 1..Len(FilesOf[i]) /\ FilesOf[i][n] \in Files
      BY <1>4, <3>1, FileFacts
    <3>3. n \in 1..(work[i].at - 1) => cas[FilesOf[i][n]] = "durable"
      BY <1>1 DEF Stored, OwnFiles
    <3>4. QED
      BY <1>4, <1>5, <3>1, <3>2, <3>3
  <2>3. journal'[i] # "none"
    BY <1>1 DEF Stored, OwnFiles
  <2>4. QED
    BY <1>3, <2>1, <2>2, <2>3 DEF OwnFiles
<1>9. Import!CharactersHaveTheirFiles'
  BY <1>1, <1>2, <1>5 DEF Stored, Import!CharactersHaveTheirFiles, Import!Contents, Import!TypeOK
<1>10. Import!NoFileForgotten'
  BY <1>1, <1>4, <1>5 DEF Stored, Import!NoFileForgotten, Import!Contents, Import!Stored
<1>11. QED
  BY <1>1, <1>3, <1>4, <1>5, <1>7, <1>8, <1>9, <1>10, StoredStep

(* A missing file is copied under a temporary name.                        *)
LEMMA KeepCopy ==
    ASSUME Stages, Stored, NEW i \in Imports, Import!CopyFile(i) PROVE Stages' /\ Stored'
<1>1. /\ phase = "up" /\ work[i].pc = "store" /\ Import!Goto(i, "publish")
      /\ partials' = partials \cup {<<i, FilesOf[i][work[i].at]>>}
      /\ UNCHANGED <<picked, tickets, pending, staging, cas, journal, rows, characters, phase, crashes>>
      /\ work[i].at \in DOMAIN FilesOf[i]
  BY DEF Import!CopyFile, Import!At, Import!dbVars, Import!Current
<1>2. Import!TypeOK /\ ~work[i].done /\ work[i].at \in Nat
  BY <1>1 DEF Stages, OwnStage, Import!TypeOK
<1>3. /\ work' \in [Imports -> [pc : Import!Commands, at : Nat, done : BOOLEAN]]
      /\ work'[i].pc = "publish" /\ work'[i].at = work[i].at /\ work'[i].done = work[i].done
      /\ \A j \in Imports : j # i => work'[j] = work[j]
  BY <1>1, <1>2, GotoWork DEF Import!Commands
<1>4. FilesOf[i][work[i].at] \in Files
  BY <1>1, FileFacts
<1>5. Import!TypeOK'
  BY <1>1, <1>2, <1>3, <1>4 DEF Import!TypeOK
<1>6. Stages'
  BY <1>1, <1>2, <1>3, <1>5, StageCommit DEF Committing
<1>7. OwnFiles(i)'
  BY <1>1, <1>2, <1>3, FileFacts DEF Stored, OwnFiles
<1>8. Import!CharactersHaveTheirFiles'
  BY <1>1 DEF Stored, Import!CharactersHaveTheirFiles, Import!Contents
<1>9. Import!NoFileForgotten'
  BY <1>1 DEF Stored, Import!NoFileForgotten, Import!Contents, Import!Stored
<1>10. QED
  BY <1>1, <1>3, <1>6, <1>7, <1>8, <1>9, StoredStep

(* A published file is one the journal names.                              *)
LEMMA KeepPublish ==
    ASSUME Stages, Stored, NEW i \in Imports, Import!PublishFile(i) PROVE Stages' /\ Stored'
<1>1. /\ phase = "up" /\ work[i].pc = "publish" /\ Import!Goto(i, "sync")
      /\ cas' = [cas EXCEPT ![FilesOf[i][work[i].at]] = IF @ = "absent" THEN "linked" ELSE @]
      /\ partials' \subseteq partials
      /\ UNCHANGED <<picked, tickets, pending, staging, journal, rows, characters, phase, crashes>>
  BY DEF Import!PublishFile, Import!At, Import!dbVars, Import!Current
<1>2. Import!TypeOK /\ ~work[i].done /\ work[i].at \in Nat
  BY <1>1 DEF Stages, OwnStage, Import!TypeOK
<1>3. /\ work' \in [Imports -> [pc : Import!Commands, at : Nat, done : BOOLEAN]]
      /\ work'[i].pc = "sync" /\ work'[i].at = work[i].at /\ work'[i].done = work[i].done
      /\ \A j \in Imports : j # i => work'[j] = work[j]
  BY <1>1, <1>2, GotoWork DEF Import!Commands
<1>4. PICK f \in Files : /\ f = FilesOf[i][work[i].at] /\ f \in Import!Contents(i)
                         /\ work[i].at \in 1..Len(FilesOf[i])
  BY <1>1, <1>2, FileFacts DEF Stored, OwnFiles
<1>5. /\ cas'[f] # "absent" /\ (cas[f] = "durable" => cas'[f] = "durable")
      /\ (\A g \in Files : g # f => cas'[g] = cas[g]) /\ cas' \in [Files -> {"absent", "linked", "durable"}]
  BY <1>1, <1>2, <1>4 DEF Import!TypeOK
<1>6. Import!TypeOK'
  BY <1>1, <1>2, <1>3, <1>5 DEF Import!TypeOK
<1>7. Stages'
  BY <1>1, <1>2, <1>3, <1>6, StageCommit DEF Committing
<1>8. OwnFiles(i)'
  <2>1. /\ journal'[i] # "none" /\ work'[i].at \in 1..(Len(FilesOf[i]) + 1)
        /\ work'[i].at <= Len(FilesOf[i])
    BY <1>1, <1>3, <1>4 DEF Stored, OwnFiles
  <2>2. ASSUME NEW n \in 1..(work'[i].at - 1) PROVE cas'[FilesOf[i][n]] = "durable"
    <3>1. n \in 1..Len(FilesOf[i]) /\ FilesOf[i][n] \in Files
      BY <1>2, <1>3, <1>4, FileFacts
    <3>2. cas[FilesOf[i][n]] = "durable"
      BY <1>1, <1>3 DEF Stored, OwnFiles
    <3>3. QED
      BY <1>5, <3>1, <3>2
  <2>3. QED
    BY <1>3, <1>4, <1>5, <2>1, <2>2 DEF OwnFiles
<1>9. Import!CharactersHaveTheirFiles'
  BY <1>1, <1>2, <1>5 DEF Stored, Import!CharactersHaveTheirFiles, Import!Contents, Import!TypeOK
<1>10. Import!NoFileForgotten'
  <2>1. journal[i] # "none"
    BY <1>1 DEF Stored, OwnFiles
  <2>2. QED
    BY <1>1, <1>4, <1>5, <2>1 DEF Stored, Import!NoFileForgotten, Import!Contents, Import!Stored
<1>11. QED
  BY <1>1, <1>3, <1>4, <1>5, <1>7, <1>8, <1>9, <1>10, StoredStep

(* When all files are passed, all are durable.                             *)
LEMMA KeepMark ==
    ASSUME Stages, Stored, NEW i \in Imports, Import!MarkFileStored(i) PROVE Stages' /\ Stored'
<1>1. /\ phase = "up" /\ work[i].pc = "store" /\ Import!Goto(i, "records")
      /\ journal' = [journal EXCEPT ![i] = "file_stored"]
      /\ UNCHANGED <<picked, tickets, pending, staging, partials, cas, rows, characters, phase, crashes>>
      /\ work[i].at \notin DOMAIN FilesOf[i]
  BY DEF Import!MarkFileStored, Import!At, Import!diskVars
<1>2. Import!TypeOK /\ ~work[i].done /\ work[i].at \in Nat
  BY <1>1 DEF Stages, OwnStage, Import!TypeOK
<1>3. /\ work' \in [Imports -> [pc : Import!Commands, at : Nat, done : BOOLEAN]]
      /\ work'[i].pc = "records" /\ work'[i].done = work[i].done
      /\ \A j \in Imports : j # i => work'[j] = work[j]
  BY <1>1, <1>2, GotoWork DEF Import!Commands
<1>4. journal'[i] = "file_stored" /\ \A j \in Imports : j # i => journal'[j] = journal[j]
  BY <1>1, <1>2 DEF Import!TypeOK
<1>5. Import!TypeOK'
  BY <1>1, <1>2, <1>3 DEF Import!TypeOK
<1>6. Stages'
  BY <1>1, <1>2, <1>3, <1>5, StageCommit DEF Committing
<1>7. OwnFiles(i)'
  <2>1. /\ work[i].at \in 1..(Len(FilesOf[i]) + 1)
        /\ \A n \in 1..(work[i].at - 1) : cas[FilesOf[i][n]] = "durable"
    BY <1>1 DEF Stored, OwnFiles
  <2>2. work[i].at = Len(FilesOf[i]) + 1
    BY <1>1, <2>1, FileFacts
  <2>3. \A n \in 1..Len(FilesOf[i]) : cas[FilesOf[i][n]] = "durable"
    BY <2>1, <2>2, FileFacts
  <2>4. \A f \in Import!Contents(i) : cas'[f] = "durable"
    BY <1>1, <2>3, FileFacts
  <2>5. (Import!Contents(i))' = Import!Contents(i)
    BY DEF Import!Contents
  <2>6. QED
    BY <1>3, <1>4, <2>4, <2>5 DEF OwnFiles
<1>8. Import!CharactersHaveTheirFiles'
  BY <1>1 DEF Stored, Import!CharactersHaveTheirFiles, Import!Contents
<1>9. Import!NoFileForgotten'
  BY <1>1, <1>4 DEF Stored, Import!NoFileForgotten, Import!Contents, Import!Stored
<1>10. QED
  BY <1>1, <1>3, <1>4, <1>6, <1>7, <1>8, <1>9, StoredStep

(* The records refer to durable files only.                                *)
LEMMA KeepRecords ==
    ASSUME Stages, Stored, NEW i \in Imports, Import!CommitImportRecords(i) PROVE Stages' /\ Stored'
<1>1. /\ phase = "up" /\ work[i].pc = "records" /\ rows' = rows \cup Import!Contents(i)
      /\ characters' = [characters EXCEPT ![i] = @ + 1]
      /\ journal' = [journal EXCEPT ![i] = "none"]
      /\ UNCHANGED <<picked, tickets, pending, staging, partials, cas, phase, crashes>>
  BY DEF Import!CommitImportRecords, Import!At, Import!diskVars
<1>2. PICK pc \in {"cleanup", "lookup"} : work' = [work EXCEPT ![i].pc = pc, ![i].done = TRUE]
  BY DEF Import!CommitImportRecords
<1>3. Import!TypeOK /\ characters[i] = 0
  BY <1>1 DEF Stages, OwnStage, Committing
<1>4. /\ work' \in [Imports -> [pc : Import!Commands, at : Nat, done : BOOLEAN]]
      /\ work'[i].pc = pc /\ work'[i].done
      /\ \A j \in Imports : j # i => work'[j] = work[j]
  BY <1>2, <1>3 DEF Import!TypeOK, Import!Commands
<1>5. /\ characters'[i] = 1 /\ (\A j \in Imports : j # i => characters'[j] = characters[j])
      /\ characters' \in [Imports -> 0..1]
  BY <1>1, <1>3 DEF Import!TypeOK
<1>6. journal'[i] = "none" /\ (\A j \in Imports : j # i => journal'[j] = journal[j])
  BY <1>1, <1>3 DEF Import!TypeOK
<1>7. Import!TypeOK'
  BY <1>1, <1>3, <1>4, <1>5, FileFacts DEF Import!TypeOK
<1>8. Stages'
  BY <1>1, <1>4, <1>5, <1>7, StageCommit DEF Committing
<1>9. \A f \in Import!Contents(i) : cas[f] = "durable"
  BY <1>1 DEF Stored, OwnFiles
<1>10. OwnFiles(i)'
  BY <1>4 DEF OwnFiles
<1>11. Import!CharactersHaveTheirFiles'
  BY <1>1, <1>5, <1>9 DEF Stored, Import!CharactersHaveTheirFiles, Import!Contents
<1>12. Import!NoFileForgotten'
  BY <1>1, <1>6 DEF Stored, Import!NoFileForgotten, Import!Contents, Import!Stored
<1>13. QED
  BY <1>1, <1>4, <1>6, <1>8, <1>10, <1>11, <1>12, StoredStep

(* A commit that failed is looked up.                                      *)
LEMMA KeepLookup ==
    ASSUME Stages, Stored, NEW i \in Imports, Import!CommitFails(i) \/ Import!LookUpCharacter(i)
    PROVE  Stages' /\ Stored'
<1>1. /\ phase = "up" /\ work[i].pc \in Committing \cup {"lookup"} /\ partials' \subseteq partials
      /\ UNCHANGED <<picked, tickets, pending, staging, cas, journal, rows, characters, phase, crashes>>
  BY DEF Import!CommitFails, Import!LookUpCharacter, Import!At, Import!diskVars, Import!dbVars, Committing
<1>2. Import!TypeOK /\ (work[i].pc # "lookup" => ~work[i].done)
  BY <1>1 DEF Stages, OwnStage, Committing
<1>3. \/ Import!End(i)
      \/ Import!Goto(i, "cleanup")
      \/ Import!Goto(i, "restore") /\ ~work[i].done
      \/ Import!Goto(i, "lookup") /\ ~work[i].done
  BY <1>2 DEF Import!CommitFails, Import!LookUpCharacter
<1>4. /\ work' \in [Imports -> [pc : Import!Commands, at : Nat, done : BOOLEAN]]
      /\ \A j \in Imports : j # i => work'[j] = work[j]
      /\ \/ work'[i].pc = "none" /\ ~work'[i].done
         \/ work'[i].pc = "cleanup"
         \/ work'[i].pc \in {"restore", "lookup"} /\ ~work'[i].done /\ ~work[i].done
  BY <1>2, <1>3, EndWork, GotoWork DEF Import!Commands
<1>5. Import!TypeOK'
  BY <1>1, <1>2, <1>4 DEF Import!TypeOK
<1>6. Stages'
  BY <1>1, <1>4, <1>5, StageCommit DEF Committing
<1>7. Stored'
  BY <1>1, <1>4, StoredKept
<1>8. QED
  BY <1>6, <1>7

(* The commands before and after a commit keep all of it.                  *)
LEMMA KeepOther ==
    ASSUME Stages, Stored, NEW i \in Imports,
           \/ Import!PickImport(i)
           \/ Import!ReserveTicket(i) \/ Import!DiscardTicket(i) \/ Import!TakeTicket(i)
           \/ Import!SnapshotSource(i) \/ Import!PrepareImport(i) \/ Import!InsertPending(i)
           \/ Import!ReleaseTransport(i) \/ Import!RestorePendingImport(i) \/ Import!CleanupPendingImport(i)
           \/ Import!CommitImport(i) \/ Import!DiscardImport(i)
    PROVE  Stages' /\ Stored'
<1>1. Stages'
  BY StagePick, StageTicket, StageInspect, StageEnds, StageClaim
<1>2. phase = "up" /\ UNCHANGED <<cas, journal, rows, characters, phase>>
  BY DEF Import!PickImport, Import!ReserveTicket, Import!DiscardTicket, Import!TakeTicket,
         Import!SnapshotSource, Import!PrepareImport, Import!InsertPending, Import!ReleaseTransport,
         Import!RestorePendingImport, Import!CleanupPendingImport, Import!CommitImport,
         Import!DiscardImport, Import!At, Import!dbVars, Import!diskVars
<1>3. \/ UNCHANGED work
      \/ Import!End(i)
      \/ \E pc \in {"ticket", "snapshot", "prepare", "insert", "release", "restore", "journal", "cleanup"} :
            Import!Goto(i, pc)
  BY DEF Import!PickImport, Import!ReserveTicket, Import!DiscardTicket, Import!TakeTicket,
         Import!SnapshotSource, Import!PrepareImport, Import!InsertPending, Import!ReleaseTransport,
         Import!RestorePendingImport, Import!CleanupPendingImport, Import!CommitImport,
         Import!DiscardImport
<1>4. Import!TypeOK
  BY DEF Stages
<1>5. CASE UNCHANGED work
  BY <1>1, <1>2, <1>5, StoredKept
<1>6. CASE Import!End(i)
  BY <1>1, <1>2, <1>4, <1>6, EndWork, StoredKept
<1>7. ASSUME NEW pc \in {"ticket", "snapshot", "prepare", "insert", "release", "restore", "journal", "cleanup"},
             Import!Goto(i, pc)
      PROVE  Stages' /\ Stored'
  <2>1. pc \in Import!Commands
    BY DEF Import!Commands
  <2>2. work'[i].pc = pc /\ \A j \in Imports : j # i => work'[j] = work[j]
    BY <1>4, <1>7, <2>1, GotoWork
  <2>3. QED
    BY <1>1, <1>2, <2>2, StoredKept
<1>8. QED
  BY <1>3, <1>5, <1>6, <1>7

-----------------------------------------------------------------------------
(* A process that dies forgets what it held in memory.                     *)
LEMMA StageGone ==
    ASSUME Stages, Import!TypeOK', phase' # "up", UNCHANGED <<picked, characters>>, pending' = {},
           \A i \in Imports : tickets'[i] = "none" /\ work'[i] = Import!Idle
    PROVE  Stages'
<1>1. PICK idle : idle = Import!Idle
  OBVIOUS
<1>2. idle.pc = "none" /\ ~idle.done
  BY <1>1 DEF Import!Idle
<1>3. ASSUME NEW i \in Imports PROVE OwnStage(i)'
  BY <1>1, <1>2 DEF Stages, OwnStage, Committing
<1>4. MemoryIsGone'
  <2>1. Import!Idle' = Import!Idle
    BY DEF Import!Idle
  <2>2. QED
    BY <2>1 DEF MemoryIsGone
<1>5. QED
  BY <1>3, <1>4 DEF Stages

(* No commit is under way in a process that is not up.                     *)
LEMMA FilesGone ==
    ASSUME \A i \in Imports : work'[i] = Import!Idle
    PROVE  \A i \in Imports : OwnFiles(i)'
<1>1. PICK idle : idle = Import!Idle
  OBVIOUS
<1>2. idle.pc = "none"
  BY <1>1 DEF Import!Idle
<1>3. QED
  BY <1>1, <1>2 DEF OwnFiles

(* A crash loses no file a record refers to: those are durable.            *)
LEMMA KeepCrash == ASSUME Stages, Stored, Import!Crash PROVE Stages' /\ Stored'
<1>1. /\ crashes < MaxCrashes /\ crashes' = crashes + 1 /\ phase' = "jobs" /\ pending' = {}
      /\ tickets' = [i \in Imports |-> "none"] /\ work' = [i \in Imports |-> Import!Idle]
      /\ UNCHANGED <<picked, staging, partials, journal, rows, characters>>
  BY DEF Import!Crash, Import!dbVars
<1>2. Import!TypeOK
  BY DEF Stages
<1>3. PICK lost \in SUBSET {f \in Files : cas[f] = "linked"} :
          cas' = [f \in Files |-> IF f \in lost THEN "absent" ELSE cas[f]]
  BY DEF Import!Crash
<1>4. /\ cas' \in [Files -> {"absent", "linked", "durable"}]
      /\ \A f \in Files : cas[f] = "durable" => cas'[f] = "durable"
      /\ \A f \in Files : cas'[f] # "absent" => cas[f] # "absent"
  BY <1>2, <1>3 DEF Import!TypeOK
<1>5. PICK idle : idle = Import!Idle
  OBVIOUS
<1>6. idle \in [pc : Import!Commands, at : Nat, done : BOOLEAN]
  BY <1>5 DEF Import!Idle, Import!Commands
<1>7. Import!TypeOK'
  <2>1. work' \in [Imports -> [pc : Import!Commands, at : Nat, done : BOOLEAN]]
    BY <1>1, <1>5, <1>6
  <2>2. crashes' \in 0..MaxCrashes
    BY <1>1, <1>2, ImportAssumption DEF Import!TypeOK
  <2>3. QED
    BY <1>1, <1>2, <1>4, <2>1, <2>2 DEF Import!TypeOK
<1>8. \A i \in Imports : tickets'[i] = "none" /\ work'[i] = Import!Idle
  BY <1>1
<1>9. Stages'
  BY <1>1, <1>7, <1>8, StageGone
<1>10. Import!CharactersHaveTheirFiles'
  BY <1>1, <1>2, <1>4 DEF Stored, Import!CharactersHaveTheirFiles, Import!Contents, Import!TypeOK
<1>11. Import!NoFileForgotten'
  BY <1>1, <1>4 DEF Stored, Import!NoFileForgotten, Import!Contents, Import!Stored
<1>12. Import!RecoveryCleans'
  BY <1>1 DEF Import!RecoveryCleans
<1>13. QED
  BY <1>8, <1>9, <1>10, <1>11, <1>12, FilesGone DEF Stored

(* Recovery removes no file a record refers to, and forgets the journal    *)
(* only when every file has its record.                                    *)
LEMMA KeepRecovery == ASSUME Stages, Stored, Import!Recovery PROVE Stages' /\ Stored'
<1>1. Import!TypeOK /\ MemoryIsGone
  BY DEF Stages
<1>2. /\ UNCHANGED <<picked, tickets, pending, work, rows, characters, crashes>>
      /\ phase \in {"jobs", "partials", "staging"} /\ phase' \in {"jobs", "partials", "staging", "up"}
      /\ staging' \subseteq staging /\ partials' \subseteq partials
  BY DEF Import!Recovery, Import!RemoveUnreferencedCas, Import!ApplyRecovery, Import!RemovePartialFiles,
         Import!RemoveAbandonedStagingFiles, Import!memVars, Import!dbVars
<1>3. pending' = {} /\ \A i \in Imports : tickets'[i] = "none" /\ work'[i] = Import!Idle
  BY <1>1, <1>2 DEF MemoryIsGone
<1>4. /\ Import!TypeOK' /\ Import!CharactersHaveTheirFiles' /\ Import!NoFileForgotten'
      /\ Import!RecoveryCleans'
  <2>1. CASE \E f \in Files : Import!RemoveUnreferencedCas(f)
    <3>1. PICK f \in Files : Import!RemoveUnreferencedCas(f)
      BY <2>1
    <3>2. /\ phase = "jobs" /\ f \notin rows /\ cas' = [cas EXCEPT ![f] = "absent"]
          /\ UNCHANGED <<journal, staging, partials, phase>>
      BY <3>1 DEF Import!RemoveUnreferencedCas, Import!Unreferenced, Import!dbVars
    <3>3. /\ cas' \in [Files -> {"absent", "linked", "durable"}] /\ cas'[f] = "absent"
          /\ \A g \in Files : g # f => cas'[g] = cas[g]
      BY <1>1, <3>2 DEF Import!TypeOK
    <3>4. Import!TypeOK'
      BY <1>1, <1>2, <3>2, <3>3 DEF Import!TypeOK
    <3>5. Import!CharactersHaveTheirFiles'
      BY <1>1, <1>2, <3>2, <3>3 DEF Stored, Import!CharactersHaveTheirFiles, Import!Contents, Import!TypeOK
    <3>6. Import!NoFileForgotten'
      BY <1>2, <3>2, <3>3 DEF Stored, Import!NoFileForgotten, Import!Contents, Import!Stored
    <3>7. QED
      BY <3>2, <3>4, <3>5, <3>6 DEF Import!RecoveryCleans
  <2>2. CASE Import!ApplyRecovery
    <3>1. /\ phase = "jobs" /\ phase' = "partials" /\ Import!Unreferenced = {}
          /\ journal' = [i \in Imports |-> "none"] /\ UNCHANGED <<cas, partials>>
      BY <2>2 DEF Import!ApplyRecovery
    <3>2. \A f \in Files : cas'[f] # "absent" => f \in rows
      BY <3>1 DEF Stored, Import!NoFileForgotten, Import!Unreferenced, Import!Stored
    <3>3. Import!TypeOK'
      BY <1>1, <1>2, <3>1 DEF Import!TypeOK
    <3>4. Import!CharactersHaveTheirFiles'
      BY <1>2, <3>1 DEF Stored, Import!CharactersHaveTheirFiles, Import!Contents
    <3>5. QED
      BY <1>2, <3>1, <3>2, <3>3, <3>4 DEF Import!NoFileForgotten, Import!RecoveryCleans, Import!Stored
  <2>3. CASE Import!RemovePartialFiles \/ Import!RemoveAbandonedStagingFiles
    <3>1. /\ UNCHANGED <<cas, journal>> /\ phase \in {"partials", "staging"}
          /\ \/ phase' = "up"
             \/ phase' = "staging" /\ partials' = {}
      BY <2>3 DEF Import!RemovePartialFiles, Import!RemoveAbandonedStagingFiles, Import!dbVars
    <3>2. Import!TypeOK'
      BY <1>1, <1>2, <3>1 DEF Import!TypeOK
    <3>3. Import!CharactersHaveTheirFiles' /\ Import!NoFileForgotten'
      BY <1>2, <3>1 DEF Stored, Import!CharactersHaveTheirFiles, Import!NoFileForgotten, Import!Contents,
                        Import!Stored
    <3>4. QED
      BY <1>2, <3>1, <3>2, <3>3 DEF Stored, Import!RecoveryCleans, Import!Stored
  <2>4. QED
    BY <2>1, <2>2, <2>3 DEF Import!Recovery
<1>5. Stages'
  <2>1. CASE phase' # "up"
    BY <1>2, <1>3, <1>4, <2>1, StageGone
  <2>2. CASE phase' = "up"
    <3>1. PICK idle : idle = Import!Idle
      OBVIOUS
    <3>2. idle.pc = "none" /\ ~idle.done
      BY <3>1 DEF Import!Idle
    <3>3. ASSUME NEW i \in Imports PROVE OwnStage(i)'
      BY <1>2, <1>3, <3>1, <3>2 DEF Stages, OwnStage, Committing
    <3>4. QED
      BY <1>4, <2>2, <3>3 DEF Stages, MemoryIsGone
  <2>3. QED
    BY <2>1, <2>2
<1>6. QED
  BY <1>3, <1>4, <1>5, FilesGone DEF Stored

-----------------------------------------------------------------------------
(* The tickets that are held are some of finitely many.                    *)
LEMMA HeldIsFinite ==
    ASSUME NEW S \in SUBSET Imports
    PROVE  IsFiniteSet(S) /\ Cardinality(S) \in Nat
BY ImportAssumption, FS_Subset, FS_CardinalityType

(* Cardinality means the same here and in CharacterImport.                 *)
LEMMA SameCardinality == ASSUME NEW S PROVE Import!Cardinality(S) = Cardinality(S)
BY Zenon DEF Import!Cardinality, Cardinality

(* A step that hands out no ticket keeps the store within its capacity.    *)
LEMMA HeldShrinks ==
    ASSUME TicketsFit, Import!Held' \subseteq Import!Held
    PROVE  TicketsFit'
<1>1. Import!Held \in SUBSET Imports /\ Import!Held' \in SUBSET Imports
  BY DEF Import!Held
<1>2. IsFiniteSet(Import!Held)
  BY <1>1, HeldIsFinite
<1>3. Cardinality(Import!Held') <= Cardinality(Import!Held)
  BY <1>2, FS_Subset
<1>4. Cardinality(Import!Held) \in Nat /\ Cardinality(Import!Held') \in Nat
  BY <1>1, HeldIsFinite
<1>5. Cardinality(Import!Held) <= Tickets /\ Tickets \in Nat
  BY ImportAssumption DEF TicketsFit
<1>6. Cardinality(Import!Held') <= Tickets
  BY <1>3, <1>4, <1>5
<1>7. QED
  BY <1>6 DEF TicketsFit

(* A picked file gets its ticket only while there is room for one.         *)
LEMMA TicketPicked ==
    ASSUME Stages, TicketsFit, NEW i \in Imports, Import!PickImport(i)
    PROVE  TicketsFit'
<1>1. CASE Cardinality(Import!Held) < Tickets
  <2>1. tickets' = [tickets EXCEPT ![i] = "live"]
    BY <1>1, SameCardinality DEF Import!PickImport
  <2>2. Import!Held' = Import!Held \cup {i}
    BY <2>1 DEF Import!Held, Stages, Import!TypeOK
  <2>3. IsFiniteSet(Import!Held) /\ Cardinality(Import!Held) \in Nat
    BY HeldIsFinite DEF Import!Held
  <2>4. \/ Cardinality(Import!Held \cup {i}) = Cardinality(Import!Held)
        \/ Cardinality(Import!Held \cup {i}) = Cardinality(Import!Held) + 1
    BY <2>3, FS_AddElement
  <2>5. Cardinality(Import!Held') <= Tickets
    BY <1>1, <2>2, <2>3, <2>4, ImportAssumption
  <2>6. QED
    BY <2>5 DEF TicketsFit
<1>2. CASE ~(Cardinality(Import!Held) < Tickets)
  <2>1. tickets' = tickets
    BY <1>2, SameCardinality DEF Import!PickImport
  <2>2. QED
    BY <2>1, HeldShrinks DEF Import!Held
<1>3. QED
  BY <1>1, <1>2

(* A reserved ticket still counts: giving it back needs no room.           *)
LEMMA KeepTickets == ASSUME Stages, TicketsFit, Import!Next PROVE TicketsFit'
<1>1. CASE \E i \in Imports : Import!PickImport(i)
  BY <1>1, TicketPicked
<1>2. CASE Import!Crash \/ Import!Recovery \/
           \E i \in Imports : Import!Command(i) /\ ~Import!PickImport(i)
  <2>1. \/ UNCHANGED tickets
        \/ tickets' = [i \in Imports |-> "none"]
        \/ \E i \in Imports, ticket \in {"none", "live", "reserved"} :
              tickets' = [tickets EXCEPT ![i] = ticket] /\ tickets[i] # "none"
    <3>1. CASE Import!Crash
      BY <3>1 DEF Import!Crash
    <3>2. CASE Import!Recovery
      BY <3>2 DEF Import!Recovery, Import!RemoveUnreferencedCas, Import!ApplyRecovery,
                  Import!RemovePartialFiles, Import!RemoveAbandonedStagingFiles, Import!memVars
    <3>3. CASE \E i \in Imports : Import!Command(i) /\ ~Import!PickImport(i)
      <4>1. PICK i \in Imports : Import!Command(i) /\ ~Import!PickImport(i)
        BY <3>3
      <4>2. CASE Import!ReserveTicket(i) \/ Import!TakeTicket(i)
        BY <4>2 DEF Import!ReserveTicket, Import!TakeTicket
      <4>3. CASE Import!DiscardTicket(i)
        <5>1. tickets[i] = "reserved"
          BY <4>3 DEF Import!DiscardTicket, Import!At, Stages, OwnStage
        <5>2. QED
          BY <4>3, <5>1 DEF Import!DiscardTicket
      <4>4. CASE UNCHANGED tickets
        BY <4>4
      <4>5. QED
        BY <4>1, <4>2, <4>3, <4>4
           DEF Import!Command, Import!SnapshotSource, Import!PrepareImport, Import!InsertPending,
               Import!ReleaseTransport, Import!CommitImport, Import!DiscardImport,
               Import!CreateImportJournal, Import!FileThere, Import!CopyFile, Import!PublishFile,
               Import!SyncFile, Import!MarkFileStored, Import!CommitImportRecords, Import!CommitFails,
               Import!LookUpCharacter, Import!RestorePendingImport, Import!CleanupPendingImport
    <3>4. QED
      BY <1>2, <3>1, <3>2, <3>3
  <2>2. tickets \in [Imports -> {"none", "live", "reserved"}]
    BY DEF Stages, Import!TypeOK
  <2>3. Import!Held' \subseteq Import!Held
    BY <2>1, <2>2 DEF Import!Held
  <2>4. QED
    BY <2>3, HeldShrinks
<1>3. QED
  BY <1>1, <1>2 DEF Import!Next

(* The invariant holds at the start ...                                    *)
LEMMA ImportStarts == Import!Init => ImportInv
<1> SUFFICES ASSUME Import!Init PROVE ImportInv
  OBVIOUS
<1>1. PICK idle : idle = Import!Idle
  OBVIOUS
<1>2. /\ idle \in [pc : Import!Commands, at : Nat, done : BOOLEAN] /\ idle.pc = "none" /\ ~idle.done
  BY <1>1 DEF Import!Idle, Import!Commands
<1>3. Import!TypeOK
  <2>1. work \in [Imports -> [pc : Import!Commands, at : Nat, done : BOOLEAN]]
    BY <1>1, <1>2 DEF Import!Init
  <2>2. QED
    BY <2>1, ImportAssumption DEF Import!Init, Import!TypeOK
<1>4. \A i \in Imports : work[i] = idle
  BY <1>1 DEF Import!Init
<1>5. ASSUME NEW i \in Imports PROVE OwnStage(i) /\ OwnFiles(i)
  BY <1>2, <1>4 DEF Import!Init, OwnStage, OwnFiles, Committing
<1>6. Stages
  BY <1>3, <1>5 DEF Stages, MemoryIsGone, Import!Init
<1>7. Stored
  BY <1>5 DEF Stored, Import!Init, Import!CharactersHaveTheirFiles, Import!NoFileForgotten,
              Import!RecoveryCleans, Import!Stored
<1>8. TicketsFit
  <2>1. Import!Held = {}
    BY DEF Import!Init, Import!Held
  <2>2. QED
    BY <2>1, FS_EmptySet, ImportAssumption DEF TicketsFit
<1>9. QED
  BY <1>6, <1>7, <1>8 DEF ImportInv

(* ... is kept by every step ...                                           *)
LEMMA ImportKeeps == ASSUME ImportInv, Import!Next PROVE ImportInv'
<1>1. Stages /\ Stored /\ TicketsFit
  BY DEF ImportInv
<1>2. Stages' /\ Stored'
  <2>1. CASE Import!Crash
    BY <1>1, <2>1, KeepCrash
  <2>2. CASE Import!Recovery
    BY <1>1, <2>2, KeepRecovery
  <2>3. ASSUME NEW i \in Imports, Import!Command(i) PROVE Stages' /\ Stored'
    BY <1>1, <2>3, KeepOther, KeepJournal, KeepAdvance, KeepCopy, KeepPublish, KeepMark,
       KeepRecords, KeepLookup DEF Import!Command
  <2>4. QED
    BY <2>1, <2>2, <2>3 DEF Import!Next
<1>3. QED
  BY <1>1, <1>2, KeepTickets DEF ImportInv

(* ... and says what imports promise.                                      *)
LEMMA ImportPromises == ImportInv => ImportsAreSound
<1> SUFFICES ASSUME ImportInv PROVE ImportsAreSound
  OBVIOUS
<1>1. Stages /\ Stored /\ TicketsFit
  BY DEF ImportInv
<1>2. Import!PendingCanBeCommitted
  BY <1>1 DEF Stages, MemoryIsGone, OwnStage, Staged, Import!TypeOK, Import!PendingCanBeCommitted
<1>3. Import!TicketsAreBoundedAndBacked
  <2>1. Cardinality({i \in Imports : tickets[i] # "none"}) <= Tickets
    BY <1>1 DEF TicketsFit, Import!Held
  <2>2. QED
    BY <1>1, <2>1, SameCardinality DEF Stages, OwnStage, Import!TicketsAreBoundedAndBacked
<1>4. QED
  BY <1>1, <1>2, <1>3 DEF Stages, Stored, ImportsAreSound

(* What the other parts do is no step of an import.                        *)
LEMMA ImportRests == ASSUME ImportInv, UNCHANGED importVars PROVE ImportInv'
<1>1. UNCHANGED <<picked, tickets, staging, pending, work, partials, cas, journal, rows, characters,
                  phase, crashes>>
  BY DEF importVars
<1>2. Stages'
  BY <1>1 DEF ImportInv, Stages, MemoryIsGone, OwnStage, Staged, Import!TypeOK, Import!Idle
<1>3. Stored'
  BY <1>1 DEF ImportInv, Stored, OwnFiles, Import!CharactersHaveTheirFiles, Import!NoFileForgotten,
              Import!RecoveryCleans, Import!Stored, Import!Contents
<1>4. TicketsFit'
  BY <1>1 DEF ImportInv, TicketsFit, Import!Held
<1>5. QED
  BY <1>2, <1>3, <1>4 DEF ImportInv

(* Whatever imports, failures, crashes and crashes of the recovery itself  *)
(* do, for any cards, however they share files, and any number of them: a  *)
(* character has its files, durable; no file of the store is forgotten; a  *)
(* listed inspection can be committed; the ticket store keeps to its       *)
(* capacity and a ticket has its file; recovery leaves nothing.            *)
THEOREM ImportsSound == MCSpec => []ImportsAreSound
<1>1. MCInit => ImportInv
  BY ImportStarts DEF MCInit
<1>2. ImportInv /\ [MCNext]_<<part, vars, importVars, catalogVars, crawlVars>> => ImportInv'
  <2> SUFFICES ASSUME ImportInv, [MCNext]_<<part, vars, importVars, catalogVars, crawlVars>>
               PROVE  ImportInv'
    OBVIOUS
  <2>1. Import!Next \/ UNCHANGED importVars
    BY DEF MCNext, AssistantNext, ImportNext, CatalogNext, CrawlNext
  <2>2. QED
    BY <2>1, ImportKeeps, ImportRests
<1>3. QED
  BY <1>1, <1>2, ImportPromises, PTL DEF MCSpec

-----------------------------------------------------------------------------
(***************************************************************************)
(* The signed catalog                                                      *)
(***************************************************************************)
Revisions == {u.env.rev : u \in updates}
HasTop(S) == \E m \in S : \A y \in S : y <= m
Rising(s) == \A i, j \in DOMAIN s : i < j => s[i].env.rev < s[j].env.rev
Listing(s, us) == (\A u \in us : \E i \in DOMAIN s : s[i] = u) /\ Rising(s)

(* What was accepted was valid when it was, came with rising revisions,    *)
(* and left the guard behind.                                              *)
Accepted ==
    /\ updates \subseteq [env : Envelopes, at : 0..MaxTime] /\ IsFiniteSet(updates)
    /\ \A u \in updates :
          /\ u.env.issued <= u.at /\ u.env.effective <= u.at /\ u.at < u.env.expires /\ u.at <= time
          /\ u.env.rev <= catalogState.guard.rev /\ u.env.issued <= catalogState.guard.issued
    /\ \A u, v \in updates : /\ u.env.rev = v.env.rev => u = v
                             /\ u.env.rev < v.env.rev => u.env.issued <= v.env.issued
    /\ updates = {} => catalogState.guard = Catalog!NoGuard
    /\ updates # {} => \E u \in updates : catalogState.guard = Catalog!GuardAfter(u.env)
    /\ \E s \in [1..Cardinality(updates) -> updates] : Listing(s, updates)

(* A snapshot is made of accepted revisions, and its view has a latest.    *)
SoundSnapshot(s) ==
    /\ s.chain \in Seq(Revisions)
    /\ s.view \subseteq Catalog!ToSet(s.chain) /\ (s.view # {} => HasTop(s.view))
    /\ s.at \in 0..MaxTime

LayersMerge == Catalog!Mergeable(Catalog!Fresh(
                   Catalog!ChainEnvelopes(Catalog!ActiveOf(catalogState).chain), time))

Shelf ==
    /\ DOMAIN snapshots \subseteq Nat \ {0} /\ HasTop({1} \cup DOMAIN snapshots)
    /\ \A r \in DOMAIN snapshots : SoundSnapshot(snapshots[r])
    /\ catalogState.active \in {0} \cup DOMAIN snapshots
    /\ catalogState.active = 0 <=> catalogState.ver = 0
    /\ catalogState.active = 0 => DOMAIN snapshots = {}
    /\ catalogState.active # 0 => 1 \in DOMAIN snapshots /\ snapshots[1] = Catalog!Baseline
    /\ LayersMerge /\ Catalog!PublishedTemplatesAgree

(* Every activation was reviewed, once.                                    *)
Trail ==
    /\ audit \in Seq([ver : Nat, kind : {"import", "rollback"}, id : Nat, from : Nat, to : Nat, at : Nat])
    /\ Len(audit) = catalogState.ver
    /\ \A i \in DOMAIN audit :
          /\ audit[i].ver = i /\ audit[i].to \in DOMAIN snapshots
          /\ audit[i].from = IF i = 1 THEN 1 ELSE audit[i - 1].to
    /\ catalogState.ver > 0 => catalogState.active = audit[Len(audit)].to
    /\ Catalog!ActivatedAsReviewed

Reviews ==
    /\ IsFiniteSet(plans) /\ IsFiniteSet(DOMAIN pendingPlans)
    /\ \A p \in plans :
          /\ p.id \in 1..Cardinality(plans) /\ p.kind \in {"import", "rollback"}
          /\ p.at \in 0..MaxTime /\ p.expires \in Nat /\ p.ver \in 0..catalogState.ver
          /\ p.kind = "import" => p.env \in Envelopes
    /\ \A p, q \in plans : p.id = q.id => p = q
    /\ \A i \in DOMAIN pendingPlans :
          pendingPlans[i] \in plans /\ pendingPlans[i].id = i /\ pendingPlans[i].kind = "import"
    /\ Catalog!ReviewsAreCurrent

(* A state read is as old as its version says.                             *)
ReadEarlier(st) ==
    /\ st.ver \in 0..catalogState.ver
    /\ st.ver = catalogState.ver => st.active = catalogState.active /\ st.guard = catalogState.guard
    /\ st.active \in {0} \cup DOMAIN snapshots
    /\ st.snaps # 0 => DOMAIN snapshots # {}
    /\ st.guard.rev \in Nat /\ st.guard.issued \in Nat

Activating(call) == call.pc # "idle" /\ call.op = "activate"
RollingBack(call) == call.pc # "idle" /\ call.op = "rollback"
PlanFields == {"id", "kind", "env", "ver", "from", "guard", "to", "snap", "at", "expires"}

(* What a call holds while it is under way.                                *)
CallShape(call) ==
    /\ call.pc \in {"idle", "lock", "rebuild", "updates", "history", "register", "target", "commit"}
    /\ call.pc = "idle" => call = Catalog!Idle
    /\ call.pc # "idle" =>
          /\ {"pc", "op", "now"} \subseteq DOMAIN call
          /\ call.now \in 0..time /\ call.op \in {"prepare", "present", "activate", "plan_rollback", "rollback"}
          /\ call.pc = "lock" <=> call.op = "present"
          /\ call.op \in {"prepare", "activate"} => "env" \in DOMAIN call /\ call.env \in Envelopes
          /\ call.op \in {"plan_rollback", "rollback"} => "target" \in DOMAIN call
          /\ call.op \in {"present", "activate", "rollback"} => "plan" \in DOMAIN call /\ call.plan \in plans
    /\ call.pc \notin {"idle", "lock", "rebuild"} => "st" \in DOMAIN call /\ ReadEarlier(call.st)
    /\ call.pc = "rebuild" => call.op = "activate"
    /\ call.pc = "history" => call.op \in {"prepare", "activate"}
    /\ call.pc = "register" => call.op = "prepare" /\ "plan" \in DOMAIN call
    /\ call.pc = "target" => call.op \in {"plan_rollback", "rollback"}
    /\ call.pc = "commit" => call.op \in {"activate", "rollback"}

CallPlan(call) ==
    /\ call.pc = "lock" =>
          /\ call.plan.kind = "import"
          /\ call.plan.ver = catalogState.ver => \A u \in updates : u.at <= call.now
    /\ Activating(call) =>
          /\ call.plan.kind = "import" /\ call.now < call.plan.expires
          /\ \A u \in updates : u.at <= call.now
    /\ RollingBack(call) =>
          /\ call.plan.kind = "rollback" /\ call.plan.to = call.target /\ call.plan.ver = call.st.ver
          /\ call.st.ver = catalogState.ver => \A u \in updates : u.at <= call.now
    /\ call.pc = "register" =>
          /\ DOMAIN call.plan = PlanFields /\ call.plan.kind = "import" /\ call.plan.env \in Envelopes
          /\ call.plan.at \in 0..MaxTime /\ call.plan.expires \in Nat /\ call.plan.ver \in 0..catalogState.ver

(* What a call has checked stays true until the state version moves on.    *)
CallChecked(call) ==
    /\ call.pc = "history" \/ (call.pc = "commit" /\ call.op = "activate") => Catalog!MergesOverActive(call)
    /\ call.pc = "commit" /\ call.op = "activate" =>
          /\ call.to = call.plan.to /\ call.to \in Nat /\ call.st.ver = call.plan.ver
          /\ call.snap = call.plan.snap /\ call.snap = Catalog!Candidate(call, call.plan.at)
          /\ Catalog!RevisionOf(call.st) = call.plan.from
          /\ call.st.ver = catalogState.ver => Catalog!TemplatesStayImmutable(
                [version |-> call.env.version, body |-> call.env.body])
    /\ call.pc = "commit" /\ call.op = "rollback" =>
          /\ call.now < call.plan.expires /\ call.plan.snap.chain \in Seq(Revisions)
          /\ IF call.target \in DOMAIN snapshots THEN snapshots[call.target] = call.plan.snap
             ELSE call.target = 1 /\ call.plan.snap = Catalog!Baseline
          /\ Catalog!Mergeable(Catalog!Fresh(Catalog!ChainEnvelopes(call.plan.snap.chain), call.now))

Callings ==
    /\ calls = [c \in Callers |-> calls[c]]
    /\ \A c \in Callers : CallShape(calls[c]) /\ CallPlan(calls[c]) /\ CallChecked(calls[c])
    /\ \A c, d \in Callers : Activating(calls[c]) /\ Activating(calls[d]) => c = d

CatalogShape ==
    /\ catalogState \in [ver : Nat, active : Nat, guard : [rev : Nat, issued : Nat]]
    /\ catalogState.guard \in {Catalog!NoGuard} \cup {Catalog!GuardAfter(e) : e \in Envelopes}
    /\ time \in 0..MaxTime

CatalogInv == CatalogShape /\ Accepted /\ Shelf /\ Trail /\ Reviews /\ Callings

-----------------------------------------------------------------------------
(* Cardinality means the same here and in ProviderCatalog.                 *)
LEMMA CatalogCardinality == ASSUME NEW S PROVE Catalog!Cardinality(S) = Cardinality(S)
BY Zenon DEF Catalog!Cardinality, Cardinality

(* An accepted revision is found again.                                    *)
LEMMA EnvelopeFound ==
    ASSUME NEW us, NEW u \in us, \A v, w \in us : v.env.rev = w.env.rev => v = w
    PROVE  (CHOOSE v \in us : v.env.rev = u.env.rev) = u
<1>1. \A v \in us : v.env.rev = u.env.rev => v = u
  OBVIOUS
<1>2. \E v \in us : v.env.rev = u.env.rev
  OBVIOUS
<1>3. QED
  BY <1>1, <1>2

(* The layers of a chain of accepted revisions are accepted ones.          *)
LEMMA ChainIs ==
    ASSUME Accepted, NEW chain \in Seq(Revisions)
    PROVE  /\ \A r \in Catalog!ToSet(chain) :
                 \E u \in updates : u.env.rev = r /\ Catalog!EnvelopeOf(r) = u
           /\ Catalog!ChainEnvelopes(chain) = {Catalog!EnvelopeOf(r).env : r \in Catalog!ToSet(chain)}
           /\ Catalog!ChainEnvelopes(chain) \subseteq {u.env : u \in updates}
<1>1. ASSUME NEW r \in Catalog!ToSet(chain) PROVE \E u \in updates : u.env.rev = r /\ Catalog!EnvelopeOf(r) = u
  <2>1. r \in Revisions
    BY <1>1 DEF Catalog!ToSet
  <2>2. PICK u \in updates : u.env.rev = r
    BY <2>1 DEF Revisions
  <2>3. QED
    BY <2>2, EnvelopeFound DEF Catalog!EnvelopeOf, Accepted
<1>2. QED
  BY <1>1 DEF Catalog!ChainEnvelopes

(* Updates and snapshots are only added.                                   *)
Grows ==
    /\ updates \subseteq updates' /\ \A u, v \in updates' : u.env.rev = v.env.rev => u = v
    /\ \A r \in DOMAIN snapshots : r \in DOMAIN snapshots' /\ snapshots'[r] = snapshots[r]

(* So what a chain stands for does not change.                             *)
LEMMA ChainStays ==
    ASSUME Accepted, Grows, NEW chain \in Seq(Revisions)
    PROVE  /\ chain \in Seq(Revisions')
           /\ Catalog!ChainEnvelopes(chain)' = Catalog!ChainEnvelopes(chain)
<1>1. Revisions \subseteq Revisions'
  BY DEF Grows, Revisions
<1>2. chain \in Seq(Revisions')
  BY <1>1
<1>3. ASSUME NEW r \in Catalog!ToSet(chain) PROVE Catalog!EnvelopeOf(r)' = Catalog!EnvelopeOf(r)
  <2>1. PICK u \in updates : u.env.rev = r /\ Catalog!EnvelopeOf(r) = u
    BY <1>3, ChainIs
  <2>2. u \in updates'
    BY DEF Grows
  <2>3. Catalog!EnvelopeOf(r)' = u
    BY <2>1, <2>2, EnvelopeFound DEF Catalog!EnvelopeOf, Grows
  <2>4. QED
    BY <2>1, <2>3
<1>4. Catalog!ToSet(chain)' = Catalog!ToSet(chain)
  BY DEF Catalog!ToSet
<1>5. QED
  BY <1>2, <1>3, <1>4 DEF Catalog!ChainEnvelopes

-----------------------------------------------------------------------------
(* What is read off unchanged rows is unchanged.                           *)
LEMMA SameRows ==
    ASSUME UNCHANGED <<updates, snapshots>>
    PROVE  /\ Revisions' = Revisions /\ Catalog!Baseline' = Catalog!Baseline
           /\ \A s : Catalog!ToSet(s)' = Catalog!ToSet(s)
           /\ \A rev : Catalog!EnvelopeOf(rev)' = Catalog!EnvelopeOf(rev)
           /\ \A chain : Catalog!ChainEnvelopes(chain)' = Catalog!ChainEnvelopes(chain)
           /\ \A st : Catalog!ActiveOf(st)' = Catalog!ActiveOf(st)
           /\ \A es, now : Catalog!Fresh(es, now)' = Catalog!Fresh(es, now)
           /\ \A es : Catalog!Mergeable(es)' = Catalog!Mergeable(es)
           /\ \A view : Catalog!TemplateOf(view)' = Catalog!TemplateOf(view)
           /\ Catalog!KnownTemplates' = Catalog!KnownTemplates
<1>1. Revisions' = Revisions
  BY DEF Revisions
<1>2. Catalog!Baseline' = Catalog!Baseline
  BY DEF Catalog!Baseline
<1>3. \A s : Catalog!ToSet(s)' = Catalog!ToSet(s)
  BY DEF Catalog!ToSet
<1>4. \A rev : Catalog!EnvelopeOf(rev)' = Catalog!EnvelopeOf(rev)
  BY DEF Catalog!EnvelopeOf
<1>5. \A chain : Catalog!ChainEnvelopes(chain)' = Catalog!ChainEnvelopes(chain)
  BY <1>3, <1>4 DEF Catalog!ChainEnvelopes
<1>6. \A st : Catalog!ActiveOf(st)' = Catalog!ActiveOf(st)
  BY <1>2 DEF Catalog!ActiveOf
<1>7. \A es, now : Catalog!Fresh(es, now)' = Catalog!Fresh(es, now)
  BY DEF Catalog!Fresh
<1>8. \A es : Catalog!Mergeable(es)' = Catalog!Mergeable(es)
  BY DEF Catalog!Mergeable
<1>9. \A view : Catalog!TemplateOf(view)' = Catalog!TemplateOf(view)
  BY <1>4 DEF Catalog!TemplateOf, Catalog!BundledTemplate, Catalog!Max
<1>10. Catalog!KnownTemplates' = Catalog!KnownTemplates
  BY <1>9 DEF Catalog!KnownTemplates, Catalog!BundledTemplate
<1>11. QED
  BY <1>1, <1>2, <1>3, <1>4, <1>5, <1>6, <1>7, <1>8, <1>9, <1>10

(* A step that leaves the rows alone keeps what they say.                  *)
LEMMA RowsKept ==
    ASSUME CatalogInv, UNCHANGED <<catalogState, updates, snapshots, audit, time>>, plans \subseteq plans'
    PROVE  CatalogShape' /\ Accepted' /\ Shelf' /\ Trail'
<1>1. CatalogShape'
  BY DEF CatalogInv, CatalogShape, Catalog!NoGuard, Catalog!GuardAfter
<1>2. Accepted'
  BY DEF CatalogInv, Accepted, Catalog!NoGuard, Catalog!GuardAfter
<1>3. Shelf'
  <2>1. LayersMerge'
    BY SameRows DEF CatalogInv, Shelf, LayersMerge, Catalog!Mergeable, Catalog!Fresh
  <2>2. Catalog!PublishedTemplatesAgree'
    BY SameRows DEF CatalogInv, Shelf, Catalog!PublishedTemplatesAgree
  <2>3. \A r \in DOMAIN snapshots : SoundSnapshot(snapshots[r])'
    BY SameRows DEF CatalogInv, Shelf, SoundSnapshot, HasTop
  <2>4. QED
    BY <2>1, <2>2, <2>3 DEF CatalogInv, Shelf, HasTop, Catalog!Baseline
<1>4. Trail'
  <2>1. Catalog!ActivatedAsReviewed'
    BY DEF CatalogInv, Trail, Catalog!ActivatedAsReviewed
  <2>2. QED
    BY <2>1 DEF CatalogInv, Trail
<1>5. QED
  BY <1>1, <1>2, <1>3, <1>4

(* ... and what the calls have read and checked.                           *)
LEMMA CallKept ==
    ASSUME NEW call, UNCHANGED <<catalogState, updates, snapshots>>, plans \subseteq plans',
           time' = time \/ (time \in Nat /\ time' = time + 1),
           CallShape(call), CallPlan(call), CallChecked(call)
    PROVE  CallShape(call)' /\ CallPlan(call)' /\ CallChecked(call)'
<1>1. CallShape(call)'
  <2>1. call.now \in 0..time => call.now \in 0..time'
    OBVIOUS
  <2>2. QED
    BY <2>1 DEF CallShape, ReadEarlier, Catalog!Idle
<1>2. CallPlan(call)'
  BY DEF CallPlan, Activating, RollingBack, PlanFields
<1>3. Catalog!MergesOverActive(call) => Catalog!MergesOverActive(call)'
  BY SameRows DEF Catalog!MergesOverActive, Catalog!Verifies, Catalog!Mergeable, Catalog!Fresh
<1>4. \A at : Catalog!Candidate(call, at)' = Catalog!Candidate(call, at)
  BY DEF Catalog!Candidate, Catalog!View, Catalog!Fresh, Catalog!ChainEnvelopes,
         Catalog!ActiveOf, Catalog!EnvelopeOf, Catalog!ToSet, Catalog!Baseline
<1>5. \A template : Catalog!TemplatesStayImmutable(template)' = Catalog!TemplatesStayImmutable(template)
  BY DEF Catalog!TemplatesStayImmutable, Catalog!KnownTemplates, Catalog!TemplateOf, Catalog!EnvelopeOf,
         Catalog!BundledTemplate, Catalog!Max
<1>6. \A chain : Catalog!ChainEnvelopes(chain)' = Catalog!ChainEnvelopes(chain)
  BY DEF Catalog!ChainEnvelopes, Catalog!EnvelopeOf, Catalog!ToSet
<1>7. CallChecked(call)'
  BY <1>3, <1>4, <1>5, <1>6 DEF CallChecked, Revisions, Catalog!RevisionOf, Catalog!Baseline,
     Catalog!Mergeable, Catalog!Fresh
<1>8. QED
  BY <1>1, <1>2, <1>7

(* A step of one call.                                                     *)
LEMMA CallStep ==
    ASSUME CatalogInv, NEW c \in Callers, NEW new, calls' = [calls EXCEPT ![c] = new],
           UNCHANGED <<catalogState, updates, snapshots, audit, time>>, plans \subseteq plans', Reviews',
           CallShape(new), CallPlan(new), CallChecked(new),
           Activating(new) => Activating(calls[c]) \/ \A d \in Callers : ~Activating(calls[d])
    PROVE  CatalogInv'
<1>1. calls' = [d \in Callers |-> calls'[d]] /\ calls'[c] = new /\ \A d \in Callers : d # c => calls'[d] = calls[d]
  BY DEF CatalogInv, Callings
<1>2. ASSUME NEW d \in Callers PROVE (CallShape(calls[d]) /\ CallPlan(calls[d]) /\ CallChecked(calls[d]))'
  <2>1. PICK call : call = calls'[d]
    OBVIOUS
  <2>2. CallShape(call) /\ CallPlan(call) /\ CallChecked(call)
    BY <1>1, <2>1 DEF CatalogInv, Callings
  <2>3. CallShape(call)' /\ CallPlan(call)' /\ CallChecked(call)'
    BY <2>2, CallKept
  <2>4. QED
    BY <2>1, <2>3
<1>3. \A d, e \in Callers : Activating(calls'[d]) /\ Activating(calls'[e]) => d = e
  BY <1>1 DEF CatalogInv, Callings
<1>4. Callings'
  BY <1>1, <1>2, <1>3 DEF Callings, Activating
<1>5. QED
  BY <1>4, RowsKept DEF CatalogInv

(* A state read is current when it is made.                                *)
LEMMA ReadNow == ASSUME CatalogInv PROVE ReadEarlier(Catalog!StateRead)
<1>1. PICK st : st = Catalog!StateRead
  OBVIOUS
<1>2. /\ st.ver = catalogState.ver /\ st.active = catalogState.active /\ st.guard = catalogState.guard
      /\ st.snaps = Cardinality(DOMAIN snapshots)
  BY <1>1, CatalogCardinality DEF Catalog!StateRead
<1>3. st.snaps # 0 => DOMAIN snapshots # {}
  BY <1>2, FS_EmptySet
<1>4. ReadEarlier(st)
  BY <1>2, <1>3 DEF CatalogInv, CatalogShape, Shelf, ReadEarlier
<1>5. QED
  BY <1>1, <1>4

(* Reviews that are dropped leave the others as they are.                  *)
LEMMA DropReviewsOf ==
    ASSUME Reviews, NEW K, pendingPlans' = Catalog!Drop(pendingPlans, K), UNCHANGED plans,
           catalogState.ver \in Nat, catalogState'.ver \in {catalogState.ver, catalogState.ver + 1},
           \A i \in DOMAIN audit' : audit'[i].id \in K \/ audit'[i].id \notin DOMAIN pendingPlans
    PROVE  Reviews'
<1>1. /\ DOMAIN pendingPlans' = DOMAIN pendingPlans \ K
      /\ \A i \in DOMAIN pendingPlans' : pendingPlans'[i] = pendingPlans[i]
  BY DEF Catalog!Drop
<1>2. DOMAIN pendingPlans' \in SUBSET DOMAIN pendingPlans
  BY <1>1
<1>3. /\ IsFiniteSet(DOMAIN pendingPlans') /\ Cardinality(DOMAIN pendingPlans') <= Cardinality(DOMAIN pendingPlans)
      /\ Cardinality(DOMAIN pendingPlans') \in Nat /\ Cardinality(DOMAIN pendingPlans) \in Nat
  BY <1>2, FS_Subset, FS_CardinalityType DEF Reviews
<1>4. Catalog!Cardinality(DOMAIN pendingPlans') <= MaxPending
  BY <1>3, CatalogCardinality, CatalogAssumption DEF Reviews, Catalog!ReviewsAreCurrent
<1>5. Catalog!ReviewsAreCurrent'
  <2>1. Catalog!Cardinality(DOMAIN pendingPlans)' <= MaxPending
    BY <1>4, CatalogCardinality
  <2>2. QED
    BY <1>1, <2>1 DEF Reviews, Catalog!ReviewsAreCurrent
<1>6. QED
  BY <1>1, <1>3, <1>5 DEF Reviews

(* A plan that is refused, or whose call is over, leaves the registry.     *)
LEMMA DropReviews ==
    ASSUME CatalogInv, NEW K, pendingPlans' = Catalog!Drop(pendingPlans, K), UNCHANGED <<catalogState, plans, audit>>
    PROVE  Reviews'
<1>1. \A i \in DOMAIN audit' : audit'[i].id \notin DOMAIN pendingPlans
  BY DEF CatalogInv, Reviews, Catalog!ReviewsAreCurrent
<1>2. Reviews /\ catalogState.ver \in Nat
  BY DEF CatalogInv, CatalogShape
<1>3. QED
  BY <1>1, <1>2, DropReviewsOf

(* A step that touches neither plans nor the audit keeps the reviews.      *)
LEMMA SameReviews ==
    ASSUME Reviews, UNCHANGED <<catalogState, plans, pendingPlans, audit>>
    PROVE  Reviews'
<1>1. Catalog!Cardinality(DOMAIN pendingPlans)' = Catalog!Cardinality(DOMAIN pendingPlans)
  BY CatalogCardinality
<1>2. Catalog!ReviewsAreCurrent'
  BY <1>1 DEF Reviews, Catalog!ReviewsAreCurrent
<1>3. QED
  BY <1>2 DEF Reviews

(* A call that is over holds nothing.                                      *)
LEMMA IdleCall == CallShape(Catalog!Idle) /\ CallPlan(Catalog!Idle) /\ CallChecked(Catalog!Idle) /\ ~Activating(Catalog!Idle)
<1>1. PICK idle : idle = Catalog!Idle
  OBVIOUS
<1>2. idle.pc = "idle"
  BY <1>1 DEF Catalog!Idle
<1>3. CallShape(idle) /\ CallPlan(idle) /\ CallChecked(idle) /\ ~Activating(idle)
  BY <1>1, <1>2 DEF CallShape, CallPlan, CallChecked, Activating, RollingBack
<1>4. QED
  BY <1>1, <1>3

-----------------------------------------------------------------------------
(* The calls begin.                                                        *)
LEMMA PrepareImportKeeps ==
    ASSUME CatalogInv, NEW c \in Callers, NEW e \in Envelopes, Catalog!PrepareImport(c, e)
    PROVE  CatalogInv'
<1>1. PICK st : st = Catalog!StateRead
  OBVIOUS
<1>2. PICK new : new = [pc |-> "updates", op |-> "prepare", env |-> e, now |-> time, st |-> st]
  OBVIOUS
<1>3. /\ calls' = [calls EXCEPT ![c] = new]
      /\ UNCHANGED <<catalogState, updates, snapshots, audit, time, plans, pendingPlans>>
  BY <1>1, <1>2 DEF Catalog!PrepareImport, Catalog!Go, Catalog!db
<1>4. /\ DOMAIN new = {"pc", "op", "env", "now", "st"} /\ new.pc = "updates" /\ new.op = "prepare"
      /\ new.env = e /\ new.now = time /\ new.st = st
  BY <1>2
<1>5. CallShape(new)
  BY <1>1, <1>4, ReadNow DEF CallShape, CatalogInv, CatalogShape
<1>6. CallPlan(new) /\ CallChecked(new) /\ ~Activating(new)
  BY <1>4 DEF CallPlan, CallChecked, Activating, RollingBack
<1>7. QED
  BY <1>3, <1>5, <1>6, CallStep, SameReviews DEF CatalogInv

(* prepare_provider_catalog_rollback: a state read of its own.             *)
LEMMA PrepareRollbackKeeps ==
    ASSUME CatalogInv, NEW c \in Callers, NEW target, Catalog!PrepareRollback(c, target)
    PROVE  CatalogInv'
<1>1. PICK st : st = Catalog!StateRead
  OBVIOUS
<1>2. PICK new : new = [pc |-> "updates", op |-> "plan_rollback", target |-> target, now |-> time, st |-> st]
  OBVIOUS
<1>3. /\ calls' = [calls EXCEPT ![c] = new]
      /\ UNCHANGED <<catalogState, updates, snapshots, audit, time, plans, pendingPlans>>
  BY <1>1, <1>2 DEF Catalog!PrepareRollback, Catalog!Go, Catalog!db
<1>4. /\ DOMAIN new = {"pc", "op", "target", "now", "st"} /\ new.pc = "updates" /\ new.op = "plan_rollback"
      /\ new.now = time /\ new.st = st
  BY <1>2
<1>5. CallShape(new)
  BY <1>1, <1>4, ReadNow DEF CallShape, CatalogInv, CatalogShape
<1>6. CallPlan(new) /\ CallChecked(new) /\ ~Activating(new)
  BY <1>4 DEF CallPlan, CallChecked, Activating, RollingBack
<1>7. QED
  BY <1>3, <1>5, <1>6, CallStep, SameReviews DEF CatalogInv

(* activate_provider_catalog_rollback: the plan and the read agree.        *)
LEMMA ActivateRollbackKeeps ==
    ASSUME CatalogInv, NEW c \in Callers, NEW p \in plans, Catalog!ActivateRollback(c, p)
    PROVE  CatalogInv'
<1>1. PICK st : st = Catalog!StateRead
  OBVIOUS
<1>2. PICK new : new = [pc |-> "updates", op |-> "rollback", target |-> p.to, now |-> time, st |-> st, plan |-> p]
  OBVIOUS
<1>3. /\ calls' = [calls EXCEPT ![c] = new] /\ p.kind = "rollback" /\ catalogState.ver = p.ver
      /\ UNCHANGED <<catalogState, updates, snapshots, audit, time, plans, pendingPlans>>
  BY <1>1, <1>2 DEF Catalog!ActivateRollback, Catalog!Go, Catalog!db
<1>4. /\ DOMAIN new = {"pc", "op", "target", "now", "st", "plan"} /\ new.pc = "updates" /\ new.op = "rollback"
      /\ new.now = time /\ new.st = st /\ new.plan = p /\ new.target = p.to
  BY <1>2
<1>5. st.ver = catalogState.ver
  BY <1>1 DEF Catalog!StateRead
<1>6. CallShape(new)
  BY <1>1, <1>4, ReadNow DEF CallShape, CatalogInv, CatalogShape
<1>7. CallPlan(new) /\ CallChecked(new) /\ ~Activating(new)
  BY <1>3, <1>4, <1>5 DEF CallPlan, CallChecked, Activating, RollingBack, CatalogInv, Accepted
<1>8. QED
  BY <1>3, <1>6, <1>7, CallStep, SameReviews DEF CatalogInv

(* activate_signed_provider_catalog_import: nothing that was accepted is   *)
(* newer than the clock it reads.                                          *)
LEMMA PresentImportKeeps ==
    ASSUME CatalogInv, NEW c \in Callers, NEW p \in plans, Catalog!PresentImport(c, p)
    PROVE  CatalogInv'
<1>1. PICK new : new = [pc |-> "lock", op |-> "present", now |-> time, plan |-> p]
  OBVIOUS
<1>2. /\ calls' = [calls EXCEPT ![c] = new] /\ p.kind = "import"
      /\ UNCHANGED <<catalogState, updates, snapshots, audit, time, plans, pendingPlans>>
  BY <1>1 DEF Catalog!PresentImport, Catalog!Go, Catalog!db
<1>3. /\ DOMAIN new = {"pc", "op", "now", "plan"} /\ new.pc = "lock" /\ new.op = "present"
      /\ new.now = time /\ new.plan = p
  BY <1>1
<1>4. CallShape(new)
  BY <1>3 DEF CallShape, CatalogInv, CatalogShape
<1>5. CallPlan(new) /\ CallChecked(new) /\ ~Activating(new)
  BY <1>2, <1>3 DEF CallPlan, CallChecked, Activating, RollingBack, CatalogInv, Accepted
<1>6. QED
  BY <1>2, <1>4, <1>5, CallStep, SameReviews DEF CatalogInv

(* The review lock is taken; the version says that nothing was accepted    *)
(* while the call waited for it.                                           *)
LEMMA ActivateImportKeeps ==
    ASSUME CatalogInv, NEW c \in Callers, Catalog!ActivateImport(c)
    PROVE  CatalogInv'
<1>1. PICK call, p : call = calls[c] /\ p = call.plan
  OBVIOUS
<1>2. /\ call.pc = "lock" /\ UNCHANGED <<catalogState, updates, snapshots, audit, time, plans>>
      /\ \A d \in Callers : ~Activating(calls[d])
  BY <1>1 DEF Catalog!ActivateImport, Catalog!Free, Catalog!db, Activating
<1>3. CallShape(call) /\ CallPlan(call)
  BY <1>1 DEF CatalogInv, Callings
<1>4. Reviews'
  <2>1. pendingPlans' = pendingPlans \/ pendingPlans' = Catalog!Drop(pendingPlans, {p.id})
    BY <1>1 DEF Catalog!ActivateImport
  <2>2. QED
    BY <1>2, <2>1, SameReviews, DropReviews DEF CatalogInv
<1>5. CASE calls' = [calls EXCEPT ![c] = Catalog!Idle]
  BY <1>2, <1>4, <1>5, CallStep, IdleCall
<1>6. CASE /\ ~(p.expires <= call.now \/ catalogState.ver # p.ver)
           /\ calls' = [calls EXCEPT ![c] = [pc |-> "rebuild", op |-> "activate", env |-> p.env,
                                             now |-> call.now, plan |-> p]]
  <2>1. PICK new : new = [pc |-> "rebuild", op |-> "activate", env |-> p.env, now |-> call.now, plan |-> p]
    OBVIOUS
  <2>2. /\ DOMAIN new = {"pc", "op", "env", "now", "plan"} /\ new.pc = "rebuild" /\ new.op = "activate"
        /\ new.env = p.env /\ new.now = call.now /\ new.plan = p
    BY <2>1
  <2>3. p \in plans /\ p.kind = "import" /\ call.now \in 0..time /\ \A u \in updates : u.at <= call.now
    BY <1>1, <1>2, <1>3, <1>6 DEF CallShape, CallPlan
  <2>4. call.now < p.expires /\ p.env \in Envelopes
    BY <1>6, <2>3 DEF CatalogInv, Reviews, CatalogShape
  <2>5. CallShape(new)
    BY <2>2, <2>3, <2>4 DEF CallShape
  <2>6. CallPlan(new) /\ CallChecked(new)
    BY <2>2, <2>3, <2>4 DEF CallPlan, CallChecked, Activating, RollingBack
  <2>7. QED
    BY <1>2, <1>4, <1>6, <2>1, <2>5, <2>6, CallStep
<1>7. QED
  BY <1>1, <1>5, <1>6 DEF Catalog!ActivateImport, Catalog!Go, Catalog!Return

(* The candidate is rebuilt from a newer read.                             *)
LEMMA RebuildImportKeeps ==
    ASSUME CatalogInv, NEW c \in Callers, Catalog!RebuildImport(c)
    PROVE  CatalogInv'
<1>1. PICK st, call : st = Catalog!StateRead /\ call = calls[c]
  OBVIOUS
<1>2. PICK new : new = [pc |-> "updates", op |-> "activate", env |-> call.env, now |-> call.now,
                        plan |-> call.plan, st |-> st]
  OBVIOUS
<1>3. /\ calls' = [calls EXCEPT ![c] = new] /\ call.pc = "rebuild"
      /\ UNCHANGED <<catalogState, updates, snapshots, audit, time, plans, pendingPlans>>
  BY <1>1, <1>2 DEF Catalog!RebuildImport, Catalog!Go, Catalog!db
<1>4. /\ DOMAIN new = {"pc", "op", "env", "now", "plan", "st"} /\ new.pc = "updates" /\ new.op = "activate"
      /\ new.env = call.env /\ new.now = call.now /\ new.plan = call.plan /\ new.st = st
  BY <1>2
<1>5. CallShape(call) /\ CallPlan(call) /\ Activating(call)
  BY <1>1, <1>3 DEF CatalogInv, Callings, CallShape, Activating
<1>6. CallShape(new)
  BY <1>1, <1>3, <1>4, <1>5, ReadNow DEF CallShape, Activating
<1>7. CallPlan(new) /\ CallChecked(new)
  BY <1>4, <1>5 DEF CallPlan, CallChecked, Activating, RollingBack
<1>8. QED
  BY <1>1, <1>3, <1>5, <1>6, <1>7, CallStep, SameReviews DEF CatalogInv

(* The chain a call builds on is made of accepted revisions.               *)
LEMMA ActiveChain ==
    ASSUME Shelf, NEW st, st.active \in {0} \cup DOMAIN snapshots
    PROVE  Catalog!ActiveOf(st).chain \in Seq(Revisions)
<1>1. CASE st.active = 0
  <2>1. Catalog!ActiveOf(st).chain = << >>
    BY <1>1 DEF Catalog!ActiveOf, Catalog!Baseline
  <2>2. QED
    BY <2>1
<1>2. CASE st.active # 0
  BY <1>2 DEF Catalog!ActiveOf, Shelf, SoundSnapshot
<1>3. QED
  BY <1>1, <1>2

(* A revision number for the next snapshot.                                *)
LEMMA NextIsNat ==
    ASSUME Shelf, NEW st, st.snaps # 0 => DOMAIN snapshots # {}
    PROVE  Catalog!NextLocalRevision(st) \in Nat
<1>1. CASE st.snaps = 0
  BY <1>1 DEF Catalog!NextLocalRevision
<1>2. CASE st.snaps # 0
  <2>1. 1 \in DOMAIN snapshots
    BY <1>2 DEF Shelf
  <2>2. {1} \cup DOMAIN snapshots = DOMAIN snapshots
    BY <2>1
  <2>3. \E m \in DOMAIN snapshots : \A y \in DOMAIN snapshots : m >= y
    BY <2>2 DEF Shelf, HasTop
  <2>4. Catalog!Max(DOMAIN snapshots) \in DOMAIN snapshots
    BY <2>3 DEF Catalog!Max
  <2>5. QED
    BY <1>2, <2>4 DEF Catalog!NextLocalRevision, Shelf
<1>3. QED
  BY <1>1, <1>2

(* On a current state the envelope itself is the latest layer.             *)
LEMMA CandidateIsNew ==
    ASSUME CatalogInv, NEW call, call.env \in Envelopes, ReadEarlier(call.st), call.now \in Nat,
           Catalog!MergesOverActive(call), call.st.guard = catalogState.guard
    PROVE  Catalog!CandidateTemplate(call) = [version |-> call.env.version, body |-> call.env.body]
<1>1. PICK chained : chained = Catalog!ChainEnvelopes(Catalog!ActiveOf(call.st).chain)
  OBVIOUS
<1>2. chained \subseteq {u.env : u \in updates}
  BY <1>1, ActiveChain, ChainIs DEF CatalogInv, ReadEarlier
<1>3. PICK es : es = Catalog!Fresh(chained \cup {call.env}, call.now)
  OBVIOUS
<1>4. call.env \in es /\ es \subseteq chained \cup {call.env} /\ call.env.rev > catalogState.guard.rev
  BY <1>3 DEF Catalog!Fresh, Catalog!MergesOverActive, Catalog!Verifies
<1>5. catalogState.guard.rev \in Nat /\ call.env.rev \in Nat
  BY CatalogAssumption DEF CatalogInv, CatalogShape
<1>6. \A y \in es : y = call.env \/ (y.rev \in Nat /\ y.rev < call.env.rev)
  <2>1. \A u \in updates : u.env.rev \in Nat /\ u.env.rev <= catalogState.guard.rev
    BY CatalogAssumption DEF CatalogInv, Accepted
  <2>2. QED
    BY <1>2, <1>4, <1>5, <2>1
<1>7. \A x \in es : (\A y \in es : y.rev <= x.rev) <=> x = call.env
  BY <1>4, <1>5, <1>6
<1>8. (CHOOSE x \in es : \A y \in es : y.rev <= x.rev) = call.env
  BY <1>4, <1>7
<1>9. QED
  BY <1>1, <1>3, <1>8 DEF Catalog!CandidateTemplate

(* A plan ends with its lifetime or with its envelope.                     *)
LEMMA LesserIsNat == ASSUME NEW m \in Nat, NEW n \in Nat PROVE Catalog!Min({m, n}) \in Nat
<1>1. \E x \in {m, n} : \A y \in {m, n} : x <= y
  OBVIOUS
<1>2. QED
  BY <1>1 DEF Catalog!Min

-----------------------------------------------------------------------------
(* The calls read on.                                                      *)
LEMMA ReadUpdatesKeeps ==
    ASSUME CatalogInv, NEW c \in Callers, Catalog!ReadUpdates(c)
    PROVE  CatalogInv'
<1>1. PICK call : call = calls[c]
  OBVIOUS
<1>2. /\ call.pc = "updates"
      /\ UNCHANGED <<catalogState, updates, snapshots, audit, time, plans, pendingPlans>>
  BY <1>1 DEF Catalog!ReadUpdates, Catalog!db
<1>3. CallShape(call) /\ CallPlan(call)
  BY <1>1 DEF CatalogInv, Callings
<1>4. Reviews'
  BY <1>2, SameReviews DEF CatalogInv
<1>5. CASE calls' = [calls EXCEPT ![c] = Catalog!Idle]
  BY <1>2, <1>4, <1>5, CallStep, IdleCall
<1>6. ASSUME NEW pc \in {"history", "target"}, calls' = [calls EXCEPT ![c] = [call EXCEPT !.pc = pc]],
             pc = "history" <=> call.op \in {"prepare", "activate"},
             pc = "history" => Catalog!MergesOverActive(call)
      PROVE  CatalogInv'
  <2>1. PICK new : new = [call EXCEPT !.pc = pc]
    OBVIOUS
  <2>2. /\ DOMAIN new = DOMAIN call /\ new.pc = pc /\ new.op = call.op /\ new.now = call.now /\ new.st = call.st
        /\ call.op \in {"prepare", "activate"} => new.env = call.env
        /\ call.op \in {"plan_rollback", "rollback"} => new.target = call.target
        /\ call.op \in {"activate", "rollback"} => new.plan = call.plan
    BY <1>2, <1>3, <2>1 DEF CallShape
  <2>3. CallShape(new)
    BY <1>2, <1>3, <1>6, <2>2 DEF CallShape
  <2>4. CallPlan(new)
    BY <1>2, <1>3, <1>6, <2>2 DEF CallPlan, Activating, RollingBack
  <2>5. pc = "history" => Catalog!MergesOverActive(new)
    BY <1>6, <2>2 DEF Catalog!MergesOverActive
  <2>6. CallChecked(new)
    BY <1>6, <2>2, <2>5 DEF CallChecked
  <2>7. Activating(new) => Activating(calls[c])
    BY <1>1, <1>2, <2>2 DEF Activating
  <2>8. QED
    BY <1>2, <1>4, <1>6, <2>1, <2>3, <2>4, <2>6, <2>7, CallStep
<1>7. QED
  BY <1>1, <1>2, <1>5, <1>6 DEF Catalog!ReadUpdates, Catalog!Go, Catalog!Return

(* The immutability walk: its verdict holds for the version it read.       *)
LEMMA ReadHistoryKeeps ==
    ASSUME CatalogInv, NEW c \in Callers, Catalog!ReadHistory(c)
    PROVE  CatalogInv'
<1>1. PICK call : call = calls[c]
  OBVIOUS
<1>2. /\ call.pc = "history"
      /\ UNCHANGED <<catalogState, updates, snapshots, audit, time, plans>>
  BY <1>1 DEF Catalog!ReadHistory, Catalog!db
<1>3. CallShape(call) /\ CallPlan(call) /\ CallChecked(call)
  BY <1>1 DEF CatalogInv, Callings
<1>4. Reviews'
  <2>1. pendingPlans' = pendingPlans \/ pendingPlans' = Catalog!Drop(pendingPlans, {call.plan.id})
    BY <1>1 DEF Catalog!ReadHistory
  <2>2. QED
    BY <1>2, <2>1, SameReviews, DropReviews DEF CatalogInv
<1>5. /\ call.env \in Envelopes /\ ReadEarlier(call.st) /\ call.now \in 0..time /\ Catalog!MergesOverActive(call)
      /\ call.op \in {"prepare", "activate"}
  BY <1>2, <1>3 DEF CallShape, CallChecked
<1>6. CASE calls' = [calls EXCEPT ![c] = Catalog!Idle]
  BY <1>2, <1>4, <1>6, CallStep, IdleCall
<1>7. CASE /\ Catalog!TemplatesStayImmutable(Catalog!CandidateTemplate(call))
           /\ call.op = "activate" /\ Catalog!MatchesReview(call, call.plan)
           /\ calls' = [calls EXCEPT ![c] =
                  [pc |-> "commit", op |-> "activate", env |-> call.env, now |-> call.now,
                   plan |-> call.plan, st |-> call.st, to |-> Catalog!NextLocalRevision(call.st),
                   snap |-> Catalog!Candidate(call, call.plan.at)]]
  <2>1. PICK to, snap : to = Catalog!NextLocalRevision(call.st) /\ snap = Catalog!Candidate(call, call.plan.at)
    OBVIOUS
  <2>2. PICK new : new = [pc |-> "commit", op |-> "activate", env |-> call.env, now |-> call.now,
                          plan |-> call.plan, st |-> call.st, to |-> to, snap |-> snap]
    OBVIOUS
  <2>3. /\ DOMAIN new = {"pc", "op", "env", "now", "plan", "st", "to", "snap"} /\ new.pc = "commit"
        /\ new.op = "activate" /\ new.env = call.env /\ new.now = call.now /\ new.plan = call.plan
        /\ new.st = call.st /\ new.to = to /\ new.snap = snap
    BY <2>2
  <2>4. CallShape(new)
    BY <1>2, <1>3, <1>7, <2>3 DEF CallShape
  <2>5. CallPlan(new) /\ Activating(new) /\ Activating(calls[c])
    BY <1>1, <1>2, <1>3, <1>7, <2>3 DEF CallPlan, Activating, RollingBack
  <2>6. /\ to = call.plan.to /\ snap = call.plan.snap /\ call.st.ver = call.plan.ver
        /\ Catalog!RevisionOf(call.st) = call.plan.from
    BY <1>7, <2>1 DEF Catalog!MatchesReview
  <2>7. to \in Nat
    BY <1>5, <2>1, NextIsNat DEF CatalogInv, ReadEarlier
  <2>8. snap = Catalog!Candidate(new, new.plan.at) /\ Catalog!MergesOverActive(new)
    BY <1>5, <2>1, <2>3 DEF Catalog!Candidate, Catalog!MergesOverActive
  <2>9. call.st.ver = catalogState.ver => Catalog!TemplatesStayImmutable(
            [version |-> new.env.version, body |-> new.env.body])
    <3>1. SUFFICES ASSUME call.st.ver = catalogState.ver
                   PROVE  Catalog!TemplatesStayImmutable([version |-> new.env.version, body |-> new.env.body])
      OBVIOUS
    <3>2. call.st.guard = catalogState.guard /\ call.now \in Nat
      BY <1>5, <3>1 DEF ReadEarlier, CatalogInv, CatalogShape
    <3>3. Catalog!CandidateTemplate(call) = [version |-> call.env.version, body |-> call.env.body]
      BY <1>5, <3>2, CandidateIsNew
    <3>4. QED
      BY <1>7, <2>3, <3>3
  <2>10. CallChecked(new)
    BY <2>3, <2>6, <2>7, <2>8, <2>9 DEF CallChecked
  <2>11. QED
    BY <1>2, <1>4, <1>7, <2>1, <2>2, <2>4, <2>5, <2>10, CallStep
<1>8. CASE /\ call.op = "prepare"
           /\ calls' = [calls EXCEPT ![c] =
                  [pc |-> "register", op |-> "prepare", env |-> call.env, now |-> call.now,
                   st |-> call.st, plan |-> Catalog!ImportPlan(0, call)]]
  <2>1. PICK p : p = Catalog!ImportPlan(0, call)
    OBVIOUS
  <2>2. PICK new : new = [pc |-> "register", op |-> "prepare", env |-> call.env, now |-> call.now,
                          st |-> call.st, plan |-> p]
    OBVIOUS
  <2>3. /\ DOMAIN new = {"pc", "op", "env", "now", "st", "plan"} /\ new.pc = "register"
        /\ new.op = "prepare" /\ new.env = call.env /\ new.now = call.now /\ new.plan = p
        /\ new.st = call.st
    BY <2>2
  <2>4. PICK last : last = Catalog!Min({call.now + PlanLifetime, call.env.expires})
    OBVIOUS
  <2>5. /\ DOMAIN p = PlanFields /\ p.kind = "import" /\ p.env = call.env /\ p.at = call.now
        /\ p.ver = call.st.ver /\ p.expires = last
    BY <2>1, <2>4 DEF Catalog!ImportPlan, PlanFields
  <2>6. call.now \in Nat /\ call.now \in 0..MaxTime /\ call.env.expires \in Nat /\ PlanLifetime \in Nat
    BY <1>5, CatalogAssumption DEF CatalogInv, CatalogShape
  <2>7. last \in Nat
    BY <2>4, <2>6, LesserIsNat
  <2>8. CallShape(new)
    BY <1>2, <1>3, <1>8, <2>3 DEF CallShape
  <2>9. CallPlan(new)
    BY <1>5, <2>3, <2>5, <2>6, <2>7 DEF CallPlan, Activating, RollingBack, ReadEarlier, CatalogInv, CatalogShape
  <2>10. CallChecked(new) /\ ~Activating(new)
    BY <2>3 DEF CallChecked, Activating
  <2>11. QED
    BY <1>2, <1>4, <1>8, <2>1, <2>2, <2>8, <2>9, <2>10, CallStep
<1>9. QED
  BY <1>1, <1>5, <1>6, <1>7, <1>8 DEF Catalog!ReadHistory, Catalog!Go, Catalog!Return

(* A new plan has a number of its own.                                     *)
LEMMA PlanAdded ==
    ASSUME CatalogInv, NEW p, plans' = plans \cup {p}, p.id = Cardinality(plans) + 1,
           p.kind \in {"import", "rollback"}, p.at \in 0..MaxTime, p.expires \in Nat,
           p.ver \in 0..catalogState.ver, p.kind = "import" => p.env \in Envelopes
    PROVE  /\ IsFiniteSet(plans') /\ Cardinality(plans') = Cardinality(plans) + 1 /\ Cardinality(plans) \in Nat
           /\ \A q \in plans' :
                 /\ q.id \in 1..Cardinality(plans') /\ q.kind \in {"import", "rollback"}
                 /\ q.at \in 0..MaxTime /\ q.expires \in Nat /\ q.ver \in 0..catalogState.ver
                 /\ q.kind = "import" => q.env \in Envelopes
           /\ \A q, r \in plans' : q.id = r.id => q = r
           /\ \A i \in DOMAIN audit : audit[i].id # p.id
<1>1. IsFiniteSet(plans) /\ Cardinality(plans) \in Nat
  BY FS_CardinalityType DEF CatalogInv, Reviews
<1>2. \A q \in plans : q.id \in 1..Cardinality(plans)
  BY DEF CatalogInv, Reviews
<1>3. p \notin plans
  BY <1>1, <1>2
<1>4. IsFiniteSet(plans') /\ Cardinality(plans') = Cardinality(plans) + 1
  BY <1>1, <1>3, FS_AddElement
<1>5. \A q \in plans' :
         /\ q.id \in 1..Cardinality(plans') /\ q.kind \in {"import", "rollback"}
         /\ q.at \in 0..MaxTime /\ q.expires \in Nat /\ q.ver \in 0..catalogState.ver
         /\ q.kind = "import" => q.env \in Envelopes
  BY <1>1, <1>4 DEF CatalogInv, Reviews
<1>6. \A q, r \in plans' : q.id = r.id => q = r
  BY <1>1, <1>2 DEF CatalogInv, Reviews
<1>7. ASSUME NEW i \in DOMAIN audit PROVE audit[i].id # p.id
  <2>1. PICK q \in plans : q.id = audit[i].id
    BY DEF CatalogInv, Trail, Catalog!ActivatedAsReviewed
  <2>2. QED
    BY <1>1, <1>2, <2>1
<1>8. QED
  BY <1>1, <1>4, <1>5, <1>6, <1>7

(* A review is registered, in place of one of the same envelope.           *)
LEMMA RegisterPlanKeeps ==
    ASSUME CatalogInv, NEW c \in Callers, Catalog!RegisterPlan(c)
    PROVE  CatalogInv'
<1>1. PICK call : call = calls[c]
  OBVIOUS
<1>2. call.pc = "register" /\ UNCHANGED <<catalogState, updates, snapshots, audit, time>>
      /\ calls' = [calls EXCEPT ![c] = Catalog!Idle]
  BY <1>1 DEF Catalog!RegisterPlan, Catalog!db, Catalog!Return, Catalog!Go
<1>3. CallShape(call) /\ CallPlan(call)
  BY <1>1 DEF CatalogInv, Callings
<1>4. PICK p : p = [call.plan EXCEPT !.id = Cardinality(plans) + 1]
  OBVIOUS
<1>5. /\ p.id = Cardinality(plans) + 1 /\ p.kind = "import" /\ p.env \in Envelopes
      /\ p.at \in 0..MaxTime /\ p.expires \in Nat /\ p.ver \in 0..catalogState.ver
  BY <1>2, <1>3, <1>4 DEF CallPlan, PlanFields
<1>6. PICK gone : gone = {i \in DOMAIN pendingPlans : \/ pendingPlans[i].expires <= call.now
                                                     \/ pendingPlans[i].env = p.env}
  OBVIOUS
<1>7. PICK kept : kept = Catalog!Drop(pendingPlans, gone)
  OBVIOUS
<1>8. /\ DOMAIN kept = DOMAIN pendingPlans \ gone
      /\ \A i \in DOMAIN kept : i \in DOMAIN pendingPlans /\ kept[i] = pendingPlans[i] /\ kept[i].env # p.env
  BY <1>6, <1>7 DEF Catalog!Drop
<1>9. \/ pendingPlans' = kept /\ plans' = plans
      \/ /\ Cardinality(DOMAIN kept) < MaxPending
         /\ pendingPlans' = Catalog!Put(kept, p.id, p) /\ plans' = plans \cup {p}
  BY <1>1, <1>4, <1>6, <1>7, CatalogCardinality DEF Catalog!RegisterPlan
<1>10. CASE pendingPlans' = kept /\ plans' = plans
  <2>1. Reviews'
    BY <1>2, <1>7, <1>10, DropReviews DEF CatalogInv
  <2>2. QED
    BY <1>2, <1>10, <2>1, CallStep, IdleCall
<1>11. CASE /\ Cardinality(DOMAIN kept) < MaxPending
            /\ pendingPlans' = Catalog!Put(kept, p.id, p) /\ plans' = plans \cup {p}
  <2>1. /\ IsFiniteSet(plans') /\ Cardinality(plans') = Cardinality(plans) + 1 /\ Cardinality(plans) \in Nat
        /\ \A q \in plans' :
                 /\ q.id \in 1..Cardinality(plans') /\ q.kind \in {"import", "rollback"}
                 /\ q.at \in 0..MaxTime /\ q.expires \in Nat /\ q.ver \in 0..catalogState.ver
                 /\ q.kind = "import" => q.env \in Envelopes
        /\ \A q, r \in plans' : q.id = r.id => q = r
        /\ \A i \in DOMAIN audit : audit[i].id # p.id
    BY <1>5, <1>11, PlanAdded
  <2>2. /\ DOMAIN pendingPlans' = DOMAIN kept \cup {p.id} /\ pendingPlans'[p.id] = p
        /\ \A i \in DOMAIN kept : i # p.id => pendingPlans'[i] = kept[i]
    BY <1>11 DEF Catalog!Put
  <2>3. IsFiniteSet(DOMAIN kept)
    BY <1>8, FS_Subset DEF CatalogInv, Reviews
  <2>4. /\ IsFiniteSet(DOMAIN pendingPlans')
        /\ Cardinality(DOMAIN pendingPlans') \in Nat /\ Cardinality(DOMAIN kept) \in Nat
        /\ Cardinality(DOMAIN pendingPlans') <= Cardinality(DOMAIN kept) + 1
    <3>1. /\ IsFiniteSet(DOMAIN kept \cup {p.id})
          /\ \/ Cardinality(DOMAIN kept \cup {p.id}) = Cardinality(DOMAIN kept)
             \/ Cardinality(DOMAIN kept \cup {p.id}) = Cardinality(DOMAIN kept) + 1
      BY <2>3, FS_AddElement
    <3>2. Cardinality(DOMAIN kept) \in Nat
      BY <2>3, FS_CardinalityType
    <3>3. QED
      BY <2>2, <3>1, <3>2
  <2>5. Cardinality(DOMAIN pendingPlans') <= MaxPending
    BY <1>11, <2>4, CatalogAssumption
  <2>6. Catalog!Cardinality(DOMAIN pendingPlans)' <= MaxPending
    BY <2>5, CatalogCardinality
  <2>7. \A i \in DOMAIN pendingPlans' :
           pendingPlans'[i] \in plans' /\ pendingPlans'[i].id = i /\ pendingPlans'[i].kind = "import"
    BY <1>5, <1>8, <1>11, <2>2 DEF CatalogInv, Reviews
  <2>8. \A i, j \in DOMAIN pendingPlans' : pendingPlans'[i].env = pendingPlans'[j].env => i = j
    BY <1>8, <2>2 DEF CatalogInv, Reviews, Catalog!ReviewsAreCurrent
  <2>9. \A i \in DOMAIN audit' : audit'[i].id \notin DOMAIN pendingPlans'
    BY <1>2, <1>8, <2>1, <2>2 DEF CatalogInv, Reviews, Catalog!ReviewsAreCurrent
  <2>10. Catalog!ReviewsAreCurrent'
    BY <2>6, <2>8, <2>9 DEF Catalog!ReviewsAreCurrent
  <2>11. Reviews'
    BY <1>2, <2>1, <2>4, <2>7, <2>10 DEF Reviews
  <2>12. QED
    BY <1>2, <1>11, <2>11, CallStep, IdleCall
<1>12. QED
  BY <1>9, <1>10, <1>11

(* The target of a rollback is read, and found to be operational.          *)
LEMMA ReadTargetKeeps ==
    ASSUME CatalogInv, NEW c \in Callers, Catalog!ReadTarget(c)
    PROVE  CatalogInv'
<1>1. PICK call : call = calls[c]
  OBVIOUS
<1>2. call.pc = "target" /\ UNCHANGED <<catalogState, updates, snapshots, audit, time, pendingPlans>>
  BY <1>1 DEF Catalog!ReadTarget, Catalog!db
<1>3. CallShape(call) /\ CallPlan(call)
  BY <1>1 DEF CatalogInv, Callings
<1>4. call.now \in Nat /\ call.now \in 0..MaxTime /\ ReadEarlier(call.st) /\ PlanLifetime \in Nat
  BY <1>2, <1>3, CatalogAssumption DEF CallShape, CatalogInv, CatalogShape
<1>5. CASE UNCHANGED plans /\ calls' = [calls EXCEPT ![c] = Catalog!Idle]
  BY <1>2, <1>5, CallStep, IdleCall, SameReviews DEF CatalogInv
<1>6. CASE /\ plans' = plans \cup {Catalog!RollbackPlan(Cardinality(plans) + 1, call)}
           /\ calls' = [calls EXCEPT ![c] = Catalog!Idle]
  <2>1. PICK p : p = Catalog!RollbackPlan(Cardinality(plans) + 1, call)
    OBVIOUS
  <2>2. /\ p.id = Cardinality(plans) + 1 /\ p.kind = "rollback" /\ p.ver = call.st.ver
        /\ p.at = call.now /\ p.expires = call.now + PlanLifetime
    BY <2>1 DEF Catalog!RollbackPlan
  <2>3. p.ver \in 0..catalogState.ver /\ p.at \in 0..MaxTime /\ p.expires \in Nat
    BY <1>4, <2>2 DEF ReadEarlier, CatalogInv, CatalogShape
  <2>4. /\ IsFiniteSet(plans')
        /\ \A q \in plans' :
                 /\ q.id \in 1..Cardinality(plans') /\ q.kind \in {"import", "rollback"}
                 /\ q.at \in 0..MaxTime /\ q.expires \in Nat /\ q.ver \in 0..catalogState.ver
                 /\ q.kind = "import" => q.env \in Envelopes
        /\ \A q, r \in plans' : q.id = r.id => q = r
    BY <1>6, <2>1, <2>2, <2>3, PlanAdded
  <2>5. Catalog!Cardinality(DOMAIN pendingPlans)' = Catalog!Cardinality(DOMAIN pendingPlans)
    BY <1>2, CatalogCardinality
  <2>6. Catalog!ReviewsAreCurrent'
    BY <1>2, <2>5 DEF CatalogInv, Reviews, Catalog!ReviewsAreCurrent
  <2>7. Reviews'
    BY <1>2, <1>6, <2>4, <2>6 DEF CatalogInv, Reviews
  <2>8. QED
    BY <1>2, <1>6, <2>7, CallStep, IdleCall
<1>7. CASE /\ call.op = "rollback" /\ UNCHANGED plans
           /\ calls' = [calls EXCEPT ![c] = [call EXCEPT !.pc = "commit"]]
           /\ Catalog!TargetFound(call.target) /\ Catalog!AppliesRollback(call)
           /\ Catalog!Operational(Catalog!TargetSnapshot(call.target), call.now)
  <2>1. PICK new : new = [call EXCEPT !.pc = "commit"]
    OBVIOUS
  <2>2. /\ DOMAIN new = DOMAIN call /\ new.pc = "commit" /\ new.op = "rollback" /\ new.now = call.now
        /\ new.st = call.st /\ new.target = call.target /\ new.plan = call.plan
    BY <1>2, <1>3, <1>7, <2>1 DEF CallShape
  <2>3. CallShape(new)
    BY <1>2, <1>3, <1>7, <2>2 DEF CallShape
  <2>4. CallPlan(new) /\ ~Activating(new)
    BY <1>2, <1>3, <1>7, <2>2 DEF CallPlan, Activating, RollingBack
  <2>5. PICK snap : snap = Catalog!TargetSnapshot(call.target)
    OBVIOUS
  <2>6. snap = call.plan.snap /\ call.now < call.plan.expires
    BY <1>7, <2>5 DEF Catalog!AppliesRollback
  <2>7. IF call.target \in DOMAIN snapshots THEN snapshots[call.target] = snap
        ELSE call.target = 1 /\ snap = Catalog!Baseline
    BY <1>7, <2>5 DEF Catalog!TargetFound, Catalog!TargetSnapshot
  <2>8. snap.chain \in Seq(Revisions)
    <3>1. CASE call.target \in DOMAIN snapshots
      BY <2>7, <3>1 DEF CatalogInv, Shelf, SoundSnapshot
    <3>2. CASE call.target \notin DOMAIN snapshots
      <4>1. snap.chain = << >>
        BY <2>7, <3>2 DEF Catalog!Baseline
      <4>2. QED
        BY <4>1
    <3>3. QED
      BY <3>1, <3>2
  <2>9. Catalog!Mergeable(Catalog!Fresh(Catalog!ChainEnvelopes(snap.chain), call.now))
    BY <1>7, <2>5 DEF Catalog!Operational
  <2>10. CallChecked(new)
    BY <2>2, <2>6, <2>7, <2>8, <2>9 DEF CallChecked
  <2>11. QED
    BY <1>2, <1>7, <2>1, <2>3, <2>4, <2>10, CallStep, SameReviews DEF CatalogInv
<1>8. QED
  BY <1>1, <1>5, <1>6, <1>7, CatalogCardinality DEF Catalog!ReadTarget, Catalog!Go, Catalog!Return

-----------------------------------------------------------------------------
(* What another call holds survives an activation: it reads as older.      *)
LEMMA CallOutlives ==
    ASSUME CatalogInv, Grows, UNCHANGED <<plans, time>>, catalogState'.ver = catalogState.ver + 1,
           1 \in DOMAIN snapshots' => snapshots'[1] = Catalog!Baseline,
           NEW call, CallShape(call), CallPlan(call), CallChecked(call),
           Activating(call) => UNCHANGED updates
    PROVE  CallShape(call)' /\ CallPlan(call)' /\ CallChecked(call)'
<1>1. catalogState.ver \in Nat
  BY DEF CatalogInv, CatalogShape
<1>2. \A st : ReadEarlier(st) => ReadEarlier(st)' /\ st.ver # catalogState'.ver
  BY <1>1 DEF Grows, ReadEarlier
<1>3. CallShape(call)'
  BY <1>2 DEF CallShape, Catalog!Idle
<1>4. CallPlan(call)'
  <2>1. \A n \in 0..catalogState.ver : n \in 0..catalogState'.ver /\ n # catalogState'.ver
    BY <1>1
  <2>2. call.pc = "lock" => call.plan.ver \in 0..catalogState.ver
    BY DEF CallShape, CatalogInv, Reviews
  <2>3. RollingBack(call) => call.st.ver # catalogState'.ver
    BY <1>2 DEF RollingBack, CallShape
  <2>4. QED
    BY <2>1, <2>2, <2>3 DEF CallPlan, Activating, RollingBack, PlanFields
<1>5. ASSUME ReadEarlier(call.st)
      PROVE  /\ Catalog!ChainEnvelopes(Catalog!ActiveOf(call.st).chain)' = Catalog!ChainEnvelopes(Catalog!ActiveOf(call.st).chain)
             /\ Catalog!ActiveOf(call.st)' = Catalog!ActiveOf(call.st)
  <2>1. Catalog!ActiveOf(call.st)' = Catalog!ActiveOf(call.st)
    BY <1>5 DEF ReadEarlier, Grows, Catalog!ActiveOf, Catalog!Baseline
  <2>2. PICK chain : chain = Catalog!ActiveOf(call.st).chain
    OBVIOUS
  <2>3. chain \in Seq(Revisions)
    BY <1>5, <2>2, ActiveChain DEF ReadEarlier, CatalogInv
  <2>4. Catalog!ChainEnvelopes(chain)' = Catalog!ChainEnvelopes(chain)
    BY <2>3, ChainStays DEF CatalogInv
  <2>5. QED
    BY <2>1, <2>2, <2>4
<1>6. ASSUME ReadEarlier(call.st), Catalog!MergesOverActive(call) PROVE Catalog!MergesOverActive(call)'
  <2>1. PICK es : es = Catalog!ChainEnvelopes(Catalog!ActiveOf(call.st).chain)
    OBVIOUS
  <2>2. es = Catalog!ChainEnvelopes(Catalog!ActiveOf(call.st).chain)'
    BY <1>5, <1>6, <2>1
  <2>3. Catalog!Verifies(call.env, call.st.guard, call.now)' = Catalog!Verifies(call.env, call.st.guard, call.now)
    BY DEF Catalog!Verifies
  <2>4. Catalog!Mergeable(Catalog!Fresh(es \cup {call.env}, call.now))' = Catalog!Mergeable(Catalog!Fresh(es \cup {call.env}, call.now))
    BY DEF Catalog!Mergeable, Catalog!Fresh
  <2>5. QED
    BY <1>6, <2>1, <2>2, <2>3, <2>4 DEF Catalog!MergesOverActive
<1>7. ASSUME ReadEarlier(call.st), NEW at PROVE Catalog!Candidate(call, at)' = Catalog!Candidate(call, at)
  BY <1>5, <1>7 DEF Catalog!Candidate, Catalog!View, Catalog!Fresh
<1>8. call.pc = "history" \/ (call.pc = "commit" /\ call.op = "activate") => Catalog!MergesOverActive(call)'
  BY <1>6 DEF CallChecked, CallShape
<1>9. ASSUME call.pc = "commit", call.op = "activate"
      PROVE  /\ call.to = call.plan.to /\ call.to \in Nat /\ call.st.ver = call.plan.ver
             /\ call.snap = call.plan.snap /\ call.snap = Catalog!Candidate(call, call.plan.at)'
             /\ Catalog!RevisionOf(call.st)' = call.plan.from
             /\ call.st.ver # catalogState'.ver
  <2>1. ReadEarlier(call.st)
    BY <1>9 DEF CallShape
  <2>2. Catalog!RevisionOf(call.st)' = Catalog!RevisionOf(call.st)
    BY DEF Catalog!RevisionOf
  <2>3. QED
    BY <1>2, <1>7, <1>9, <2>1, <2>2 DEF CallChecked
<1>10. ASSUME call.pc = "commit", call.op = "rollback"
       PROVE  /\ call.now < call.plan.expires /\ call.plan.snap.chain \in Seq(Revisions')
              /\ IF call.target \in DOMAIN snapshots' THEN snapshots'[call.target] = call.plan.snap
                 ELSE call.target = 1 /\ call.plan.snap = Catalog!Baseline'
              /\ Catalog!Mergeable(Catalog!Fresh(Catalog!ChainEnvelopes(call.plan.snap.chain), call.now))'
  <2>1. /\ call.now < call.plan.expires /\ call.plan.snap.chain \in Seq(Revisions)
        /\ IF call.target \in DOMAIN snapshots THEN snapshots[call.target] = call.plan.snap
           ELSE call.target = 1 /\ call.plan.snap = Catalog!Baseline
        /\ Catalog!Mergeable(Catalog!Fresh(Catalog!ChainEnvelopes(call.plan.snap.chain), call.now))
    BY <1>10 DEF CallChecked
  <2>2. Catalog!Baseline' = Catalog!Baseline
    BY DEF Catalog!Baseline
  <2>3. PICK chain : chain = call.plan.snap.chain
    OBVIOUS
  <2>4. chain \in Seq(Revisions') /\ Catalog!ChainEnvelopes(chain)' = Catalog!ChainEnvelopes(chain)
    BY <2>1, <2>3, ChainStays DEF CatalogInv
  <2>5. PICK es : es = Catalog!ChainEnvelopes(chain)
    OBVIOUS
  <2>6. Catalog!Mergeable(Catalog!Fresh(es, call.now))' = Catalog!Mergeable(Catalog!Fresh(es, call.now))
    BY DEF Catalog!Mergeable, Catalog!Fresh
  <2>7. Catalog!Mergeable(Catalog!Fresh(Catalog!ChainEnvelopes(call.plan.snap.chain), call.now))'
    BY <2>1, <2>3, <2>4, <2>5, <2>6
  <2>8. QED
    BY <2>1, <2>2, <2>3, <2>4, <2>7 DEF Grows
<1>11. CallChecked(call)'
  BY <1>8, <1>9, <1>10 DEF CallChecked
<1>12. QED
  BY <1>3, <1>4, <1>11

(* An activation: the version moves on, and one call is over.              *)
LEMMA VersionStep ==
    ASSUME CatalogInv, Grows, NEW c \in Callers, calls' = [calls EXCEPT ![c] = Catalog!Idle],
           UNCHANGED <<plans, time>>, catalogState'.ver = catalogState.ver + 1,
           1 \in DOMAIN snapshots' => snapshots'[1] = Catalog!Baseline,
           Activating(calls[c]) \/ UNCHANGED updates,
           CatalogShape', Accepted', Shelf', Trail', Reviews'
    PROVE  CatalogInv'
<1>1. /\ calls' = [d \in Callers |-> calls'[d]] /\ calls'[c] = Catalog!Idle
      /\ \A d \in Callers : d # c => calls'[d] = calls[d]
  BY DEF CatalogInv, Callings
<1>2. ASSUME NEW d \in Callers PROVE (CallShape(calls[d]) /\ CallPlan(calls[d]) /\ CallChecked(calls[d]))'
  <2>1. PICK call : call = calls'[d]
    OBVIOUS
  <2>2. CallShape(call) /\ CallPlan(call) /\ CallChecked(call)
    BY <1>1, <2>1, IdleCall DEF CatalogInv, Callings
  <2>3. Activating(call) => UNCHANGED updates
    BY <1>1, <2>1, IdleCall DEF CatalogInv, Callings
  <2>4. CallShape(call)' /\ CallPlan(call)' /\ CallChecked(call)'
    BY <2>2, <2>3, CallOutlives
  <2>5. QED
    BY <2>1, <2>4
<1>3. \A d, e \in Callers : Activating(calls'[d]) /\ Activating(calls'[e]) => d = e
  BY <1>1, IdleCall DEF CatalogInv, Callings
<1>4. Callings'
  BY <1>1, <1>2, <1>3 DEF Callings, Activating
<1>5. QED
  BY <1>4 DEF CatalogInv

(* Layers that were fresh once only expire.                                *)
LEMMA LayersExpire ==
    ASSUME NEW es, NEW now \in Nat, NEW later \in Nat, now <= later,
           \A e \in es : e.effective \in Nat /\ e.expires \in Nat /\ e.effective <= now,
           Catalog!Mergeable(Catalog!Fresh(es, now))
    PROVE  Catalog!Mergeable(Catalog!Fresh(es, later))
<1>1. Catalog!Fresh(es, later) \subseteq Catalog!Fresh(es, now)
  BY DEF Catalog!Fresh
<1>2. QED
  BY <1>1 DEF Catalog!Mergeable

(* So a chain that merged once merges at every later time.                 *)
LEMMA FreshShrinks ==
    ASSUME Accepted, NEW chain \in Seq(Revisions), NEW now \in Nat, NEW later \in Nat, now <= later,
           \A u \in updates : u.at <= now,
           Catalog!Mergeable(Catalog!Fresh(Catalog!ChainEnvelopes(chain), now))
    PROVE  Catalog!Mergeable(Catalog!Fresh(Catalog!ChainEnvelopes(chain), later))
<1>1. PICK es : es = Catalog!ChainEnvelopes(chain)
  OBVIOUS
<1>2. es \subseteq {u.env : u \in updates}
  BY <1>1, ChainIs
<1>3. \A e \in es : e.effective \in Nat /\ e.expires \in Nat /\ e.effective <= now
  <2>1. \A u \in updates : /\ u.env.effective \in Nat /\ u.env.expires \in Nat
                           /\ u.at \in Nat /\ u.env.effective <= u.at /\ u.at <= now
    BY CatalogAssumption DEF Accepted
  <2>2. \A u \in updates : u.env.effective <= now
    BY <2>1
  <2>3. QED
    BY <1>2, <2>1, <2>2
<1>4. QED
  BY <1>1, <1>3, LayersExpire

(* Appending keeps the rows before.                                        *)
LEMMA Appended ==
    ASSUME NEW T, NEW s \in Seq(T), NEW x \in T, NEW n, n = Len(s), NEW t, t = Append(s, x)
    PROVE  /\ n \in Nat /\ t \in Seq(T) /\ Len(t) = n + 1 /\ t[n + 1] = x
           /\ DOMAIN s = 1..n /\ DOMAIN t = 1..(n + 1) /\ \A i \in 1..n : t[i] = s[i]
<1>1. n \in Nat /\ DOMAIN s = 1..n
  OBVIOUS
<1>2. t \in Seq(T) /\ Len(t) = n + 1 /\ t[n + 1] = x
  OBVIOUS
<1>3. DOMAIN t = 1..(n + 1)
  BY <1>2
<1>4. \A i \in 1..n : t[i] = s[i]
  BY <1>1
<1>5. QED
  BY <1>1, <1>2, <1>3, <1>4

(* Rows are numbered without a gap.                                        *)
LEMMA RowNumbers ==
    ASSUME NEW n \in Nat
    PROVE  /\ \A i \in 1..n : i # 1 => i - 1 \in 1..n
           /\ \A i \in 1..(n + 1) : i = n + 1 \/ i \in 1..n
           /\ \A i \in 1..n : i \in 1..(n + 1)
OBVIOUS

(* The audit only grows at its end.                                        *)
LEMMA RowsAppended ==
    ASSUME Trail, NEW row, audit' = Append(audit, row),
           row \in [ver : Nat, kind : {"import", "rollback"}, id : Nat, from : Nat, to : Nat, at : Nat]
    PROVE  \A i \in DOMAIN audit' : audit'[i] = row \/ (i \in DOMAIN audit /\ audit'[i] = audit[i])
<1>1. audit \in Seq([ver : Nat, kind : {"import", "rollback"}, id : Nat, from : Nat, to : Nat, at : Nat])
  BY DEF Trail
<1>2. PICK n : n = Len(audit)
  OBVIOUS
<1>3. /\ n \in Nat /\ audit'[n + 1] = row
      /\ DOMAIN audit = 1..n /\ DOMAIN audit' = 1..(n + 1) /\ \A i \in 1..n : audit'[i] = audit[i]
  BY <1>1, <1>2, Appended
<1>4. QED
  BY <1>3, RowNumbers

(* A row for an activation that was reviewed.                              *)
LEMMA TrailGrows ==
    ASSUME CatalogInv, Grows, UNCHANGED plans, catalogState'.ver = catalogState.ver + 1,
           NEW row, audit' = Append(audit, row),
           row \in [ver : Nat, kind : {"import", "rollback"}, id : Nat, from : Nat, to : Nat, at : Nat],
           row.ver = catalogState.ver + 1, row.from = Catalog!RevisionOf(catalogState),
           row.to = catalogState'.active, row.to \in DOMAIN snapshots',
           NEW p \in plans, p.id = row.id, p.kind = row.kind, p.ver + 1 = row.ver,
           p.from = row.from, p.to = row.to, row.at < p.expires, snapshots'[p.to] = p.snap
    PROVE  Trail'
<1>1. /\ audit \in Seq([ver : Nat, kind : {"import", "rollback"}, id : Nat, from : Nat, to : Nat, at : Nat])
      /\ Len(audit) = catalogState.ver /\ catalogState.ver \in Nat
  BY DEF CatalogInv, Trail, CatalogShape
<1>2. /\ audit' \in Seq([ver : Nat, kind : {"import", "rollback"}, id : Nat, from : Nat, to : Nat, at : Nat])
      /\ Len(audit') = catalogState.ver + 1 /\ audit'[catalogState.ver + 1] = row
      /\ DOMAIN audit = 1..catalogState.ver
      /\ \A i \in 1..catalogState.ver : audit'[i] = audit[i]
      /\ DOMAIN audit' = 1..(catalogState.ver + 1)
  BY <1>1, Appended
<1>3. row.from = IF catalogState.ver = 0 THEN 1 ELSE audit[catalogState.ver].to
  BY <1>1 DEF CatalogInv, Shelf, Trail, Catalog!RevisionOf
<1>4. ASSUME NEW i \in DOMAIN audit'
      PROVE  /\ audit'[i].ver = i /\ audit'[i].to \in DOMAIN snapshots'
             /\ audit'[i].from = IF i = 1 THEN 1 ELSE audit'[i - 1].to
  <2>1. CASE i = catalogState.ver + 1
    <3>1. i - 1 = catalogState.ver /\ (i = 1 <=> catalogState.ver = 0)
      BY <1>1, <2>1
    <3>2. i # 1 => audit'[i - 1] = audit[catalogState.ver]
      <4>1. SUFFICES ASSUME i # 1 PROVE audit'[catalogState.ver] = audit[catalogState.ver]
        BY <3>1
      <4>2. catalogState.ver \in 1..catalogState.ver
        BY <1>1, <3>1, <4>1
      <4>3. QED
        BY <1>2, <4>2
    <3>3. QED
      BY <1>2, <1>3, <2>1, <3>1, <3>2
  <2>2. CASE i \in 1..catalogState.ver
    <3>1. /\ audit[i].ver = i /\ audit[i].to \in DOMAIN snapshots
          /\ audit[i].from = IF i = 1 THEN 1 ELSE audit[i - 1].to
      BY <1>2, <2>2 DEF CatalogInv, Trail
    <3>2. i # 1 => audit'[i - 1] = audit[i - 1]
      <4>1. SUFFICES ASSUME i # 1 PROVE i - 1 \in 1..catalogState.ver
        BY <1>2
      <4>2. QED
        BY <1>1, <2>2, <4>1, RowNumbers
    <3>3. QED
      BY <1>2, <2>2, <3>1, <3>2 DEF Grows
  <2>3. QED
    BY <1>1, <1>2, <2>1, <2>2, RowNumbers
<1>5. ASSUME NEW i \in DOMAIN audit'
      PROVE  \E q \in plans' :
                /\ q.id = audit'[i].id /\ q.kind = audit'[i].kind /\ q.ver + 1 = audit'[i].ver
                /\ q.from = audit'[i].from /\ q.to = audit'[i].to
                /\ audit'[i].at < q.expires /\ snapshots'[q.to] = q.snap
  <2>1. CASE i = catalogState.ver + 1
    BY <1>2, <2>1
  <2>2. CASE i \in 1..catalogState.ver
    <3>1. PICK q \in plans :
                /\ q.id = audit[i].id /\ q.kind = audit[i].kind /\ q.ver + 1 = audit[i].ver
                /\ q.from = audit[i].from /\ q.to = audit[i].to
                /\ audit[i].at < q.expires /\ snapshots[q.to] = q.snap
      BY <1>2, <2>2 DEF CatalogInv, Trail, Catalog!ActivatedAsReviewed
    <3>2. q.to \in DOMAIN snapshots
      BY <1>2, <2>2, <3>1 DEF CatalogInv, Trail
    <3>3. QED
      BY <1>2, <2>2, <3>1, <3>2 DEF Grows
  <2>3. QED
    BY <1>1, <1>2, <2>1, <2>2, RowNumbers
<1>6. Catalog!ActivatedAsReviewed'
  BY <1>5 DEF Catalog!ActivatedAsReviewed
<1>7. QED
  BY <1>1, <1>2, <1>4, <1>6 DEF Trail

(* activate_catalog_rollback, applied or refused.                          *)
LEMMA CommitRollbackKeeps ==
    ASSUME CatalogInv, NEW c \in Callers, Catalog!CommitRollback(c)
    PROVE  CatalogInv'
<1>1. PICK call : call = calls[c]
  OBVIOUS
<1>2. /\ call.pc = "commit" /\ call.op = "rollback" /\ UNCHANGED <<updates, snapshots, pendingPlans, plans, time>>
      /\ calls' = [calls EXCEPT ![c] = Catalog!Idle]
  BY <1>1 DEF Catalog!CommitRollback, Catalog!Return, Catalog!Go
<1>3. CallShape(call) /\ CallPlan(call) /\ CallChecked(call)
  BY <1>1 DEF CatalogInv, Callings
<1>4. CASE UNCHANGED <<catalogState, audit>>
  BY <1>2, <1>4, CallStep, IdleCall, SameReviews DEF CatalogInv
<1>5. CASE /\ Catalog!RollbackIsValid(call)
           /\ catalogState' = [catalogState EXCEPT !.ver = @ + 1, !.active = call.target]
           /\ audit' = Append(audit, Catalog!AuditRow(call, call.target, catalogState.active))
  <2>1. /\ catalogState.ver = call.st.ver /\ catalogState.active # 0 /\ call.target \in DOMAIN snapshots
        /\ call.plan.from = catalogState.active /\ call.now < call.plan.expires
    BY <1>5 DEF Catalog!RollbackIsValid, Catalog!ExpectedState
  <2>2. /\ catalogState'.ver = catalogState.ver + 1 /\ catalogState'.active = call.target
        /\ catalogState'.guard = catalogState.guard /\ catalogState.ver \in Nat /\ call.target \in Nat \ {0}
        /\ catalogState' \in [ver : Nat, active : Nat, guard : [rev : Nat, issued : Nat]]
    <3>1. catalogState \in [ver : Nat, active : Nat, guard : [rev : Nat, issued : Nat]]
      BY DEF CatalogInv, CatalogShape
    <3>2. call.target \in Nat \ {0}
      BY <2>1 DEF CatalogInv, Shelf
    <3>3. catalogState' = [ver |-> catalogState.ver + 1, active |-> call.target, guard |-> catalogState.guard]
      BY <1>5, <3>1
    <3>4. QED
      BY <3>1, <3>2, <3>3
  <2>3. /\ call.plan \in plans /\ call.plan.kind = "rollback" /\ call.plan.to = call.target
        /\ call.plan.ver = call.st.ver /\ \A u \in updates : u.at <= call.now
        /\ snapshots[call.target] = call.plan.snap /\ call.plan.snap.chain \in Seq(Revisions)
        /\ Catalog!Mergeable(Catalog!Fresh(Catalog!ChainEnvelopes(call.plan.snap.chain), call.now))
        /\ call.now \in 0..time
    BY <1>2, <1>3, <2>1 DEF CallShape, CallPlan, CallChecked, RollingBack
  <2>4. Grows
    BY <1>2 DEF Grows, CatalogInv, Accepted
  <2>5. CatalogShape'
    BY <1>2, <2>2 DEF CatalogInv, CatalogShape, Catalog!NoGuard, Catalog!GuardAfter
  <2>6. Accepted'
    BY <1>2, <2>2 DEF CatalogInv, Accepted, Catalog!NoGuard, Catalog!GuardAfter
  <2>7. Shelf'
    <3>1. LayersMerge'
      <4>1. PICK chain : chain = call.plan.snap.chain
        OBVIOUS
      <4>2. Catalog!Mergeable(Catalog!Fresh(Catalog!ChainEnvelopes(chain), time))
        BY <2>3, <4>1, FreshShrinks DEF CatalogInv, CatalogShape
      <4>3. Catalog!ActiveOf(catalogState)'.chain = chain
        BY <1>2, <2>2, <2>3, <4>1 DEF Catalog!ActiveOf
      <4>4. PICK es : es = Catalog!ChainEnvelopes(chain)
        OBVIOUS
      <4>5. Catalog!ChainEnvelopes(Catalog!ActiveOf(catalogState).chain)' = es
        BY <1>2, <4>3, <4>4, SameRows
      <4>6. Catalog!Mergeable(Catalog!Fresh(es, time))'
        BY <1>2, <4>2, <4>4 DEF Catalog!Mergeable, Catalog!Fresh
      <4>7. QED
        BY <4>5, <4>6 DEF LayersMerge
    <3>2. Catalog!PublishedTemplatesAgree'
      BY <1>2, SameRows DEF CatalogInv, Shelf, Catalog!PublishedTemplatesAgree
    <3>3. \A r \in DOMAIN snapshots : SoundSnapshot(snapshots[r])'
      BY <1>2, SameRows DEF CatalogInv, Shelf, SoundSnapshot, HasTop
    <3>4. QED
      BY <1>2, <2>1, <2>2, <3>1, <3>2, <3>3 DEF CatalogInv, Shelf, HasTop, Catalog!Baseline
  <2>8. PICK row : row = Catalog!AuditRow(call, call.target, catalogState.active)
    OBVIOUS
  <2>9. /\ row \in [ver : Nat, kind : {"import", "rollback"}, id : Nat, from : Nat, to : Nat, at : Nat]
        /\ row.ver = catalogState.ver + 1 /\ row.from = catalogState.active /\ row.to = call.target
        /\ row.id = call.plan.id /\ row.kind = "rollback" /\ row.at = call.now
    <3>1. call.plan.id \in Nat /\ call.now \in Nat /\ catalogState.active \in Nat
      BY <2>3 DEF CatalogInv, Reviews, CatalogShape
    <3>2. row = [ver |-> catalogState.ver + 1, kind |-> "rollback", id |-> call.plan.id,
                 from |-> catalogState.active, to |-> call.target, at |-> call.now]
      BY <2>3, <2>8 DEF Catalog!AuditRow
    <3>3. QED
      BY <2>2, <3>1, <3>2
  <2>10. Trail'
    <3>1. row.from = Catalog!RevisionOf(catalogState)
      BY <2>1, <2>9 DEF Catalog!RevisionOf
    <3>2. snapshots'[call.plan.to] = call.plan.snap /\ row.to \in DOMAIN snapshots'
      BY <1>2, <2>1, <2>3, <2>9
    <3>3. UNCHANGED plans /\ audit' = Append(audit, row)
      BY <1>2, <1>5, <2>8
    <3>4. PICK p \in plans : p = call.plan
      BY <2>3
    <3>5. /\ p.id = row.id /\ p.kind = row.kind /\ p.ver + 1 = row.ver /\ p.from = row.from /\ p.to = row.to
          /\ row.at < p.expires /\ snapshots'[p.to] = p.snap
      BY <2>1, <2>3, <2>9, <3>2, <3>4
    <3>6. catalogState'.ver = catalogState.ver + 1 /\ row.to = catalogState'.active
      BY <2>2, <2>9
    <3>7. QED
      BY <2>4, <2>9, <3>1, <3>2, <3>3, <3>5, <3>6, TrailGrows
  <2>11. Reviews'
    <3>1. call.plan.id \notin DOMAIN pendingPlans
      BY <2>3 DEF CatalogInv, Reviews
    <3>2. \A i \in DOMAIN audit' : audit'[i].id = call.plan.id \/ (i \in DOMAIN audit /\ audit'[i] = audit[i])
      <4>1. audit' = Append(audit, row)
        BY <1>5, <2>8
      <4>2. QED
        BY <2>9, <4>1, RowsAppended DEF CatalogInv
    <3>3. \A i \in DOMAIN audit' : audit'[i].id \notin DOMAIN pendingPlans
      BY <3>1, <3>2 DEF CatalogInv, Reviews, Catalog!ReviewsAreCurrent
    <3>4. Catalog!Cardinality(DOMAIN pendingPlans)' = Catalog!Cardinality(DOMAIN pendingPlans)
      BY <1>2, CatalogCardinality
    <3>5. Catalog!ReviewsAreCurrent'
      BY <1>2, <3>3, <3>4 DEF CatalogInv, Reviews, Catalog!ReviewsAreCurrent
    <3>6. QED
      <4>1. \A n \in 0..catalogState.ver : n \in 0..catalogState'.ver
        BY <2>2
      <4>2. QED
        BY <1>2, <3>5, <4>1 DEF CatalogInv, Reviews
  <2>12. QED
    BY <1>2, <2>2, <2>4, <2>5, <2>6, <2>7, <2>10, <2>11, VersionStep DEF CatalogInv, Shelf
<1>6. QED
  BY <1>1, <1>4, <1>5 DEF Catalog!CommitRollback

-----------------------------------------------------------------------------
(* The import transaction, with what its call knows.                       *)
Template(e) == [version |-> e.version, body |-> e.body]
Importing(call, base) ==
    /\ CatalogInv /\ UNCHANGED <<plans, time>>
    /\ call.env \in Envelopes /\ call.now \in 0..time /\ call.plan \in plans
    /\ base = Catalog!ActiveOf(catalogState).chain /\ base \in Seq(Revisions)
    /\ call.env.rev > catalogState.guard.rev /\ call.env.issued >= catalogState.guard.issued
    /\ call.env.issued <= call.now /\ call.env.effective <= call.now /\ call.now < call.env.expires
    /\ \A u \in updates : u.at <= call.now
    /\ call.to \in Nat /\ \A r \in {1} \cup DOMAIN snapshots : r < call.to
    /\ call.snap.chain = Append(base, call.env.rev) /\ call.snap.at \in 0..MaxTime
    /\ LET es == Catalog!Fresh(Catalog!ChainEnvelopes(base) \cup {call.env}, call.now)
       IN  call.snap.view = {e.rev : e \in es} /\ Catalog!Mergeable(es)
    /\ Catalog!TemplatesStayImmutable(Template(call.env))
    /\ updates' = updates \cup {[env |-> call.env, at |-> call.now]}
    /\ DOMAIN snapshots' = DOMAIN snapshots \cup {1, call.to}
    /\ snapshots'[1] = Catalog!Baseline /\ snapshots'[call.to] = call.snap
    /\ \A r \in DOMAIN snapshots : snapshots'[r] = snapshots[r]
    /\ catalogState' = [ver |-> catalogState.ver + 1, active |-> call.to, guard |-> Catalog!GuardAfter(call.env)]

(* The imported update is newer than every accepted one.                   *)
LEMMA NewestUpdate ==
    ASSUME NEW call, NEW base, Importing(call, base)
    PROVE  /\ call.env.rev \in Nat \ {0} /\ call.env.issued \in Nat
           /\ call.env.effective \in Nat /\ call.env.expires \in Nat /\ call.now \in Nat
           /\ \A u \in updates : /\ u.env.rev \in Nat /\ u.env.rev < call.env.rev
                                 /\ u.env.issued \in Nat /\ u.env.issued <= call.env.issued
           /\ Grows
<1>1. /\ call.env.rev \in Nat \ {0} /\ call.env.issued \in Nat
      /\ call.env.effective \in Nat /\ call.env.expires \in Nat /\ call.now \in Nat
  BY CatalogAssumption DEF Importing, CatalogInv, CatalogShape
<1>2. catalogState.guard.rev \in Nat /\ catalogState.guard.issued \in Nat
  BY DEF Importing, CatalogInv, CatalogShape
<1>3. \A u \in updates : /\ u.env.rev \in Nat /\ u.env.issued \in Nat
                         /\ u.env.rev <= catalogState.guard.rev /\ u.env.issued <= catalogState.guard.issued
  BY CatalogAssumption DEF Importing, CatalogInv, Accepted
<1>4. \A u \in updates : u.env.rev < call.env.rev /\ u.env.issued <= call.env.issued
  BY <1>1, <1>2, <1>3 DEF Importing
<1>5. PICK new : new = [env |-> call.env, at |-> call.now]
  OBVIOUS
<1>6. new.env = call.env /\ updates' = updates \cup {new}
  BY <1>5 DEF Importing
<1>7. \A u, v \in updates' : u.env.rev = v.env.rev => u = v
  BY <1>1, <1>3, <1>4, <1>6 DEF Importing, CatalogInv, Accepted
<1>8. Grows
  BY <1>6, <1>7 DEF Grows, Importing
<1>9. QED
  BY <1>1, <1>3, <1>4, <1>8

(* The accepted updates stay in order.                                     *)
LEMMA ImportAccepted ==
    ASSUME NEW call, NEW base, Importing(call, base)
    PROVE  Accepted'
<1>1. PICK new : new = [env |-> call.env, at |-> call.now]
  OBVIOUS
<1>2. new.env = call.env /\ new.at = call.now /\ updates' = updates \cup {new}
  BY <1>1 DEF Importing
<1>3. /\ call.env.rev \in Nat \ {0} /\ call.env.issued \in Nat /\ call.now \in Nat
      /\ \A u \in updates : /\ u.env.rev \in Nat /\ u.env.rev < call.env.rev
                            /\ u.env.issued \in Nat /\ u.env.issued <= call.env.issued
      /\ Grows
  BY NewestUpdate
<1>4. new \notin updates
  BY <1>2, <1>3
<1>5. updates' \subseteq [env : Envelopes, at : 0..MaxTime]
  <2>1. call.now \in 0..time /\ time \in 0..MaxTime /\ MaxTime \in Nat
    BY CatalogAssumption DEF Importing, CatalogInv, CatalogShape
  <2>2. call.now \in 0..MaxTime
    BY <2>1
  <2>3. QED
    BY <1>1, <1>2, <2>2 DEF Importing, CatalogInv, Accepted
<1>6. PICK n : n = Cardinality(updates)
  OBVIOUS
<1>7. n \in Nat /\ IsFiniteSet(updates') /\ Cardinality(updates') = n + 1
  <2>1. IsFiniteSet(updates)
    BY DEF Importing, CatalogInv, Accepted
  <2>2. n \in Nat
    BY <1>6, <2>1, FS_CardinalityType
  <2>3. QED
    BY <1>2, <1>4, <1>6, <2>1, <2>2, FS_AddElement
<1>8. catalogState'.guard = [rev |-> call.env.rev, issued |-> call.env.issued]
  BY DEF Importing, Catalog!GuardAfter
<1>9. ASSUME NEW u \in updates'
      PROVE  /\ u.env.issued <= u.at /\ u.env.effective <= u.at /\ u.at < u.env.expires /\ u.at <= time'
             /\ u.env.rev <= catalogState'.guard.rev /\ u.env.issued <= catalogState'.guard.issued
  <2>1. CASE u = new
    BY <1>2, <1>3, <1>8, <2>1 DEF Importing
  <2>2. CASE u \in updates
    BY <1>3, <1>8, <2>2 DEF Importing, CatalogInv, Accepted
  <2>3. QED
    BY <1>2, <2>1, <2>2
<1>10. \A u, v \in updates' : u.env.rev < v.env.rev => u.env.issued <= v.env.issued
  BY <1>2, <1>3 DEF Importing, CatalogInv, Accepted
<1>11. \E s \in [1..(n + 1) -> updates'] : Listing(s, updates')
  <2>1. PICK s \in [1..n -> updates] : Listing(s, updates)
    BY <1>6 DEF Importing, CatalogInv, Accepted
  <2>2. PICK t : t = [i \in 1..(n + 1) |-> IF i = n + 1 THEN new ELSE s[i]]
    OBVIOUS
  <2>3. \A i \in 1..n : i \in 1..(n + 1) /\ i # n + 1
    BY <1>7
  <2>4. /\ DOMAIN t = 1..(n + 1) /\ t[n + 1] = new /\ n + 1 \in 1..(n + 1)
        /\ \A i \in 1..n : t[i] = s[i] /\ s[i] \in updates
    BY <1>7, <2>2, <2>3
  <2>5. t \in [1..(n + 1) -> updates']
    BY <1>2, <1>7, <2>2, <2>4, RowNumbers
  <2>6. \A u \in updates' : \E i \in DOMAIN t : t[i] = u
    BY <1>2, <2>1, <2>3, <2>4 DEF Listing
  <2>7. ASSUME NEW i \in DOMAIN t, NEW j \in DOMAIN t, i < j PROVE t[i].env.rev < t[j].env.rev
    <3>1. i \in 1..n
      BY <1>7, <2>4, <2>7
    <3>2. CASE j = n + 1
      BY <1>2, <1>3, <2>4, <3>1, <3>2
    <3>3. CASE j \in 1..n
      BY <2>1, <2>4, <2>7, <3>1, <3>3 DEF Listing, Rising
    <3>4. QED
      BY <1>7, <2>4, <3>2, <3>3, RowNumbers
  <2>8. Listing(t, updates')
    BY <2>6, <2>7 DEF Listing, Rising
  <2>9. QED
    BY <2>5, <2>8
<1>12. (\E s \in [1..Cardinality(updates) -> updates] : Listing(s, updates))'
  <2>1. PICK s \in [1..(n + 1) -> updates'] : Listing(s, updates')
    BY <1>11
  <2>2. s \in [1..Cardinality(updates') -> updates']
    BY <1>7, <2>1
  <2>3. Listing(s, updates)'
    BY <2>1 DEF Listing, Rising
  <2>4. QED
    BY <2>2, <2>3
<1>13. updates' # {} /\ \E u \in updates' : catalogState'.guard = Catalog!GuardAfter(u.env)'
  BY <1>2, <1>8 DEF Catalog!GuardAfter
<1>14. \A u, v \in updates' : u.env.rev = v.env.rev => u = v
  BY <1>3 DEF Grows
<1>15. QED
  BY <1>5, <1>7, <1>9, <1>10, <1>12, <1>13, <1>14 DEF Accepted

(* A published template stays what it was.                                 *)
LEMMA TemplateStays ==
    ASSUME Accepted, Grows, NEW s, SoundSnapshot(s)
    PROVE  Catalog!TemplateOf(s.view)' = Catalog!TemplateOf(s.view)
<1>1. CASE s.view = {}
  BY <1>1 DEF Catalog!TemplateOf, Catalog!BundledTemplate
<1>2. CASE s.view # {}
  <2>1. PICK r : r = Catalog!Max(s.view)
    OBVIOUS
  <2>2. \E m \in s.view : \A y \in s.view : y <= m
    BY <1>2 DEF SoundSnapshot, HasTop
  <2>3. r \in s.view
    <3>1. \A m, y \in s.view : y <= m <=> m >= y
      OBVIOUS
    <3>2. \E m \in s.view : \A y \in s.view : m >= y
      BY <2>2, <3>1
    <3>3. QED
      BY <2>1, <3>2 DEF Catalog!Max
  <2>4. r \in Catalog!ToSet(s.chain) /\ s.chain \in Seq(Revisions)
    BY <2>3 DEF SoundSnapshot
  <2>5. PICK u \in updates : u.env.rev = r /\ Catalog!EnvelopeOf(r) = u
    BY <2>4, ChainIs
  <2>6. u \in updates'
    BY DEF Grows
  <2>7. Catalog!EnvelopeOf(r)' = u
    BY <2>5, <2>6, EnvelopeFound DEF Catalog!EnvelopeOf, Grows
  <2>8. Catalog!Max(s.view)' = r
    BY <2>1 DEF Catalog!Max
  <2>9. QED
    BY <1>2, <2>1, <2>5, <2>7, <2>8 DEF Catalog!TemplateOf
<1>3. QED
  BY <1>1, <1>2

(* A snapshot stays sound while the catalog grows.                         *)
LEMMA SnapshotStays ==
    ASSUME Accepted, Grows, NEW s, SoundSnapshot(s)
    PROVE  SoundSnapshot(s)'
<1>1. PICK chain : chain = s.chain
  OBVIOUS
<1>2. chain \in Seq(Revisions')
  BY <1>1, ChainStays DEF SoundSnapshot
<1>3. Catalog!ToSet(chain)' = Catalog!ToSet(chain)
  BY DEF Catalog!ToSet
<1>4. QED
  BY <1>1, <1>2, <1>3 DEF SoundSnapshot, HasTop

(* The imported chain is the active one with the new layer on top.         *)
LEMMA ImportedChain ==
    ASSUME NEW call, NEW base, Importing(call, base)
    PROVE  /\ call.snap.chain \in Seq(Revisions')
           /\ Catalog!ToSet(call.snap.chain) = Catalog!ToSet(base) \cup {call.env.rev}
           /\ Catalog!EnvelopeOf(call.env.rev)' = [env |-> call.env, at |-> call.now]
           /\ Catalog!ChainEnvelopes(call.snap.chain)' = Catalog!ChainEnvelopes(base) \cup {call.env}
<1>1. PICK new : new = [env |-> call.env, at |-> call.now]
  OBVIOUS
<1>2. new.env = call.env /\ new \in updates'
  BY <1>1 DEF Importing
<1>3. Grows /\ Accepted
  BY NewestUpdate DEF Importing, CatalogInv
<1>4. PICK chain, rev : chain = call.snap.chain /\ rev = call.env.rev
  OBVIOUS
<1>5. chain = Append(base, rev) /\ base \in Seq(Revisions)
  BY <1>4 DEF Importing
<1>6. base \in Seq(Revisions') /\ Catalog!ChainEnvelopes(base)' = Catalog!ChainEnvelopes(base)
  BY <1>3, <1>5, ChainStays
<1>7. rev \in Revisions'
  BY <1>2, <1>4 DEF Revisions
<1>8. PICK n : n = Len(base)
  OBVIOUS
<1>9. /\ n \in Nat /\ chain \in Seq(Revisions') /\ chain[n + 1] = rev
      /\ DOMAIN base = 1..n /\ DOMAIN chain = 1..(n + 1) /\ \A i \in 1..n : chain[i] = base[i]
  BY <1>5, <1>6, <1>7, <1>8, Appended
<1>10. Catalog!ToSet(chain) = Catalog!ToSet(base) \cup {rev}
  <2>1. Catalog!ToSet(chain) \subseteq Catalog!ToSet(base) \cup {rev}
    BY <1>9, RowNumbers DEF Catalog!ToSet
  <2>2. Catalog!ToSet(base) \subseteq Catalog!ToSet(chain)
    BY <1>9, RowNumbers DEF Catalog!ToSet
  <2>3. rev \in Catalog!ToSet(chain)
    BY <1>9 DEF Catalog!ToSet
  <2>4. QED
    BY <2>1, <2>2, <2>3
<1>11. Catalog!EnvelopeOf(rev)' = new
  BY <1>2, <1>3, <1>4, EnvelopeFound DEF Catalog!EnvelopeOf, Grows
<1>12. Catalog!ChainEnvelopes(chain)' = Catalog!ChainEnvelopes(base)' \cup {call.env}
  <2>1. \A s : Catalog!ToSet(s)' = Catalog!ToSet(s)
    BY DEF Catalog!ToSet
  <2>2. Catalog!ChainEnvelopes(chain)' = {Catalog!EnvelopeOf(r)'.env : r \in Catalog!ToSet(base) \cup {rev}}
    BY <1>10, <2>1 DEF Catalog!ChainEnvelopes
  <2>3. Catalog!ChainEnvelopes(base)' = {Catalog!EnvelopeOf(r)'.env : r \in Catalog!ToSet(base)}
    BY <2>1 DEF Catalog!ChainEnvelopes
  <2>4. QED
    BY <1>2, <1>11, <2>2, <2>3
<1>13. QED
  BY <1>1, <1>4, <1>6, <1>9, <1>10, <1>11, <1>12

(* The imported snapshot shows the new template.                           *)
LEMMA ImportedSnapshot ==
    ASSUME NEW call, NEW base, Importing(call, base)
    PROVE  SoundSnapshot(call.snap)' /\ Catalog!TemplateOf(call.snap.view)' = Template(call.env)
<1>1. PICK chain, view, rev : chain = call.snap.chain /\ view = call.snap.view /\ rev = call.env.rev
  OBVIOUS
<1>2. /\ chain \in Seq(Revisions') /\ Catalog!ToSet(chain) = Catalog!ToSet(base) \cup {rev}
      /\ Catalog!EnvelopeOf(rev)' = [env |-> call.env, at |-> call.now]
  BY <1>1, ImportedChain
<1>3. PICK es : es = Catalog!Fresh(Catalog!ChainEnvelopes(base) \cup {call.env}, call.now)
  OBVIOUS
<1>4. view = {e.rev : e \in es}
  BY <1>1, <1>3 DEF Importing
<1>5. es \subseteq Catalog!ChainEnvelopes(base) \cup {call.env}
  BY <1>3 DEF Catalog!Fresh
<1>6. rev \in view
  <2>1. call.env \in es
    BY <1>3 DEF Catalog!Fresh, Importing
  <2>2. QED
    BY <1>1, <1>4, <2>1
<1>7. \A e \in Catalog!ChainEnvelopes(base) : e.rev \in Catalog!ToSet(base) /\ e.rev \in Nat /\ e.rev < rev
  <2>1. base \in Seq(Revisions) /\ Accepted
    BY DEF Importing, CatalogInv
  <2>2. /\ \A r \in Catalog!ToSet(base) : \E u \in updates : u.env.rev = r /\ Catalog!EnvelopeOf(r) = u
        /\ Catalog!ChainEnvelopes(base) = {Catalog!EnvelopeOf(r).env : r \in Catalog!ToSet(base)}
    BY <2>1, ChainIs
  <2>3. \A u \in updates : u.env.rev \in Nat /\ u.env.rev < rev
    BY <1>1, NewestUpdate
  <2>4. QED
    BY <2>2, <2>3
<1>8. rev \in Nat
  BY <1>1, NewestUpdate
<1>9. view \subseteq Catalog!ToSet(chain) /\ \A y \in view : y \in Nat /\ y <= rev
  BY <1>1, <1>2, <1>4, <1>5, <1>7, <1>8
<1>10. Catalog!ToSet(chain)' = Catalog!ToSet(chain)
  BY DEF Catalog!ToSet
<1>11. HasTop(view)
  BY <1>6, <1>9 DEF HasTop
<1>12. SoundSnapshot(call.snap)'
  <2>1. call.snap.at \in 0..MaxTime
    BY DEF Importing
  <2>2. QED
    BY <1>1, <1>2, <1>9, <1>10, <1>11, <2>1 DEF SoundSnapshot, HasTop
<1>13. Catalog!Max(view)' = rev
  <2>1. \A x \in view : (\A y \in view : x >= y) <=> x = rev
    BY <1>6, <1>8, <1>9
  <2>2. QED
    BY <1>6, <2>1 DEF Catalog!Max
<1>14. Catalog!TemplateOf(call.snap.view)' = Template(call.env)
  BY <1>1, <1>2, <1>6, <1>13 DEF Catalog!TemplateOf, Template
<1>15. QED
  BY <1>12, <1>14

(* The shelf stays sound: the new layers merge and agree with every        *)
(* template published before.                                              *)
LEMMA ImportShelf ==
    ASSUME NEW call, NEW base, Importing(call, base)
    PROVE  Shelf'
<1>1. Grows /\ Accepted /\ Shelf /\ call.now \in Nat
  BY NewestUpdate DEF Importing, CatalogInv
<1>2. /\ DOMAIN snapshots' = DOMAIN snapshots \cup {1, call.to}
      /\ snapshots'[1] = Catalog!Baseline /\ snapshots'[call.to] = call.snap
      /\ \A r \in DOMAIN snapshots : snapshots'[r] = snapshots[r]
      /\ call.to \in Nat /\ \A r \in {1} \cup DOMAIN snapshots : r < call.to
  BY DEF Importing
<1>3. catalogState'.active = call.to /\ catalogState'.ver = catalogState.ver + 1 /\ catalogState.ver \in Nat
  BY DEF Importing, CatalogInv, CatalogShape
<1>4. SoundSnapshot(call.snap)' /\ Catalog!TemplateOf(call.snap.view)' = Template(call.env)
  BY ImportedSnapshot
<1>5. DOMAIN snapshots' \subseteq Nat \ {0} /\ call.to # 0 /\ call.to # 1
  BY <1>1, <1>2 DEF Shelf
<1>6. HasTop({1} \cup DOMAIN snapshots')
  <2>1. \A r \in {1} \cup DOMAIN snapshots' : r <= call.to
    BY <1>2, <1>5
  <2>2. QED
    BY <1>2, <2>1 DEF HasTop
<1>7. PICK bottom : bottom = Catalog!Baseline
  OBVIOUS
<1>8. SoundSnapshot(bottom)' /\ Catalog!TemplateOf(bottom.view)' = Catalog!BundledTemplate
  <2>1. bottom.chain = << >> /\ bottom.view = {} /\ bottom.at = 0
    BY <1>7 DEF Catalog!Baseline
  <2>2. QED
    BY <2>1, CatalogAssumption DEF SoundSnapshot, Catalog!TemplateOf, Catalog!BundledTemplate
<1>9. ASSUME NEW r \in DOMAIN snapshots'
      PROVE  /\ SoundSnapshot(snapshots[r])'
             /\ \/ r \in DOMAIN snapshots /\ Catalog!TemplateOf(snapshots[r].view)' = Catalog!TemplateOf(snapshots[r].view)
                \/ Catalog!TemplateOf(snapshots[r].view)' \in {Catalog!BundledTemplate, Template(call.env)}
  <2>1. PICK s : s = snapshots'[r]
    OBVIOUS
  <2>2. SoundSnapshot(s)'
    <3>1. CASE r \in DOMAIN snapshots
      BY <1>1, <1>2, <2>1, <3>1, SnapshotStays DEF Shelf
    <3>2. CASE r = 1
      BY <1>2, <1>7, <1>8, <2>1, <3>2
    <3>3. CASE r = call.to
      BY <1>2, <1>4, <2>1, <3>3
    <3>4. QED
      BY <1>2, <3>1, <3>2, <3>3
  <2>3. \/ r \in DOMAIN snapshots /\ Catalog!TemplateOf(s.view)' = Catalog!TemplateOf(snapshots[r].view)
        \/ Catalog!TemplateOf(s.view)' \in {Catalog!BundledTemplate, Template(call.env)}
    <3>1. CASE r \in DOMAIN snapshots
      BY <1>1, <1>2, <2>1, <3>1, TemplateStays DEF Shelf
    <3>2. CASE r = 1
      BY <1>2, <1>7, <1>8, <2>1, <3>2
    <3>3. CASE r = call.to
      BY <1>2, <1>4, <2>1, <3>3
    <3>4. QED
      BY <1>2, <3>1, <3>2, <3>3
  <2>4. QED
    BY <2>1, <2>2, <2>3
<1>10. LayersMerge'
  <2>1. PICK chain, es : chain = call.snap.chain /\ es = Catalog!ChainEnvelopes(base) \cup {call.env}
    OBVIOUS
  <2>2. Catalog!ChainEnvelopes(chain)' = es
    BY <2>1, ImportedChain
  <2>3. Catalog!ActiveOf(catalogState)'.chain = chain
    BY <1>2, <1>3, <1>5, <2>1 DEF Catalog!ActiveOf
  <2>4. Catalog!Mergeable(Catalog!Fresh(es, call.now))
    BY <2>1 DEF Importing
  <2>5. \A e \in es : e.effective \in Nat /\ e.expires \in Nat /\ e.effective <= call.now
    <3>1. \A u \in updates : /\ u.env.effective \in Nat /\ u.env.expires \in Nat
                             /\ u.at \in Nat /\ u.env.effective <= u.at /\ u.at <= call.now
      BY <1>1, CatalogAssumption DEF Accepted, Importing
    <3>2. \A u \in updates : u.env.effective <= call.now
      BY <1>1, <3>1
    <3>3. Catalog!ChainEnvelopes(base) \subseteq {u.env : u \in updates}
      BY ChainIs DEF Importing, CatalogInv
    <3>4. /\ call.env.effective \in Nat /\ call.env.expires \in Nat /\ call.env.effective <= call.now
      BY NewestUpdate DEF Importing
    <3>5. QED
      BY <2>1, <3>1, <3>2, <3>3, <3>4
  <2>6. call.now <= time /\ time \in Nat /\ time' = time
    BY <1>1 DEF Importing, CatalogInv, CatalogShape
  <2>7. Catalog!Mergeable(Catalog!Fresh(es, time))
    BY <1>1, <2>4, <2>5, <2>6, LayersExpire
  <2>8. Catalog!Mergeable(Catalog!Fresh(es, time))'
    BY <2>6, <2>7 DEF Catalog!Mergeable, Catalog!Fresh
  <2>9. QED
    BY <2>2, <2>3, <2>8 DEF LayersMerge
<1>11. Catalog!PublishedTemplatesAgree'
  <2>1. Catalog!KnownTemplates' \subseteq Catalog!KnownTemplates \cup {Template(call.env)}
    BY <1>9 DEF Catalog!KnownTemplates, Catalog!BundledTemplate
  <2>2. \A t \in Catalog!KnownTemplates : t.version = Template(call.env).version => t = Template(call.env)
    BY DEF Importing, Catalog!TemplatesStayImmutable
  <2>3. \A t, u \in Catalog!KnownTemplates : t.version = u.version => t = u
    BY <1>1 DEF Shelf, Catalog!PublishedTemplatesAgree
  <2>4. \A t, u \in Catalog!KnownTemplates' : t.version = u.version => t = u
    BY <2>1, <2>2, <2>3
  <2>5. QED
    BY <2>4 DEF Catalog!PublishedTemplatesAgree
<1>12. \A r \in DOMAIN snapshots' : SoundSnapshot(snapshots[r])'
  BY <1>9
<1>13. Catalog!Baseline' = Catalog!Baseline
  BY DEF Catalog!Baseline
<1>14. QED
  BY <1>2, <1>3, <1>5, <1>6, <1>10, <1>11, <1>12, <1>13 DEF Shelf, HasTop

(* The new local revision is above all of them.                            *)
LEMMA AboveAll ==
    ASSUME Shelf, NEW to \in Nat, to > Catalog!Max({1} \cup DOMAIN snapshots)
    PROVE  \A r \in {1} \cup DOMAIN snapshots : r < to
<1>1. PICK S : S = {1} \cup DOMAIN snapshots
  OBVIOUS
<1>2. S \subseteq Nat /\ \E m \in S : \A y \in S : m >= y
  BY <1>1 DEF Shelf, HasTop
<1>3. Catalog!Max(S) \in S /\ \A y \in S : Catalog!Max(S) >= y
  BY <1>2 DEF Catalog!Max
<1>4. PICK m : m = Catalog!Max(S)
  OBVIOUS
<1>5. m \in Nat /\ to > m /\ \A y \in S : y \in Nat /\ m >= y
  BY <1>1, <1>2, <1>3, <1>4
<1>6. QED
  BY <1>1, <1>5

(* commit_catalog_import, applied or refused.                              *)
LEMMA CommitImportKeeps ==
    ASSUME CatalogInv, NEW c \in Callers, Catalog!CommitImport(c)
    PROVE  CatalogInv'
<1>1. PICK call : call = calls[c]
  OBVIOUS
<1>2. /\ call.pc = "commit" /\ call.op = "activate" /\ UNCHANGED <<plans, time>>
      /\ pendingPlans' = Catalog!Drop(pendingPlans, {call.plan.id})
      /\ calls' = [calls EXCEPT ![c] = Catalog!Idle]
  BY <1>1 DEF Catalog!CommitImport, Catalog!Return, Catalog!Go
<1>3. CallShape(call) /\ CallPlan(call) /\ CallChecked(call) /\ Activating(call)
  BY <1>1, <1>2 DEF CatalogInv, Callings, Activating
<1>4. CASE UNCHANGED <<catalogState, updates, snapshots, audit>>
  BY <1>2, <1>4, CallStep, IdleCall, DropReviews DEF CatalogInv
<1>5. ASSUME NEW based, based = IF catalogState.active = 0 THEN Catalog!Put(snapshots, 1, Catalog!Baseline) ELSE snapshots,
             Catalog!ImportIsValid(call),
             updates' = updates \cup {[env |-> call.env, at |-> call.now]},
             snapshots' = Catalog!Put(based, call.to, call.snap),
             catalogState' = [ver |-> catalogState.ver + 1, active |-> call.to,
                              guard |-> Catalog!GuardAfter(call.env)],
             audit' = Append(audit, Catalog!AuditRow(call, call.to, Catalog!RevisionOf(catalogState)))
      PROVE  CatalogInv'
  <2>1. /\ call.env \in Envelopes /\ call.now \in 0..time /\ call.plan \in plans /\ call.plan.kind = "import"
        /\ call.now < call.plan.expires /\ \A u \in updates : u.at <= call.now
        /\ Catalog!MergesOverActive(call) /\ call.to = call.plan.to /\ call.to \in Nat
        /\ call.st.ver = call.plan.ver /\ call.snap = call.plan.snap
        /\ call.snap = Catalog!Candidate(call, call.plan.at)
        /\ Catalog!RevisionOf(call.st) = call.plan.from
    BY <1>2, <1>3 DEF CallShape, CallPlan, CallChecked
  <2>2. /\ catalogState.ver = call.st.ver /\ catalogState.active = call.st.active /\ catalogState.guard = call.st.guard
        /\ call.env.rev > catalogState.guard.rev /\ call.env.issued >= catalogState.guard.issued
        /\ call.to > Catalog!Max({1} \cup DOMAIN snapshots)
    BY <1>5 DEF Catalog!ImportIsValid, Catalog!ExpectedState
  <2>3. PICK base : base = Catalog!ActiveOf(catalogState).chain
    OBVIOUS
  <2>4. base \in Seq(Revisions) /\ base = Catalog!ActiveOf(call.st).chain
    BY <2>2, <2>3, ActiveChain DEF CatalogInv, Shelf, Catalog!ActiveOf
  <2>5. PICK es : es = Catalog!Fresh(Catalog!ChainEnvelopes(base) \cup {call.env}, call.now)
    OBVIOUS
  <2>6. Catalog!Mergeable(es) /\ call.env.issued <= call.now /\ call.env.effective <= call.now /\ call.now < call.env.expires
    BY <2>1, <2>4, <2>5 DEF Catalog!MergesOverActive, Catalog!Verifies
  <2>7. call.snap.chain = Append(base, call.env.rev) /\ call.snap.view = {e.rev : e \in es} /\ call.snap.at = call.plan.at
    BY <2>1, <2>4, <2>5 DEF Catalog!Candidate, Catalog!View
  <2>8. call.snap.at \in 0..MaxTime
    BY <2>1, <2>7 DEF CatalogInv, Reviews
  <2>9. \A r \in {1} \cup DOMAIN snapshots : r < call.to
    BY <2>1, <2>2, AboveAll DEF CatalogInv
  <2>10. Catalog!TemplatesStayImmutable(Template(call.env))
    BY <1>2, <1>3, <2>2 DEF CallChecked, Template
  <2>11. /\ DOMAIN based = DOMAIN snapshots \cup {1} /\ based[1] = Catalog!Baseline
         /\ \A r \in DOMAIN snapshots : based[r] = snapshots[r]
    <3>1. CASE catalogState.active = 0
      BY <1>5, <3>1 DEF Catalog!Put, CatalogInv, Shelf
    <3>2. CASE catalogState.active # 0
      BY <1>5, <3>2 DEF CatalogInv, Shelf
    <3>3. QED
      BY <3>1, <3>2
  <2>12. call.to \notin DOMAIN based
    BY <2>1, <2>9, <2>11 DEF CatalogInv, Shelf
  <2>13. /\ DOMAIN snapshots' = DOMAIN snapshots \cup {1, call.to}
         /\ snapshots'[1] = Catalog!Baseline /\ snapshots'[call.to] = call.snap
         /\ \A r \in DOMAIN snapshots : snapshots'[r] = snapshots[r]
    BY <1>5, <2>11, <2>12 DEF Catalog!Put
  <2>14. Importing(call, base)
    BY <1>2, <1>5, <2>1, <2>2, <2>3, <2>4, <2>5, <2>6, <2>7, <2>8, <2>9, <2>10, <2>13 DEF Importing
  <2>15. Grows /\ Accepted' /\ Shelf' /\ call.env.rev \in Nat /\ call.env.issued \in Nat /\ call.now \in Nat
    BY <2>14, NewestUpdate, ImportAccepted, ImportShelf
  <2>16. catalogState'.ver = catalogState.ver + 1 /\ catalogState'.active = call.to /\ catalogState.ver \in Nat
    BY <1>5 DEF CatalogInv, CatalogShape
  <2>17. CatalogShape'
    <3>1. Catalog!GuardAfter(call.env) = [rev |-> call.env.rev, issued |-> call.env.issued]
      BY DEF Catalog!GuardAfter
    <3>2. catalogState' \in [ver : Nat, active : Nat, guard : [rev : Nat, issued : Nat]]
      BY <1>5, <2>1, <2>15, <2>16, <3>1
    <3>3. catalogState'.guard \in {Catalog!GuardAfter(e)' : e \in Envelopes}
      BY <1>5, <2>1 DEF Catalog!GuardAfter
    <3>4. QED
      BY <1>2, <3>2, <3>3 DEF CatalogInv, CatalogShape
  <2>18. PICK row : row = Catalog!AuditRow(call, call.to, Catalog!RevisionOf(catalogState))
    OBVIOUS
  <2>19. /\ row \in [ver : Nat, kind : {"import", "rollback"}, id : Nat, from : Nat, to : Nat, at : Nat]
         /\ row.ver = catalogState.ver + 1 /\ row.from = Catalog!RevisionOf(catalogState) /\ row.to = call.to
         /\ row.id = call.plan.id /\ row.kind = "import" /\ row.at = call.now
    <3>1. call.plan.id \in Nat /\ Catalog!RevisionOf(catalogState) \in Nat
      BY <2>1 DEF CatalogInv, Reviews, CatalogShape, Catalog!RevisionOf
    <3>2. row = [ver |-> catalogState.ver + 1, kind |-> "import", id |-> call.plan.id,
                 from |-> Catalog!RevisionOf(catalogState), to |-> call.to, at |-> call.now]
      BY <2>1, <2>18 DEF Catalog!AuditRow
    <3>3. QED
      BY <2>1, <2>15, <2>16, <3>1, <3>2
  <2>20. audit' = Append(audit, row)
    BY <1>5, <2>18
  <2>21. Trail'
    <3>1. PICK p \in plans : p = call.plan
      BY <2>1
    <3>2. Catalog!RevisionOf(catalogState) = Catalog!RevisionOf(call.st)
      BY <2>2 DEF Catalog!RevisionOf
    <3>3. /\ p.id = row.id /\ p.kind = row.kind /\ p.ver + 1 = row.ver /\ p.from = row.from /\ p.to = row.to
          /\ row.at < p.expires /\ snapshots'[p.to] = p.snap /\ row.to \in DOMAIN snapshots'
      BY <2>1, <2>2, <2>13, <2>19, <3>1, <3>2
    <3>4. UNCHANGED plans /\ row.to = catalogState'.active
      BY <1>2, <2>16, <2>19
    <3>5. QED
      BY <2>15, <2>16, <2>19, <2>20, <3>3, <3>4, TrailGrows
  <2>22. Reviews'
    <3>1. \A i \in DOMAIN audit' : audit'[i] = row \/ (i \in DOMAIN audit /\ audit'[i] = audit[i])
      BY <2>19, <2>20, RowsAppended DEF CatalogInv
    <3>2. \A i \in DOMAIN audit' : audit'[i].id \in {call.plan.id} \/ audit'[i].id \notin DOMAIN pendingPlans
      BY <2>19, <3>1 DEF CatalogInv, Reviews, Catalog!ReviewsAreCurrent
    <3>3. QED
      BY <1>2, <2>16, <3>2, DropReviewsOf DEF CatalogInv
  <2>23. QED
    BY <1>1, <1>2, <1>3, <2>13, <2>15, <2>16, <2>17, <2>21, <2>22, VersionStep
<1>6. QED
  BY <1>1, <1>4, <1>5 DEF Catalog!CommitImport, Catalog!db

-----------------------------------------------------------------------------
(* The core is reopened, the clock moves on, or nothing happens.           *)
LEMMA ReopenKeeps ==
    ASSUME CatalogInv, Catalog!Reopen
    PROVE  CatalogInv'
<1>1. /\ pendingPlans' = << >> /\ calls' = [c \in Callers |-> Catalog!Idle]
      /\ UNCHANGED <<catalogState, updates, snapshots, audit, plans, time>>
  BY DEF Catalog!Reopen, Catalog!db
<1>2. DOMAIN pendingPlans' = {}
  BY <1>1
<1>3. Catalog!Cardinality(DOMAIN pendingPlans)' = 0
  BY <1>2, CatalogCardinality, FS_EmptySet
<1>4. Catalog!ReviewsAreCurrent'
  BY <1>2, <1>3, CatalogAssumption DEF Catalog!ReviewsAreCurrent
<1>5. Reviews'
  BY <1>1, <1>2, <1>4, FS_EmptySet DEF CatalogInv, Reviews
<1>6. ASSUME NEW d \in Callers PROVE (CallShape(calls[d]) /\ CallPlan(calls[d]) /\ CallChecked(calls[d]) /\ ~Activating(calls[d]))'
  <2>1. PICK call : call = calls'[d]
    OBVIOUS
  <2>2. CallShape(call) /\ CallPlan(call) /\ CallChecked(call) /\ ~Activating(call)
    BY <1>1, <2>1, IdleCall
  <2>3. CallShape(call)' /\ CallPlan(call)' /\ CallChecked(call)'
    BY <1>1, <2>2, CallKept
  <2>4. ~Activating(call)'
    BY <2>2 DEF Activating
  <2>5. QED
    BY <2>1, <2>3, <2>4
<1>7. Callings'
  BY <1>1, <1>6 DEF Callings
<1>8. QED
  BY <1>1, <1>5, <1>7, RowsKept DEF CatalogInv

(* Calls wait while the clock moves.                                       *)
LEMMA CallsStay ==
    ASSUME CatalogInv, UNCHANGED <<catalogState, updates, snapshots, plans, calls>>,
           time' = time \/ (time \in Nat /\ time' = time + 1)
    PROVE  Callings'
<1>1. ASSUME NEW d \in Callers PROVE (CallShape(calls[d]) /\ CallPlan(calls[d]) /\ CallChecked(calls[d]))'
  <2>1. PICK call : call = calls[d]
    OBVIOUS
  <2>2. CallShape(call) /\ CallPlan(call) /\ CallChecked(call)
    BY <2>1 DEF CatalogInv, Callings
  <2>3. CallShape(call)' /\ CallPlan(call)' /\ CallChecked(call)'
    BY <2>2, CallKept
  <2>4. QED
    BY <2>1, <2>3
<1>2. QED
  BY <1>1 DEF CatalogInv, Callings, Activating

(* The clock moves on: layers expire, and none comes back.                 *)
LEMMA TickKeeps ==
    ASSUME CatalogInv, Catalog!Tick
    PROVE  CatalogInv'
<1>1. /\ time' = time + 1 /\ time < MaxTime
      /\ UNCHANGED <<catalogState, updates, snapshots, audit, pendingPlans, plans, calls>>
  BY DEF Catalog!Tick, Catalog!db
<1>2. time \in Nat /\ time' \in 0..MaxTime
  BY <1>1, CatalogAssumption DEF CatalogInv, CatalogShape
<1>3. CatalogShape'
  BY <1>1, <1>2 DEF CatalogInv, CatalogShape, Catalog!NoGuard, Catalog!GuardAfter
<1>4. Accepted'
  <2>1. \A u \in updates : u.at \in Nat /\ u.at <= time => u.at <= time'
    BY <1>1, <1>2
  <2>2. \A u \in updates : u.at \in Nat
    BY DEF CatalogInv, Accepted
  <2>3. QED
    BY <1>1, <2>1, <2>2 DEF CatalogInv, Accepted, Catalog!NoGuard, Catalog!GuardAfter
<1>5. Shelf'
  <2>1. LayersMerge'
    <3>1. PICK chain, es : chain = Catalog!ActiveOf(catalogState).chain /\ es = Catalog!ChainEnvelopes(chain)
      OBVIOUS
    <3>2. chain \in Seq(Revisions) /\ Catalog!Mergeable(Catalog!Fresh(es, time)) /\ Accepted
          /\ \A u \in updates : u.at <= time
      BY <3>1, ActiveChain DEF CatalogInv, Shelf, LayersMerge, Accepted
    <3>3. Catalog!Mergeable(Catalog!Fresh(es, time + 1))
      BY <1>2, <3>1, <3>2, FreshShrinks
    <3>4. Catalog!ChainEnvelopes(Catalog!ActiveOf(catalogState).chain)' = es
      BY <1>1, <3>1, SameRows
    <3>5. Catalog!Mergeable(Catalog!Fresh(es, time))'
      BY <1>1, <3>3 DEF Catalog!Mergeable, Catalog!Fresh
    <3>6. QED
      BY <3>4, <3>5 DEF LayersMerge
  <2>2. Catalog!PublishedTemplatesAgree'
    BY <1>1, SameRows DEF CatalogInv, Shelf, Catalog!PublishedTemplatesAgree
  <2>3. \A r \in DOMAIN snapshots : SoundSnapshot(snapshots[r])'
    BY <1>1, SameRows DEF CatalogInv, Shelf, SoundSnapshot, HasTop
  <2>4. QED
    BY <1>1, <2>1, <2>2, <2>3 DEF CatalogInv, Shelf, HasTop, Catalog!Baseline
<1>6. Trail'
  <2>1. Catalog!ActivatedAsReviewed'
    BY <1>1 DEF CatalogInv, Trail, Catalog!ActivatedAsReviewed
  <2>2. QED
    BY <1>1, <2>1 DEF CatalogInv, Trail
<1>7. QED
  BY <1>1, <1>2, <1>3, <1>4, <1>5, <1>6, SameReviews, CallsStay DEF CatalogInv

(* A step of another part.                                                 *)
LEMMA CatalogStays ==
    ASSUME CatalogInv, UNCHANGED catalogVars
    PROVE  CatalogInv'
<1>1. UNCHANGED <<catalogState, updates, snapshots, audit, pendingPlans, plans, calls, time>>
  BY DEF catalogVars
<1>2. QED
  BY <1>1, SameReviews, CallsStay, RowsKept DEF CatalogInv

-----------------------------------------------------------------------------
(* The catalog starts empty.                                               *)
LEMMA CatalogStarts == ASSUME Catalog!Init PROVE CatalogInv
<1>1. /\ catalogState = [ver |-> 0, active |-> 0, guard |-> [rev |-> 0, issued |-> 0]]
      /\ updates = {} /\ snapshots = << >> /\ audit = << >> /\ pendingPlans = << >> /\ plans = {}
      /\ calls = [c \in Callers |-> Catalog!Idle] /\ time = 0
      /\ Catalog!NoGuard = [rev |-> 0, issued |-> 0]
  BY DEF Catalog!Init, Catalog!NoGuard
<1>2. DOMAIN snapshots = {} /\ DOMAIN audit = {} /\ DOMAIN pendingPlans = {}
  BY <1>1
<1>3. CatalogShape
  BY <1>1, CatalogAssumption DEF CatalogShape
<1>4. Accepted
  <2>1. IsFiniteSet(updates) /\ Cardinality(updates) = 0
    BY <1>1, FS_EmptySet
  <2>2. \E s \in [1..0 -> updates] : Listing(s, updates)
    <3>1. PICK s : s = [i \in 1..0 |-> 0]
      OBVIOUS
    <3>2. s \in [1..0 -> updates] /\ DOMAIN s = {}
      BY <3>1
    <3>3. QED
      BY <1>1, <3>2 DEF Listing, Rising
  <2>3. QED
    BY <1>1, <2>1, <2>2 DEF Accepted
<1>5. Shelf
  <2>1. PICK chain : chain = Catalog!ActiveOf(catalogState).chain
    OBVIOUS
  <2>2. chain = << >>
    BY <1>1, <2>1 DEF Catalog!ActiveOf, Catalog!Baseline
  <2>3. Catalog!ChainEnvelopes(chain) = {}
    <3>1. Catalog!ToSet(chain) = {}
      BY <2>2 DEF Catalog!ToSet
    <3>2. QED
      BY <3>1 DEF Catalog!ChainEnvelopes
  <2>4. LayersMerge
    BY <2>1, <2>3 DEF LayersMerge, Catalog!Mergeable, Catalog!Fresh
  <2>5. Catalog!PublishedTemplatesAgree
    BY <1>2 DEF Catalog!PublishedTemplatesAgree, Catalog!KnownTemplates
  <2>6. HasTop({1} \cup DOMAIN snapshots)
    BY <1>2 DEF HasTop
  <2>7. QED
    BY <1>1, <1>2, <2>4, <2>5, <2>6 DEF Shelf
<1>6. Trail
  BY <1>1, <1>2 DEF Trail, Catalog!ActivatedAsReviewed
<1>7. Reviews
  <2>1. IsFiniteSet(plans) /\ IsFiniteSet(DOMAIN pendingPlans) /\ Catalog!Cardinality(DOMAIN pendingPlans) = 0
    BY <1>1, <1>2, FS_EmptySet, CatalogCardinality
  <2>2. QED
    BY <1>1, <1>2, <2>1, CatalogAssumption DEF Reviews, Catalog!ReviewsAreCurrent
<1>8. Callings
  BY <1>1, IdleCall DEF Callings
<1>9. QED
  BY <1>3, <1>4, <1>5, <1>6, <1>7, <1>8 DEF CatalogInv

-----------------------------------------------------------------------------
(* The accepted updates are read back in revision order, and each one is   *)
(* valid after the one before.                                             *)
LEMMA ReadsBack ==
    ASSUME CatalogInv
    PROVE  Catalog!Reverified(updates) /\ Catalog!GuardOf(updates) = catalogState.guard
<1>1. PICK n : n = Cardinality(updates)
  OBVIOUS
<1>2. n \in Nat /\ Catalog!Cardinality(updates) = n
  BY <1>1, FS_CardinalityType, CatalogCardinality DEF CatalogInv, Accepted
<1>3. PICK s : s = Catalog!InOrder(updates)
  OBVIOUS
<1>4. /\ s \in [1..n -> updates] /\ \A u \in updates : \E i \in DOMAIN s : s[i] = u
      /\ \A i, j \in DOMAIN s : i < j => s[i].env.rev < s[j].env.rev
  <2>1. \E t \in [1..n -> updates] : /\ \A u \in updates : \E i \in DOMAIN t : t[i] = u
                                     /\ \A i, j \in DOMAIN t : i < j => t[i].env.rev < t[j].env.rev
    BY <1>1 DEF CatalogInv, Accepted, Listing, Rising
  <2>2. s = CHOOSE t \in [1..n -> updates] : /\ \A u \in updates : \E i \in DOMAIN t : t[i] = u
                                             /\ \A i, j \in DOMAIN t : i < j => t[i].env.rev < t[j].env.rev
    BY <1>2, <1>3 DEF Catalog!InOrder
  <2>3. QED
    BY <2>1, <2>2
<1>5. DOMAIN s = 1..n /\ s \in Seq(updates) /\ Len(s) = n
  BY <1>2, <1>4
<1>6. \A u \in updates :
         /\ u.env.issued <= u.at /\ u.env.effective <= u.at /\ u.at < u.env.expires
         /\ u.env.rev \in Nat \ {0} /\ u.env.issued \in Nat
         /\ u.env.rev <= catalogState.guard.rev
  BY CatalogAssumption DEF CatalogInv, Accepted
<1>7. ASSUME NEW i \in 1..n
      PROVE  Catalog!Verifies(s[i].env, IF i = 1 THEN Catalog!NoGuard ELSE Catalog!GuardAfter(s[i - 1].env), s[i].at)
  <2>1. s[i] \in updates
    BY <1>4
  <2>2. CASE i = 1
    BY <1>6, <2>1, <2>2 DEF Catalog!Verifies, Catalog!NoGuard
  <2>3. CASE i # 1
    <3>1. i - 1 \in 1..n /\ i - 1 < i
      BY <1>2, <2>3, RowNumbers
    <3>2. s[i - 1] \in updates /\ s[i - 1].env.rev < s[i].env.rev
      BY <1>4, <1>5, <3>1
    <3>3. s[i - 1].env.issued <= s[i].env.issued
      BY <2>1, <3>2 DEF CatalogInv, Accepted
    <3>4. QED
      BY <1>6, <2>1, <2>3, <3>2, <3>3 DEF Catalog!Verifies, Catalog!GuardAfter
  <2>4. QED
    BY <2>2, <2>3
<1>8. Catalog!Reverified(updates)
  BY <1>3, <1>5, <1>7 DEF Catalog!Reverified
<1>9. CASE updates = {}
  BY <1>8, <1>9 DEF Catalog!GuardOf, CatalogInv, Accepted
<1>10. CASE updates # {}
  <2>1. PICK u \in updates : catalogState.guard = Catalog!GuardAfter(u.env)
    BY <1>10 DEF CatalogInv, Accepted
  <2>2. PICK i \in 1..n : s[i] = u
    BY <1>4, <1>5
  <2>3. catalogState.guard.rev = u.env.rev
    BY <2>1 DEF Catalog!GuardAfter
  <2>4. n \in 1..n /\ s[n] \in updates
    BY <1>2, <1>4, <2>2
  <2>5. i = n
    <3>1. SUFFICES ASSUME i # n PROVE FALSE
      OBVIOUS
    <3>2. i < n
      BY <1>2, <2>2, <3>1
    <3>3. u.env.rev < s[n].env.rev
      BY <1>4, <1>5, <2>2, <2>4, <3>2
    <3>4. s[n].env.rev <= u.env.rev /\ u.env.rev \in Nat /\ s[n].env.rev \in Nat
      BY <1>6, <2>3, <2>4
    <3>5. QED
      BY <3>3, <3>4
  <2>6. Catalog!Last(s) = u
    BY <1>5, <2>2, <2>5 DEF Catalog!Last
  <2>7. QED
    BY <1>3, <1>8, <1>10, <2>1, <2>6 DEF Catalog!GuardOf
<1>11. QED
  BY <1>9, <1>10

(* The inductive invariant says what the run checks.                       *)
LEMMA CatalogInvIsSound == ASSUME CatalogInv PROVE CatalogIsSound
<1>1. Catalog!TypeOK
  <2>1. /\ catalogState.ver \in Nat /\ catalogState.active \in {0} \cup DOMAIN snapshots
        /\ catalogState.guard \in {Catalog!NoGuard} \cup {Catalog!GuardAfter(e) : e \in Envelopes}
        /\ updates \subseteq [env : Envelopes, at : 0..MaxTime] /\ time \in 0..MaxTime
    BY DEF CatalogInv, CatalogShape, Shelf, Accepted
  <2>2. ASSUME NEW r \in DOMAIN snapshots PROVE r \in Nat \ {0} /\ Catalog!SnapshotType(snapshots[r])
    <3>1. PICK s : s = snapshots[r]
      OBVIOUS
    <3>2. SoundSnapshot(s) /\ r \in Nat \ {0}
      BY <3>1 DEF CatalogInv, Shelf
    <3>3. Revisions \subseteq {e.rev : e \in Envelopes}
      BY <2>1 DEF Revisions
    <3>4. \A i \in DOMAIN s.chain : s.chain[i] \in {e.rev : e \in Envelopes}
      BY <3>2, <3>3 DEF SoundSnapshot
    <3>5. Catalog!SnapshotType(s)
      BY <3>2, <3>4 DEF Catalog!SnapshotType, SoundSnapshot
    <3>6. QED
      BY <3>1, <3>2, <3>5
  <2>3. \A c \in Callers : calls[c].pc \in {"idle", "lock", "rebuild", "updates", "history", "register", "target", "commit"}
    BY DEF CatalogInv, Callings, CallShape
  <2>4. \A i \in DOMAIN pendingPlans : pendingPlans[i] \in plans /\ pendingPlans[i].id = i
    BY DEF CatalogInv, Reviews
  <2>5. QED
    BY <2>1, <2>2, <2>3, <2>4 DEF Catalog!TypeOK
<1>2. Catalog!CatalogStaysReadable
  <2>1. ASSUME NEW r \in DOMAIN snapshots
        PROVE  Catalog!ToSet(snapshots[r].chain) \subseteq {u.env.rev : u \in updates}
    <3>1. PICK chain : chain = snapshots[r].chain
      OBVIOUS
    <3>2. chain \in Seq(Revisions)
      BY <3>1 DEF CatalogInv, Shelf, SoundSnapshot
    <3>3. Catalog!ToSet(chain) \subseteq Revisions
      BY <3>2 DEF Catalog!ToSet
    <3>4. QED
      BY <3>1, <3>3 DEF Revisions
  <2>2. Catalog!Mergeable(Catalog!Fresh(Catalog!ChainEnvelopes(Catalog!ActiveOf(catalogState).chain), time))
    BY DEF CatalogInv, Shelf, LayersMerge
  <2>3. \A u, v \in updates : u.env.rev = v.env.rev => u = v
    BY DEF CatalogInv, Accepted
  <2>4. QED
    BY <2>1, <2>2, <2>3, ReadsBack DEF Catalog!CatalogStaysReadable
<1>3. Catalog!AuditIsTheHistory
  <2>1. ASSUME NEW i \in DOMAIN audit, NEW j \in DOMAIN audit, audit[i].id = audit[j].id PROVE i = j
    <3>1. PICK p \in plans : p.id = audit[i].id /\ p.ver + 1 = audit[i].ver
      BY DEF CatalogInv, Trail, Catalog!ActivatedAsReviewed
    <3>2. PICK q \in plans : q.id = audit[j].id /\ q.ver + 1 = audit[j].ver
      BY DEF CatalogInv, Trail, Catalog!ActivatedAsReviewed
    <3>3. p = q
      BY <2>1, <3>1, <3>2 DEF CatalogInv, Reviews
    <3>4. audit[i].ver = i /\ audit[j].ver = j
      BY DEF CatalogInv, Trail
    <3>5. QED
      BY <3>1, <3>2, <3>3, <3>4
  <2>2. \A i \in DOMAIN audit : audit[i].ver = i /\ audit[i].from = IF i = 1 THEN 1 ELSE audit[i - 1].to
    BY DEF CatalogInv, Trail
  <2>3. Len(audit) = catalogState.ver
    BY DEF CatalogInv, Trail
  <2>4. catalogState.ver > 0 => catalogState.active = Catalog!Last(audit).to
    BY DEF CatalogInv, Trail, Catalog!Last
  <2>5. QED
    BY <2>1, <2>2, <2>3, <2>4 DEF Catalog!AuditIsTheHistory
<1>4. QED
  BY <1>1, <1>2, <1>3 DEF CatalogIsSound, CatalogInv, Trail, Shelf, Reviews

(* Every step of the catalog keeps the invariant.                          *)
LEMMA CatalogSteps == ASSUME CatalogInv, Catalog!Next PROVE CatalogInv'
<1>1. ASSUME NEW c \in Callers, \E e \in Envelopes : Catalog!PrepareImport(c, e) PROVE CatalogInv'
  BY <1>1, PrepareImportKeeps
<1>2. ASSUME NEW c \in Callers, \E p \in plans : Catalog!PresentImport(c, p) \/ Catalog!ActivateRollback(c, p) PROVE CatalogInv'
  BY <1>2, PresentImportKeeps, ActivateRollbackKeeps
<1>3. ASSUME NEW c \in Callers, \E r \in {1} \cup DOMAIN snapshots : Catalog!PrepareRollback(c, r) PROVE CatalogInv'
  BY <1>3, PrepareRollbackKeeps
<1>4. ASSUME NEW c \in Callers,
             \/ Catalog!ActivateImport(c) \/ Catalog!RebuildImport(c) \/ Catalog!ReadUpdates(c) \/ Catalog!ReadHistory(c) \/ Catalog!RegisterPlan(c)
             \/ Catalog!ReadTarget(c) \/ Catalog!CommitImport(c) \/ Catalog!CommitRollback(c)
      PROVE  CatalogInv'
  BY <1>4, ActivateImportKeeps, RebuildImportKeeps, ReadUpdatesKeeps, ReadHistoryKeeps, RegisterPlanKeeps, ReadTargetKeeps,
     CommitImportKeeps, CommitRollbackKeeps
<1>5. QED
  BY <1>1, <1>2, <1>3, <1>4, ReopenKeeps, TickKeeps DEF Catalog!Next

(* Whatever imports and rollbacks interleave, with however many callers,   *)
(* signed files and pending reviews: the catalog can be read, its audit is *)
(* its history, what was activated is what was reviewed, and a published   *)
(* template keeps its content (core/src/catalog.rs over storage/src/       *)
(* catalog.rs).                                                            *)
THEOREM CatalogSound == MCSpec => []CatalogIsSound
<1>1. MCInit => CatalogInv
  BY CatalogStarts DEF MCInit
<1>2. ASSUME CatalogInv, [MCNext]_<<part, vars, importVars, catalogVars, crawlVars>> PROVE CatalogInv'
  <2>1. CASE CatalogNext
    BY <1>2, <2>1, CatalogSteps DEF CatalogNext
  <2>2. CASE AssistantNext \/ ImportNext \/ CrawlNext \/ UNCHANGED <<part, vars, importVars, catalogVars, crawlVars>>
    <3>1. UNCHANGED catalogVars
      BY <2>2 DEF AssistantNext, ImportNext, CrawlNext
    <3>2. QED
      BY <1>2, <3>1, CatalogStays
  <2>3. QED
    BY <1>2, <2>1, <2>2 DEF MCNext
<1>3. CatalogInv => CatalogIsSound
  BY CatalogInvIsSound
<1>4. QED
  BY <1>1, <1>2, <1>3, PTL DEF MCSpec

-----------------------------------------------------------------------------
(***************************************************************************)
(* The document crawl, for every web of pages, every plan and every        *)
(* budget.  The page being fetched has been paid for before the request    *)
(* goes out, and what is queued was permitted when it was queued and stays *)
(* permitted: the origins only grow.                                       *)
(***************************************************************************)
Fetching == {"connect", "answer", "body", "process"}
Sites == {Origin[page] : page \in Pages}
Queued == [url : Pages, depth : 0..MaxDepth]
Accounts == [pages : 0..MaxPages, redirects : 0..MaxRedirects, bytes : 0..MaxTotal,
             links : 0..MaxTotalLinks, stopped : BOOLEAN, origins : SUBSET Sites]
Visits == [at : {"pop", "done"} \cup Fetching, url : Pages, depth : 0..MaxDepth,
           hops : 0..MaxRedirects, bytes : 0..MaxDocument, round : {0, 1}, links : Seq(Pages)]
Found == [url : Pages, bytes : 0..MaxDocument, links : Seq(Pages), depth : 0..MaxDepth,
          raw : Seq(Pages)]

CrawlShape ==
    /\ plan \in Crawl!Plans /\ expired \in BOOLEAN
    /\ queue \in Seq(Queued) /\ tracker \in Accounts /\ doc \in Visits
    /\ fetched \in Seq(Found) /\ requested \in Seq(Pages)
    /\ seen \subseteq Pages /\ attempted \subseteq seen

CrawlPaid ==
    /\ Len(requested) + (IF doc.at = "connect" THEN 1 ELSE 0) <= tracker.pages + tracker.redirects
    /\ Len(fetched) + (IF doc.at \in Fetching THEN 1 ELSE 0) <= tracker.pages
    /\ Crawl!Bytes + doc.bytes <= tracker.bytes

(* A page the origins accept now.                                          *)
Welcome(page) == Crawl!Accepts(tracker, page)

(* The links of a document that were read are those that were kept.        *)
KeptAll(raw, links) ==
    Crawl!ToSet(Crawl!FirstOf(raw, MaxLinksPerDocument + 1)) \subseteq Crawl!ToSet(links)

CrawlScope ==
    /\ \A site \in tracker.origins : site \in plan.origins \/ (plan.public /\ site \in Related)
    /\ \A i \in DOMAIN queue : Crawl!permits_origin(tracker, queue[i].url)
    /\ doc.at \in Fetching => Crawl!permits_origin(tracker, doc.url)
    /\ \A i \in DOMAIN requested : Crawl!permits_origin(tracker, requested[i])

CrawlQueue == Crawl!QueueIsFresh /\ \A i \in DOMAIN queue : queue[i].url \in seen

Unlimited == issues \cap Crawl!BudgetIssues = {}

(* Without a budget issue what was seen was attempted or waits, and all    *)
(* that was read of a document was kept; and every candidate kept that the *)
(* origins accept was seen.  They accept ever fewer pages: an origin that  *)
(* joins was acceptable before.                                            *)
CrawlReports ==
    /\ Unlimited => /\ ~tracker.stopped /\ (doc.at = "done" => queue = <<>>)
                    /\ \A page \in seen : page \in attempted \/ \E i \in DOMAIN queue : queue[i].url = page
                    /\ \A i \in DOMAIN fetched : KeptAll(fetched[i].raw, fetched[i].links)
    /\ plan.follow =>
          \A i \in DOMAIN fetched : fetched[i].depth < MaxDepth =>
              \A page \in Crawl!ToSet(fetched[i].links) \cap Candidates : Welcome(page) => page \in seen

CrawlInv == CrawlShape /\ CrawlPaid /\ CrawlScope /\ CrawlQueue /\ CrawlReports

(* A non-empty set of natural numbers has a least member.                  *)
LEMMA LeastNumber ==
    ASSUME NEW T, T \subseteq Nat, T # {}
    PROVE  \E x \in T : \A y \in T : x <= y
<1> DEFINE R == OpToRel(<, Nat)
<1>1. IsWellFoundedOn(R, Nat)
  BY NatLessThanWellFounded
<1> HIDE DEF R
<1>2. \E x \in T : \A y \in T : ~ (<<y, x>> \in R)
  BY <1>1, WFMin
<1>3. \A x, y \in Nat : y < x => <<y, x>> \in R
  BY DEF R, OpToRel
<1>4. PICK x \in T : \A y \in T : ~ (<<y, x>> \in R)
  BY <1>2
<1>5. ASSUME NEW y \in T PROVE x <= y
  <2>1. x \in Nat /\ y \in Nat /\ ~ (<<y, x>> \in R)
    BY <1>4
  <2>2. ~ (y < x)
    BY <2>1, <1>3
  <2>3. QED
    BY <2>1, <2>2
<1>6. QED
  BY <1>5

(* Induction up to a length, for a set of numbers instead of a predicate.  *)
LEMMA UpTo ==
    ASSUME NEW S, NEW n \in Nat, 0 \in S, \A i \in 0..n : i \in S /\ i < n => i + 1 \in S
    PROVE  \A i \in 0..n : i \in S
<1> DEFINE T == (0..n) \ S
<1>1. SUFFICES ASSUME T # {} PROVE FALSE
  OBVIOUS
<1>2. PICK x \in T : \A y \in T : x <= y
  <2>1. T \subseteq Nat
    OBVIOUS
  <2> HIDE DEF T
  <2>2. QED
    BY <1>1, <2>1, LeastNumber
<1>3. x \in 0..n /\ x # 0 /\ x - 1 \in 0..n /\ x - 1 \notin T /\ x - 1 < n
  BY <1>2
<1>4. QED
  BY <1>2, <1>3

(* A step can be repeated along a sequence: what reserving the candidates  *)
(* one by one computes.                                                    *)
LEMMA ReserveRuns ==
    ASSUME NEW s, NEW pages \in Seq(Pages), NEW depth
    PROVE  \E f : /\ f = [i \in 0..Len(pages) |->
                            IF i = 0 THEN s ELSE Crawl!Reserve(f[i - 1], pages[i], depth)]
                  /\ Crawl!ReserveAll(s, pages, depth) = f[Len(pages)]
<1> DEFINE L == Len(pages)
           Run(n, f) == f = [i \in 0..n |-> IF i = 0 THEN s ELSE Crawl!Reserve(f[i - 1], pages[i], depth)]
           S == {n \in Nat : \E f : Run(n, f)}
<1>1. L \in Nat
  OBVIOUS
<1>2. 0 \in S
  <2>1. PICK f : f = [i \in 0..0 |-> s]
    OBVIOUS
  <2>2. Run(0, f)
    BY <2>1
  <2>3. QED
    BY <2>2
<1>3. ASSUME NEW n \in 0..L, n \in S, n < L PROVE n + 1 \in S
  <2>1. PICK f : Run(n, f)
    BY <1>3
  <2>2. PICK g : g = [i \in 0..(n + 1) |-> IF i <= n THEN f[i] ELSE Crawl!Reserve(f[n], pages[n + 1], depth)]
    OBVIOUS
  <2>3. ASSUME NEW i \in 0..(n + 1)
        PROVE  g[i] = IF i = 0 THEN s ELSE Crawl!Reserve(g[i - 1], pages[i], depth)
    <3>1. CASE i = 0
      <4>1. g[0] = f[0] /\ f[0] = s
        BY <1>1, <2>1, <2>2
      <4>2. QED
        BY <3>1, <4>1
    <3>2. CASE i # 0 /\ i <= n
      <4>1. i \in 0..n /\ i - 1 \in 0..n /\ i - 1 \in 0..(n + 1) /\ i - 1 <= n
        BY <3>2, <1>1
      <4>2. g[i] = f[i] /\ g[i - 1] = f[i - 1]
        BY <2>2, <4>1, <3>2
      <4>3. f[i] = Crawl!Reserve(f[i - 1], pages[i], depth)
        BY <2>1, <4>1, <3>2
      <4>4. QED
        BY <4>2, <4>3, <3>2
    <3>3. CASE i = n + 1
      <4>1. n \in 0..(n + 1) /\ i # 0 /\ i - 1 = n /\ ~ (i <= n)
        BY <3>3, <1>1
      <4>2. g[n] = f[n] /\ g[i] = Crawl!Reserve(f[n], pages[n + 1], depth)
        BY <2>2, <4>1
      <4>3. QED
        BY <4>1, <4>2, <3>3
    <3>4. QED
      BY <3>1, <3>2, <3>3, <1>1
  <2>4. Run(n + 1, g)
    <3> HIDE DEF S
    <3>1. g = [i \in 0..(n + 1) |-> g[i]]
      BY <2>2
    <3>2. QED
      BY <3>1, <2>3
  <2>5. n + 1 \in Nat
    BY <1>1
  <2>6. QED
    BY <2>4, <2>5
<1>4. L \in S
  <2> HIDE DEF S, L, Run
  <2>1. \A i \in 0..L : i \in S /\ i < L => i + 1 \in S
    BY <1>3
  <2>2. \A i \in 0..L : i \in S
    BY <1>1, <1>2, <2>1, UpTo
  <2>3. QED
    BY <1>1, <2>2
<1>5. \E f : Run(L, f)
  BY <1>4
<1>6. PICK f : f = CHOOSE g : Run(L, g)
  OBVIOUS
<1>7. Run(L, f)
  BY <1>5, <1>6
<1>8. Crawl!ReserveAll(s, pages, depth) = f[L]
  BY <1>6 DEF Crawl!ReserveAll
<1>9. QED
  BY <1>7, <1>8

(* Cardinality means the same inside the crawl.                            *)
LEMMA CrawlCardinality == ASSUME NEW S PROVE Crawl!Cardinality(S) = Cardinality(S)
BY Zenon DEF Crawl!Cardinality, Cardinality

(* A finite set of numbers can be put in increasing order.                 *)
Increasing(s, S) ==
    /\ \A x \in S : \E i \in DOMAIN s : s[i] = x
    /\ \A i, j \in DOMAIN s : i < j => s[i] < s[j]

(* One number more, below all the others, goes in front.                   *)
LEMMA InFront ==
    ASSUME NEW S, S \subseteq Nat, NEW x \in S, \A y \in S : x <= y,
           NEW n \in Nat, NEW s \in [1..n -> S \ {x}], Increasing(s, S \ {x})
    PROVE  \E t \in [1..(n + 1) -> S] : Increasing(t, S)
<1>1. PICK t : t = [i \in 1..(n + 1) |-> IF i = 1 THEN x ELSE s[i - 1]]
  OBVIOUS
<1>2. \A i \in 1..(n + 1) : i # 1 => i - 1 \in 1..n /\ t[i] = s[i - 1] /\ t[i] \in S \ {x}
  BY <1>1
<1>3. t[1] = x /\ 1 \in 1..(n + 1)
  BY <1>1
<1>4. t \in [1..(n + 1) -> S]
  BY <1>1, <1>2, <1>3
<1>5. ASSUME NEW y \in S PROVE \E i \in DOMAIN t : t[i] = y
  <2>1. CASE y = x
    BY <2>1, <1>3, <1>1
  <2>2. CASE y # x
    <3>1. PICK i \in 1..n : s[i] = y
      BY <2>2 DEF Increasing
    <3>2. i + 1 \in 1..(n + 1) /\ i + 1 # 1 /\ (i + 1) - 1 = i
      BY <3>1
    <3>3. t[i + 1] = y
      BY <3>1, <3>2, <1>2
    <3>4. QED
      BY <3>2, <3>3, <1>1
  <2>3. QED
    BY <2>1, <2>2
<1>6. ASSUME NEW i \in 1..(n + 1), NEW j \in 1..(n + 1), i < j PROVE t[i] < t[j]
  <2> j # 1
    BY <1>6
  <2>1. j - 1 \in 1..n /\ t[j] = s[j - 1] /\ t[j] \in S \ {x} /\ t[j] \in Nat /\ x \in Nat
    BY <1>2
  <2>2. CASE i = 1
    BY <2>2, <2>1, <1>3
  <2>3. CASE i # 1
    <3>1. i - 1 \in 1..n /\ t[i] = s[i - 1] /\ i - 1 < j - 1
      BY <2>3, <1>2, <1>6
    <3>2. s[i - 1] < s[j - 1]
      BY <3>1, <2>1 DEF Increasing
    <3>3. QED
      BY <3>1, <3>2, <2>1
  <2>4. QED
    BY <2>2, <2>3
<1>7. Increasing(t, S)
  BY <1>1, <1>5, <1>6 DEF Increasing
<1>8. QED
  BY <1>4, <1>7

(* Every finite set of numbers has such a sequence.                        *)
LEMMA OrderExists ==
    ASSUME NEW S, S \subseteq Nat, IsFiniteSet(S)
    PROVE  \E s \in [1..Cardinality(S) -> S] : Increasing(s, S)
<1> DEFINE Ordered(U) == \E s \in [1..Cardinality(U) -> U] : Increasing(s, U)
           G == {n \in Nat : \A U \in SUBSET S : Cardinality(U) = n => Ordered(U)}
<1>1. \A U \in SUBSET S : IsFiniteSet(U) /\ U \subseteq Nat /\ Cardinality(U) \in Nat
  <2>1. SUFFICES ASSUME NEW U \in SUBSET S PROVE IsFiniteSet(U) /\ U \subseteq Nat /\ Cardinality(U) \in Nat
    OBVIOUS
  <2>2. IsFiniteSet(U)
    BY FS_Subset
  <2>3. QED
    BY <2>2, FS_CardinalityType
<1>2. 0 \in G
  <2>1. SUFFICES ASSUME NEW U \in SUBSET S, Cardinality(U) = 0 PROVE Ordered(U)
    OBVIOUS
  <2>2. U = {}
    BY <1>1, <2>1, FS_EmptySet
  <2>3. PICK s : s = [i \in 1..0 |-> 0]
    OBVIOUS
  <2>4. DOMAIN s = {} /\ s \in [1..Cardinality(U) -> U]
    BY <2>1, <2>3
  <2>5. Increasing(s, U)
    BY <2>2, <2>4 DEF Increasing
  <2>6. QED
    BY <2>4, <2>5
<1>3. ASSUME NEW n \in Nat, n \in G PROVE n + 1 \in G
  <2>1. SUFFICES ASSUME NEW U \in SUBSET S, Cardinality(U) = n + 1 PROVE Ordered(U)
    OBVIOUS
  <2>2. U # {}
    BY <1>1, <2>1, FS_EmptySet
  <2>3. PICK x \in U : \A y \in U : x <= y
    BY <1>1, <2>2, LeastNumber
  <2>4. Cardinality(U \ {x}) = n
    <3>1. IsFiniteSet(U) /\ Cardinality(U \ {x}) = IF x \in U THEN Cardinality(U) - 1 ELSE Cardinality(U)
      BY <1>1, FS_RemoveElement
    <3>2. QED
      BY <2>1, <2>3, <3>1
  <2>5. PICK s \in [1..n -> U \ {x}] : Increasing(s, U \ {x})
    <3>1. U \ {x} \in SUBSET S
      OBVIOUS
    <3>2. Ordered(U \ {x})
      BY <1>3, <2>4, <3>1
    <3>3. QED
      BY <2>4, <3>2
  <2>6. QED
    BY <1>1, <2>1, <2>3, <2>5, InFront
<1>4. Cardinality(S) \in Nat
  BY <1>1
<1>5. Cardinality(S) \in G
  <2> HIDE DEF G
  <2>1. \A i \in 0..Cardinality(S) : i \in G /\ i < Cardinality(S) => i + 1 \in G
    BY <1>3
  <2>2. \A i \in 0..Cardinality(S) : i \in G
    BY <1>2, <1>4, <2>1, UpTo
  <2>3. QED
    BY <1>4, <2>2
<1>6. QED
  BY <1>5

(* What the sort of the crawl returns.                                     *)
LEMMA SortedIs ==
    ASSUME NEW S, S \subseteq Nat, IsFiniteSet(S)
    PROVE  Crawl!Sorted(S) \in Seq(S) /\ \A x \in S : \E i \in DOMAIN Crawl!Sorted(S) : Crawl!Sorted(S)[i] = x
<1>1. Cardinality(S) \in Nat /\ Crawl!Cardinality(S) = Cardinality(S)
  BY FS_CardinalityType, CrawlCardinality
<1>2. \E s \in [1..Cardinality(S) -> S] : Increasing(s, S)
  BY OrderExists
<1>3. Crawl!Sorted(S) = CHOOSE s \in [1..Cardinality(S) -> S] : Increasing(s, S)
  BY <1>1 DEF Crawl!Sorted, Increasing
<1>4. PICK s : s = Crawl!Sorted(S)
  OBVIOUS
<1>5. s \in [1..Cardinality(S) -> S] /\ Increasing(s, S)
  BY <1>2, <1>3, <1>4
<1>6. s \in Seq(S)
  BY <1>1, <1>5
<1>7. QED
  BY <1>4, <1>5, <1>6 DEF Increasing

(* The links that are kept are pages, no matter how a document repeats     *)
(* them, and none that was read is missing.                                *)
LEMMA LinksAre ==
    ASSUME NEW links \in Seq(Pages), NEW n \in Nat
    PROVE  /\ Crawl!FirstOf(links, n) \in Seq(Pages)
           /\ Crawl!CanonicalLinks(links) \in Seq(Pages)
           /\ KeptAll(links, Crawl!CanonicalLinks(links))
           /\ Len(links) <= n => Crawl!FirstOf(links, n) = links
<1>1. ASSUME NEW l \in Seq(Pages), NEW m \in Nat PROVE Crawl!FirstOf(l, m) \in Seq(Pages)
  <2>1. SubSeq(l, 1, IF Len(l) > m THEN m ELSE Len(l)) \in Seq(Pages)
    OBVIOUS
  <2>2. QED
    BY <2>1 DEF Crawl!FirstOf
<1>2. PICK raw : raw = Crawl!FirstOf(links, MaxLinksPerDocument + 1)
  OBVIOUS
<1>3. raw \in Seq(Pages)
  <2>1. MaxLinksPerDocument + 1 \in Nat
    BY CrawlAssumption
  <2>2. QED
    BY <1>1, <1>2, <2>1
<1>4. PICK S : S = {i \in DOMAIN raw : \A j \in 1..(i - 1) : raw[j] # raw[i]}
  OBVIOUS
<1>5. S \subseteq DOMAIN raw /\ S \subseteq Nat /\ IsFiniteSet(S)
  <2>1. DOMAIN raw = 1..Len(raw) /\ Len(raw) \in Nat
    BY <1>3
  <2>2. IsFiniteSet(1..Len(raw))
    BY <2>1, FS_Interval
  <2>3. S \subseteq 1..Len(raw)
    BY <1>4, <2>1
  <2>4. IsFiniteSet(S)
    BY <2>2, <2>3, FS_Subset
  <2>5. QED
    BY <2>1, <2>3, <2>4
<1>6. PICK firsts : firsts = Crawl!Sorted(S)
  OBVIOUS
<1>7. firsts \in Seq(S) /\ \A i \in S : \E k \in DOMAIN firsts : firsts[k] = i
  BY <1>5, <1>6, SortedIs
<1>8. PICK all : all = [k \in DOMAIN firsts |-> raw[firsts[k]]]
  OBVIOUS
<1>9. all \in Seq(Pages) /\ all = Crawl!CanonicalLinks(links)
  <2>1. firsts \in Seq(S)
    BY <1>7
  <2>2. [k \in DOMAIN firsts |-> raw[firsts[k]]] \in Seq(Pages)
    BY <1>3, <1>5, <2>1
  <2>3. QED
    BY <1>2, <1>4, <1>6, <1>8, <2>2 DEF Crawl!CanonicalLinks
<1>10. ASSUME NEW i \in DOMAIN raw PROVE \E k \in DOMAIN all : all[k] = raw[i]
  <2>1. PICK T : T = {j \in DOMAIN raw : raw[j] = raw[i]}
    OBVIOUS
  <2>2. DOMAIN raw = 1..Len(raw) /\ Len(raw) \in Nat /\ T \subseteq Nat /\ T # {}
    BY <1>3, <1>10, <2>1
  <2>3. PICK j \in T : \A m \in T : j <= m
    BY <2>2, LeastNumber
  <2>4. j \in DOMAIN raw /\ raw[j] = raw[i] /\ \A m \in 1..(j - 1) : raw[m] # raw[j]
    <3>1. j \in 1..Len(raw) /\ raw[j] = raw[i]
      BY <2>1, <2>2
    <3>2. ASSUME NEW m \in 1..(j - 1), raw[m] = raw[j] PROVE FALSE
      <4>1. m \in 1..Len(raw) /\ m < j /\ m \in Nat /\ j \in Nat
        BY <2>2, <3>1, <3>2
      <4>2. m \in T
        BY <2>1, <2>2, <3>1, <3>2, <4>1
      <4>3. j <= m
        BY <2>3, <4>2
      <4>4. QED
        BY ONLY <4>1, <4>3
    <3>3. QED
      BY <2>2, <3>1, <3>2
  <2>5. PICK k \in DOMAIN firsts : firsts[k] = j
    BY <1>4, <1>7, <2>4
  <2>6. QED
    BY <1>8, <2>4, <2>5
<1>11. KeptAll(links, all)
  <2>1. \A p \in Crawl!ToSet(raw) : p \in Crawl!ToSet(all)
    BY <1>10 DEF Crawl!ToSet
  <2>2. QED
    BY <1>2, <2>1 DEF KeptAll
<1>12. ASSUME Len(links) <= n PROVE Crawl!FirstOf(links, n) = links
  <2>1. ~(Len(links) > n) /\ SubSeq(links, 1, Len(links)) = links
    BY <1>12
  <2>2. QED
    BY <2>1 DEF Crawl!FirstOf
<1>13. QED
  BY <1>1, <1>9, <1>11, <1>12

-----------------------------------------------------------------------------
(* What reserving one candidate may do.                                    *)
Refused(x, page, depth) ==
    depth > MaxDepth \/ ~Crawl!Accepts(x.tracker, page)
SameCounts(x, y) ==
    /\ y.tracker.pages = x.tracker.pages /\ y.tracker.redirects = x.tracker.redirects
    /\ y.tracker.bytes = x.tracker.bytes
Reservation == {"seen", "tracker", "issues", "taken"}
Reserving(x) == DOMAIN x = Reservation /\ x = [f \in Reservation |-> x[f]]

Outcome(x, y, page, depth) ==
    /\ Reserving(y) /\ y.tracker \in Accounts /\ SameCounts(x, y)
    /\ \/ Refused(x, page, depth) /\ y = x
       \/ /\ ~Refused(x, page, depth)
          /\ y.tracker.origins = IF Crawl!permits_origin(x.tracker, page) THEN x.tracker.origins
                                 ELSE x.tracker.origins \cup {Origin[page]}
          /\ \/ /\ page \in x.seen /\ y.seen = x.seen /\ y.issues = x.issues
                /\ y.taken = x.taken /\ y.tracker.stopped = x.tracker.stopped
             \/ /\ y.seen = x.seen \cup {page} /\ y.issues = x.issues \cup {"link_limit"}
                /\ y.taken = x.taken
             \/ /\ page \notin x.seen /\ y.seen = x.seen \cup {page} /\ y.issues = x.issues
                /\ y.taken = Append(x.taken, page) /\ y.tracker.stopped = x.tracker.stopped

(* Reserving a candidate has one of these outcomes.                        *)
LEMMA ReserveCases ==
    ASSUME NEW x, Reserving(x), x.tracker \in Accounts, NEW page \in Pages, NEW depth \in Nat
    PROVE  Outcome(x, Crawl!Reserve(x, page, depth), page, depth)
<1>0. PICK y : y = Crawl!Reserve(x, page, depth)
  OBVIOUS
<1>1. CASE Refused(x, page, depth)
  <2>1. y = x
    BY <1>0, <1>1 DEF Refused, Crawl!Reserve
  <2>2. Outcome(x, y, page, depth)
    BY <1>1, <2>1 DEF SameCounts, Outcome
  <2>3. QED
    BY <2>2, <1>0
<1>2. CASE ~Refused(x, page, depth)
  <2>1. PICK o : o = IF Crawl!permits_origin(x.tracker, page) THEN x.tracker.origins
                     ELSE x.tracker.origins \cup {Origin[page]}
    OBVIOUS
  <2>2. o \in SUBSET Sites
    BY <2>1 DEF Sites, Accounts
  <2>3. PICK u : u = [x.tracker EXCEPT !.origins = o]
    OBVIOUS
  <2>4. /\ u \in Accounts /\ u.origins = o /\ u.links = x.tracker.links /\ u.stopped = x.tracker.stopped
        /\ u.pages = x.tracker.pages /\ u.redirects = x.tracker.redirects /\ u.bytes = x.tracker.bytes
    BY <2>2, <2>3 DEF Accounts
  <2>5. u = [x.tracker EXCEPT !.origins = IF Crawl!permits_origin(x.tracker, page) THEN @
                                          ELSE @ \cup {Origin[page]}]
    BY <2>1, <2>3 DEF Accounts
  <2>6. y = IF page \in x.seen THEN [x EXCEPT !.tracker = u]
            ELSE IF x.tracker.links >= MaxTotalLinks
            THEN [x EXCEPT !.tracker = [u EXCEPT !.stopped = TRUE],
                           !.seen = @ \cup {page}, !.issues = @ \cup {"link_limit"}]
            ELSE [x EXCEPT !.tracker = [u EXCEPT !.links = @ + 1],
                           !.seen = @ \cup {page}, !.taken = Append(@, page)]
    BY <1>0, <1>2, <2>5, Zenon DEF Refused, Crawl!Reserve
  <2>7. ASSUME page \in x.seen PROVE Outcome(x, y, page, depth)
    <3>1. y = [x EXCEPT !.tracker = u]
      BY <2>6, <2>7
    <3>2. QED
      BY <3>1, <2>1, <2>4, <2>7, <1>2 DEF Outcome, Reserving, Reservation, SameCounts
  <2>8. ASSUME page \notin x.seen /\ x.tracker.links >= MaxTotalLinks PROVE Outcome(x, y, page, depth)
    <3>1. PICK w : w = [u EXCEPT !.stopped = TRUE]
      OBVIOUS
    <3>2. /\ w \in Accounts /\ w.origins = o /\ w.pages = x.tracker.pages
          /\ w.redirects = x.tracker.redirects /\ w.bytes = x.tracker.bytes
      BY <3>1, <2>4 DEF Accounts
    <3>3. y = [x EXCEPT !.tracker = w, !.seen = @ \cup {page}, !.issues = @ \cup {"link_limit"}]
      BY <2>6, <2>8, <3>1
    <3>4. QED
      BY <3>2, <3>3, <2>1, <1>2 DEF Outcome, Reserving, Reservation, SameCounts
  <2>9. ASSUME page \notin x.seen /\ ~(x.tracker.links >= MaxTotalLinks) PROVE Outcome(x, y, page, depth)
    <3>1. PICK w : w = [u EXCEPT !.links = @ + 1]
      OBVIOUS
    <3>2. u.links + 1 \in 0..MaxTotalLinks
      <4>1. x.tracker.links \in 0..MaxTotalLinks /\ MaxTotalLinks \in Nat
        BY CrawlAssumption DEF Accounts
      <4>2. QED
        BY <2>4, <2>9, <4>1
    <3>3. /\ w \in Accounts /\ w.origins = o /\ w.pages = x.tracker.pages /\ w.stopped = x.tracker.stopped
          /\ w.redirects = x.tracker.redirects /\ w.bytes = x.tracker.bytes
      BY <3>1, <3>2, <2>4 DEF Accounts
    <3>4. y = [x EXCEPT !.tracker = w, !.seen = @ \cup {page}, !.taken = Append(@, page)]
      BY <2>6, <2>9, <3>1
    <3>5. QED
      BY <3>3, <3>4, <2>1, <2>9, <1>2 DEF Outcome, Reserving, Reservation, SameCounts
  <2>10. QED
    BY <1>0, <2>7, <2>8, <2>9
<1>3. QED
  BY <1>0, <1>1, <1>2

(* Fewer origins: the limit has not been reached either.                   *)
LEMMA FewerSites ==
    ASSUME NEW S \in SUBSET Sites, NEW T, T \subseteq S
    PROVE  IsFiniteSet(S) /\ Cardinality(T) <= Cardinality(S) /\ Cardinality(T) \in Nat /\ Cardinality(S) \in Nat
<1>1. IsFiniteSet(Sites)
  <2>1. PICK f : f = [page \in Pages |-> Origin[page]]
    OBVIOUS
  <2>2. f \in Surjection(Pages, Sites)
    BY <2>1 DEF Sites, Surjection
  <2>3. QED
    BY <2>2, CrawlAssumption, FS_Surjection
<1>2. IsFiniteSet(S)
  BY <1>1, FS_Subset
<1>3. IsFiniteSet(T) /\ Cardinality(T) <= Cardinality(S)
  BY <1>2, FS_Subset
<1>4. QED
  BY <1>2, <1>3, FS_CardinalityType

(* What has become of a base b after the first n candidates: what is taken *)
(* is new and permitted; what is seen was taken unless the limit was       *)
(* reported; no page is accepted that was not before; and what is accepted *)
(* was seen.                                                               *)
Taken(b, x) ==
    /\ x.taken \in Seq(Pages)
    /\ \A i \in DOMAIN x.taken :
          /\ x.taken[i] \in x.seen /\ x.taken[i] \notin b.seen
          /\ Crawl!permits_origin(x.tracker, x.taken[i])
          /\ \A j \in DOMAIN x.taken : x.taken[j] = x.taken[i] => i = j
Complete(b, x) ==
    \/ "link_limit" \in x.issues
    \/ /\ x.issues = b.issues /\ x.tracker.stopped = b.tracker.stopped
       /\ \A page \in x.seen : page \in b.seen \/ \E i \in DOMAIN x.taken : x.taken[i] = page
Reserved(b, x, pages, n, depth) ==
    /\ Reserving(x) /\ x.tracker \in Accounts /\ SameCounts(b, x)
    /\ x.seen \subseteq Pages /\ b.seen \subseteq x.seen /\ b.issues \subseteq x.issues
    /\ b.tracker.origins \subseteq x.tracker.origins
    /\ \A site \in x.tracker.origins : site \in plan.origins \/ (plan.public /\ site \in Related)
    /\ x.taken # <<>> => depth <= MaxDepth
    /\ Taken(b, x) /\ Complete(b, x)
    /\ \A page : Crawl!Accepts(x.tracker, page) => Crawl!Accepts(b.tracker, page)
    /\ depth <= MaxDepth =>
          \A i \in 1..n : Crawl!Accepts(x.tracker, pages[i]) => pages[i] \in x.seen

(* One candidate more.                                                     *)
LEMMA ReserveOne ==
    ASSUME NEW b, NEW x, NEW pages \in Seq(Pages), NEW n \in Nat, n + 1 \in DOMAIN pages, NEW depth \in Nat,
           Reserved(b, x, pages, n, depth), NEW y, y = Crawl!Reserve(x, pages[n + 1], depth)
    PROVE  Reserved(b, y, pages, n + 1, depth)
<1>0. PICK page \in Pages : page = pages[n + 1] /\ y = Crawl!Reserve(x, page, depth)
  <2>1. pages[n + 1] \in Pages
    OBVIOUS
  <2>2. QED
    BY <2>1
<1>1. /\ Reserving(x) /\ x.tracker \in Accounts
      /\ SameCounts(b, x) /\ Taken(b, x) /\ Complete(b, x) /\ x.seen \subseteq Pages /\ b.seen \subseteq x.seen
      /\ b.issues \subseteq x.issues /\ b.tracker.origins \subseteq x.tracker.origins
      /\ \A site \in x.tracker.origins : site \in plan.origins \/ (plan.public /\ site \in Related)
      /\ (x.taken # <<>> => depth <= MaxDepth)
      /\ (\A p : Crawl!Accepts(x.tracker, p) => Crawl!Accepts(b.tracker, p))
      /\ (depth <= MaxDepth =>
            \A i \in 1..n : Crawl!Accepts(x.tracker, pages[i]) => pages[i] \in x.seen)
  BY DEF Reserved
<1>2. /\ Reserving(y) /\ y.tracker \in Accounts /\ SameCounts(x, y)
  <2>1. page \in Pages /\ y = Crawl!Reserve(x, page, depth) /\ Reserving(x) /\ x.tracker \in Accounts
    BY <1>0, <1>1
  <2>2. Outcome(x, y, page, depth)
    BY <2>1, ReserveCases
  <2>3. QED
    BY <2>2 DEF Outcome
<1>3. SameCounts(b, y)
  BY <1>1, <1>2 DEF SameCounts
<1>4. \A i \in 1..(n + 1) : i \in 1..n \/ i = n + 1
  OBVIOUS
<1>5. CASE Refused(x, page, depth) /\ y = x
  <2>1. ASSUME depth <= MaxDepth, Crawl!Accepts(x.tracker, page) PROVE FALSE
    BY <1>5, <2>1, CrawlAssumption DEF Refused
  <2>2. QED
    BY <1>0, <1>1, <1>4, <1>5, <2>1 DEF Reserved
<1>6. CASE /\ ~Refused(x, page, depth)
           /\ y.tracker.origins = IF Crawl!permits_origin(x.tracker, page) THEN x.tracker.origins
                                  ELSE x.tracker.origins \cup {Origin[page]}
           /\ \/ /\ page \in x.seen /\ y.seen = x.seen /\ y.issues = x.issues
                 /\ y.taken = x.taken /\ y.tracker.stopped = x.tracker.stopped
              \/ /\ y.seen = x.seen \cup {page} /\ y.issues = x.issues \cup {"link_limit"}
                 /\ y.taken = x.taken
              \/ /\ page \notin x.seen /\ y.seen = x.seen \cup {page} /\ y.issues = x.issues
                 /\ y.taken = Append(x.taken, page) /\ y.tracker.stopped = x.tracker.stopped
  <2>1. depth <= MaxDepth
    BY <1>6, CrawlAssumption DEF Refused
  <2>2. x.tracker.origins \subseteq y.tracker.origins
    BY <1>6
  <2>3. \A site \in y.tracker.origins : site \in plan.origins \/ (plan.public /\ site \in Related)
    BY <1>1, <1>6 DEF Refused, Crawl!Accepts, Crawl!Relates
  <2>4. y.seen \subseteq Pages /\ x.seen \subseteq y.seen /\ page \in y.seen /\ x.issues \subseteq y.issues
    BY <1>1, <1>6
  <2>11. ASSUME NEW p, Crawl!Accepts(y.tracker, p) PROVE Crawl!Accepts(x.tracker, p)
    <3>1. CASE Crawl!permits_origin(x.tracker, p)
      BY <3>1 DEF Crawl!Accepts
    <3>2. CASE Crawl!permits_origin(y.tracker, p) /\ ~Crawl!permits_origin(x.tracker, p)
      <4>1. Origin[p] = Origin[page] /\ ~Crawl!permits_origin(x.tracker, page)
        BY <3>2, <1>6 DEF Crawl!permits_origin, Crawl!explicitly_permits
      <4>2. Crawl!Relates(x.tracker, page)
        BY <4>1, <1>6 DEF Refused, Crawl!Accepts
      <4>3. QED
        BY <4>1, <4>2 DEF Crawl!Accepts, Crawl!Relates
    <3>3. CASE Crawl!Relates(y.tracker, p)
      <4>1. y.tracker.origins \in SUBSET Sites
        BY <1>2 DEF Accounts
      <4>2. Cardinality(x.tracker.origins) <= Cardinality(y.tracker.origins)
            /\ Cardinality(x.tracker.origins) \in Nat /\ Cardinality(y.tracker.origins) \in Nat
        BY <4>1, <2>2, FewerSites
      <4>3. Cardinality(y.tracker.origins) < MaxOrigins /\ MaxOrigins \in Nat
        BY <3>3, CrawlAssumption, CrawlCardinality DEF Crawl!Relates
      <4>4. Cardinality(x.tracker.origins) < MaxOrigins
        BY ONLY <4>2, <4>3
      <4>5. QED
        BY <3>3, <4>4, CrawlCardinality DEF Crawl!Accepts, Crawl!Relates
    <3>4. QED
      BY <2>11, <3>1, <3>2, <3>3 DEF Crawl!Accepts
  <2>5. /\ \A p : Crawl!Accepts(y.tracker, p) => Crawl!Accepts(b.tracker, p)
        /\ \A i \in 1..(n + 1) : Crawl!Accepts(y.tracker, pages[i]) => pages[i] \in y.seen
    BY <2>11, <1>0, <1>1, <1>4, <2>1, <2>4
  <2>6. \A p : Crawl!permits_origin(x.tracker, p) => Crawl!permits_origin(y.tracker, p)
    BY <2>2 DEF Crawl!permits_origin
  <2>7. Crawl!permits_origin(y.tracker, page)
    BY <1>6 DEF Crawl!permits_origin
  <2>8. CASE y.taken = x.taken
    <3>1. Taken(b, y)
      <4>1. Taken(b, x)
        BY <1>1
      <4>2. QED
        BY <4>1, <2>4, <2>6, <2>8, Zenon DEF Taken
    <3>2. Complete(b, y)
      <4>1. CASE "link_limit" \in y.issues
        BY <4>1 DEF Complete
      <4>2. CASE "link_limit" \notin y.issues
        <5>1. Complete(b, x) /\ y.seen = x.seen /\ y.issues = x.issues /\ y.tracker.stopped = x.tracker.stopped
          <6>1. y.taken # Append(x.taken, page)
            <7>1. x.taken \in Seq(Pages)
              BY <1>1 DEF Taken
            <7>2. x.taken # Append(x.taken, page)
              BY <7>1
            <7>3. QED
              BY <7>2, <2>8
          <6>2. QED
            BY <1>1, <1>6, <4>2, <6>1
        <5>2. QED
          BY <5>1, <2>8, Zenon DEF Complete
      <4>3. QED
        BY <4>1, <4>2
    <3>3. QED
      BY <1>1, <1>2, <1>3, <2>1, <2>2, <2>3, <2>4, <2>5, <3>1, <3>2 DEF Reserved
  <2>9. CASE /\ page \notin x.seen /\ y.seen = x.seen \cup {page} /\ y.issues = x.issues
             /\ y.taken = Append(x.taken, page) /\ y.tracker.stopped = x.tracker.stopped
    <3>1. /\ y.taken \in Seq(Pages) /\ Len(x.taken) \in Nat /\ DOMAIN y.taken = 1..(Len(x.taken) + 1)
          /\ DOMAIN x.taken = 1..Len(x.taken)
          /\ y.taken[Len(x.taken) + 1] = page /\ \A i \in 1..Len(x.taken) : y.taken[i] = x.taken[i]
      <4>1. PICK t \in Seq(Pages) : t = x.taken
        BY <1>1 DEF Taken
      <4>2. PICK v : v = Append(t, page)
        OBVIOUS
      <4>3. /\ v \in Seq(Pages) /\ Len(t) \in Nat /\ DOMAIN v = 1..(Len(t) + 1) /\ DOMAIN t = 1..Len(t)
            /\ v[Len(t) + 1] = page /\ \A i \in 1..Len(t) : v[i] = t[i]
        BY <4>2
      <4>4. QED
        BY <4>1, <4>2, <4>3, <2>9
    <3>2. \A i \in DOMAIN y.taken : i \in DOMAIN x.taken \/ i = Len(x.taken) + 1
      BY <3>1
    <3>3. DOMAIN x.taken \subseteq DOMAIN y.taken /\ Len(x.taken) + 1 \in DOMAIN y.taken
      BY <3>1
    <3>4. page \notin b.seen /\ \A i \in DOMAIN x.taken : x.taken[i] # page
      BY <1>1, <2>9 DEF Taken
    <3>5. Taken(b, y)
      <4>1. ASSUME NEW i \in DOMAIN y.taken
            PROVE  /\ y.taken[i] \in y.seen /\ y.taken[i] \notin b.seen
                   /\ Crawl!permits_origin(y.tracker, y.taken[i])
        BY <1>1, <2>4, <2>6, <2>7, <3>1, <3>2, <3>4 DEF Taken
      <4>2. ASSUME NEW i \in DOMAIN y.taken, NEW j \in DOMAIN y.taken, y.taken[j] = y.taken[i] PROVE i = j
        BY <1>1, <3>1, <3>2, <3>4, <4>2 DEF Taken
      <4>3. QED
        BY <3>1, <4>1, <4>2 DEF Taken
    <3>6. Complete(b, y)
      <4>1. CASE "link_limit" \in x.issues
        BY <4>1, <2>9 DEF Complete
      <4>2. CASE "link_limit" \notin x.issues
        <5>1. ASSUME NEW p \in y.seen PROVE p \in b.seen \/ \E i \in DOMAIN y.taken : y.taken[i] = p
          <6>1. CASE p = page
            BY <6>1, <3>1, <3>3
          <6>2. CASE p \in x.seen /\ p \notin b.seen
            <7>1. PICK i \in DOMAIN x.taken : x.taken[i] = p
              BY <6>2, <4>2, <1>1 DEF Complete
            <7>2. QED
              BY <7>1, <3>1, <3>3
          <6>3. QED
            BY <2>9, <6>1, <6>2
        <5>2. QED
          BY <5>1, <4>2, <2>9, <1>1 DEF Complete
      <4>3. QED
        BY <4>1, <4>2
    <3>7. QED
      BY <1>1, <1>2, <1>3, <2>1, <2>2, <2>3, <2>4, <2>5, <3>5, <3>6 DEF Reserved
  <2>10. QED
    BY <1>6, <2>8, <2>9
<1>7. QED
  <2>1. page \in Pages /\ y = Crawl!Reserve(x, page, depth) /\ Reserving(x) /\ x.tracker \in Accounts
    BY <1>0, <1>1
  <2>2. Outcome(x, y, page, depth)
    BY <2>1, ReserveCases
  <2>3. QED
    BY <2>2, <1>5, <1>6 DEF Outcome

(* Reserving nothing changes nothing, and so the whole list.               *)
LEMMA ReserveList ==
    ASSUME NEW b, NEW pages \in Seq(Pages), NEW depth \in Nat,
           Reserving(b), b.tracker \in Accounts, b.seen \subseteq Pages, b.taken = <<>>,
           \A site \in b.tracker.origins : site \in plan.origins \/ (plan.public /\ site \in Related)
    PROVE  /\ Reserved(b, b, pages, 0, depth)
           /\ Reserved(b, Crawl!ReserveAll(b, pages, depth), pages, Len(pages), depth)
<1>1. Reserved(b, b, pages, 0, depth)
  <2>1. b.taken \in Seq(Pages) /\ DOMAIN b.taken = {}
    OBVIOUS
  <2>2. Taken(b, b) /\ Complete(b, b) /\ SameCounts(b, b)
    BY <2>1 DEF SameCounts, Taken, Complete
  <2>3. QED
    BY <2>2 DEF Reserved
<1>2. PICK f : /\ f = [i \in 0..Len(pages) |->
                        IF i = 0 THEN b ELSE Crawl!Reserve(f[i - 1], pages[i], depth)]
               /\ Crawl!ReserveAll(b, pages, depth) = f[Len(pages)]
  BY ReserveRuns
<1> DEFINE G == {n \in 0..Len(pages) : Reserved(b, f[n], pages, n, depth)}
<1>3. Len(pages) \in Nat /\ DOMAIN pages = 1..Len(pages)
  OBVIOUS
<1>4. 0 \in G
  <2>1. 0 \in 0..Len(pages) /\ f[0] = b
    BY <1>2, <1>3
  <2>2. QED
    BY <1>1, <2>1
<1>5. ASSUME NEW n \in 0..Len(pages), n \in G, n < Len(pages) PROVE n + 1 \in G
  <2>1. n \in Nat /\ n + 1 \in DOMAIN pages /\ n + 1 \in 0..Len(pages) /\ n + 1 # 0 /\ (n + 1) - 1 = n
    BY <1>3, <1>5
  <2>2. f[n + 1] = Crawl!Reserve(f[n], pages[n + 1], depth)
    BY <1>2, <2>1
  <2>3. Reserved(b, f[n], pages, n, depth)
    BY <1>5
  <2>4. Reserved(b, f[n + 1], pages, n + 1, depth)
    BY <2>1, <2>2, <2>3, ReserveOne
  <2>5. QED
    BY <2>1, <2>4
<1>6. Len(pages) \in G
  <2> HIDE DEF G
  <2>1. \A i \in 0..Len(pages) : i \in G /\ i < Len(pages) => i + 1 \in G
    BY <1>5
  <2>2. \A i \in 0..Len(pages) : i \in G
    BY <1>3, <1>4, <2>1, UpTo
  <2>3. QED
    BY <1>3, <2>2
<1>7. QED
  BY <1>1, <1>2, <1>6

-----------------------------------------------------------------------------
(* The bytes of the documents, added up one by one.                        *)
Sums(e, n, f) == f = [i \in 0..n |-> IF i = 0 THEN 0 ELSE f[i - 1] + e[i].bytes]
Begins(d, e, n) == \A i \in 1..n : d[i] = e[i]
Total(e) == LET sum[i \in 0..Len(e)] == IF i = 0 THEN 0 ELSE sum[i - 1] + e[i].bytes IN sum[Len(e)]

(* One sum from the one before.                                            *)
LEMMA SumStep ==
    ASSUME NEW e, NEW n \in Nat, NEW f, Sums(e, n, f)
    PROVE  f[0] = 0 /\ \A i \in 0..n : i < n => f[i + 1] = f[i] + e[i + 1].bytes
<1>1. f[0] = 0
  BY DEF Sums
<1>2. ASSUME NEW i \in 0..n, i < n PROVE f[i + 1] = f[i] + e[i + 1].bytes
  <2>1. i + 1 \in 0..n /\ i + 1 # 0 /\ (i + 1) - 1 = i
    BY <1>2
  <2>2. QED
    BY <2>1 DEF Sums
<1>3. QED
  BY <1>1, <1>2

(* The sums up to n exist.                                                 *)
LEMMA SumsExist ==
    ASSUME NEW e, NEW L \in Nat
    PROVE  \E f : Sums(e, L, f)
<1> DEFINE S == {n \in Nat : \E f : Sums(e, n, f)}
<1>1. 0 \in S
  <2>1. PICK f : f = [i \in 0..0 |-> 0]
    OBVIOUS
  <2>2. Sums(e, 0, f)
    BY <2>1 DEF Sums
  <2>3. QED
    BY <2>2
<1>2. ASSUME NEW n \in 0..L, n \in S, n < L PROVE n + 1 \in S
  <2>1. PICK f : Sums(e, n, f)
    BY <1>2
  <2>2. PICK g : g = [i \in 0..(n + 1) |-> IF i <= n THEN f[i] ELSE f[n] + e[n + 1].bytes]
    OBVIOUS
  <2>3. ASSUME NEW i \in 0..(n + 1)
        PROVE  g[i] = IF i = 0 THEN 0 ELSE g[i - 1] + e[i].bytes
    <3>1. CASE i = 0
      BY <3>1, <2>1, <2>2 DEF Sums
    <3>2. CASE i # 0 /\ i <= n
      <4>1. i \in 0..n /\ i - 1 \in 0..(n + 1) /\ i - 1 <= n
        BY <3>2
      <4>2. g[i] = f[i] /\ g[i - 1] = f[i - 1]
        BY <2>2, <4>1, <3>2
      <4>3. f[i] = f[i - 1] + e[i].bytes
        BY <2>1, <4>1, <3>2 DEF Sums
      <4>4. QED
        BY <4>2, <4>3, <3>2
    <3>3. CASE i = n + 1
      <4>1. n \in 0..(n + 1) /\ i # 0 /\ i - 1 = n /\ ~ (i <= n)
        BY <3>3
      <4>2. g[n] = f[n] /\ g[i] = f[n] + e[n + 1].bytes
        BY <2>2, <4>1
      <4>3. QED
        BY <4>1, <4>2, <3>3
    <3>4. QED
      BY <3>1, <3>2, <3>3
  <2>4. Sums(e, n + 1, g)
    <3>1. g = [i \in 0..(n + 1) |-> g[i]]
      BY <2>2
    <3>2. QED
      BY <3>1, <2>3 DEF Sums
  <2>5. QED
    BY <2>4
<1>3. L \in S
  <2> HIDE DEF S
  <2>1. \A i \in 0..L : i \in S /\ i < L => i + 1 \in S
    BY <1>2
  <2>2. \A i \in 0..L : i \in S
    BY <1>1, <2>1, UpTo
  <2>3. QED
    BY <2>2
<1>4. QED
  BY <1>3

(* They agree wherever the documents do, and are numbers.                  *)
LEMMA SumsAgree ==
    ASSUME NEW e \in Seq(Found), NEW d, NEW n \in 0..Len(e), NEW m \in Nat, n <= m,
           Begins(d, e, n), NEW f, Sums(e, n, f), NEW g, Sums(d, m, g)
    PROVE  \A i \in 0..n : f[i] \in Nat /\ g[i] = f[i]
<1> DEFINE S == {i \in 0..n : f[i] \in Nat /\ g[i] = f[i]}
<1>0. n \in Nat /\ Len(e) \in Nat
  OBVIOUS
<1>1. 0 \in S
  <2>1. f[0] = 0 /\ g[0] = 0
    BY <1>0, SumStep
  <2>2. QED
    BY <1>0, <2>1
<1>2. ASSUME NEW i \in 0..n, i \in S, i < n PROVE i + 1 \in S
  <2>1. i \in 0..m /\ i < m /\ i + 1 \in 1..n /\ i + 1 \in 1..Len(e) /\ i + 1 \in 0..n
    BY <1>0, <1>2
  <2>2. f[i + 1] = f[i] + e[i + 1].bytes
    BY <1>0, <1>2, SumStep
  <2>3. g[i + 1] = g[i] + d[i + 1].bytes
    BY <2>1, SumStep
  <2>4. e[i + 1] \in Found /\ d[i + 1] = e[i + 1]
    BY <2>1 DEF Begins
  <2>5. e[i + 1].bytes \in Nat
    BY <2>4, CrawlAssumption DEF Found
  <2>6. QED
    BY <1>2, <2>1, <2>2, <2>3, <2>4, <2>5
<1>3. QED
  <2> HIDE DEF S
  <2>1. \A i \in 0..n : i \in S /\ i < n => i + 1 \in S
    BY <1>2
  <2>2. \A i \in 0..n : i \in S
    BY <1>0, <1>1, <2>1, UpTo
  <2>3. QED
    BY <2>2 DEF S

(* Any sums of the documents give the total.                               *)
LEMMA TotalIs ==
    ASSUME NEW e \in Seq(Found), NEW f, Sums(e, Len(e), f)
    PROVE  Total(e) = f[Len(e)] /\ Total(e) \in Nat
<1>1. PICK g : g = CHOOSE h : Sums(e, Len(e), h)
  OBVIOUS
<1>2. Sums(e, Len(e), g)
  BY <1>1
<1>3. Total(e) = g[Len(e)]
  BY <1>1 DEF Total, Sums
<1>4. Len(e) \in Nat /\ Len(e) \in 0..Len(e)
  OBVIOUS
<1>5. \A i \in 0..Len(e) : f[i] \in Nat /\ g[i] = f[i]
  <2>1. Begins(e, e, Len(e))
    BY DEF Begins
  <2>2. QED
    BY <1>2, <1>4, <2>1, SumsAgree
<1>6. QED
  BY <1>3, <1>4, <1>5

(* A document more adds its bytes.                                         *)
LEMMA TotalGrows ==
    ASSUME NEW e \in Seq(Found), NEW r \in Found
    PROVE  Total(e) \in Nat /\ Total(Append(e, r)) = Total(e) + r.bytes
<1>1. PICK d \in Seq(Found) : d = Append(e, r)
  <2>1. Append(e, r) \in Seq(Found)
    OBVIOUS
  <2>2. QED
    BY <2>1
<1>2. /\ Len(e) \in Nat /\ Len(d) = Len(e) + 1 /\ d[Len(e) + 1] = r
      /\ \A i \in 1..Len(e) : d[i] = e[i]
  BY <1>1
<1>3. PICK f : Sums(e, Len(e), f)
  BY <1>2, SumsExist
<1>4. Len(d) \in Nat
  BY <1>2
<1>5. PICK g : Sums(d, Len(d), g)
  BY <1>4, SumsExist
<1>6. g[Len(e)] = f[Len(e)]
  <2>1. Len(e) \in 0..Len(e) /\ Len(e) <= Len(d)
    BY <1>2
  <2>2. PICK n \in 0..Len(e) : n = Len(e) /\ n <= Len(d)
    BY <2>1
  <2>3. Begins(d, e, n) /\ Sums(e, n, f) /\ n \in 0..n
    BY <1>2, <1>3, <2>2 DEF Begins
  <2>4. \A i \in 0..n : f[i] \in Nat /\ g[i] = f[i]
    BY <1>4, <1>5, <2>2, <2>3, SumsAgree
  <2>5. QED
    BY <2>2, <2>3, <2>4
<1>7. g[Len(e) + 1] = g[Len(e)] + r.bytes
  <2>1. Len(e) \in 0..Len(d) /\ Len(e) < Len(d)
    BY <1>2
  <2>2. g[Len(e) + 1] = g[Len(e)] + d[Len(e) + 1].bytes
    BY <1>4, <1>5, <2>1, SumStep
  <2>3. QED
    BY <2>2, <1>2
<1>8. Total(e) = f[Len(e)] /\ Total(e) \in Nat
  BY <1>3, TotalIs
<1>9. Total(d) = g[Len(d)]
  BY <1>5, TotalIs
<1>10. QED
  BY <1>1, <1>2, <1>6, <1>7, <1>8, <1>9

(* The bytes of the property are that total.                               *)
LEMMA BytesAre == Crawl!Bytes = Total(fetched)
BY DEF Crawl!Bytes, Total

(* Bytes are numbers.                                                      *)
LEMMA TotalNat == ASSUME NEW e \in Seq(Found) PROVE Total(e) \in Nat
<1>1. Len(e) \in Nat
  OBVIOUS
<1>2. PICK f : Sums(e, Len(e), f)
  BY <1>1, SumsExist
<1>3. QED
  BY <1>2, TotalIs

(* No documents, no bytes.                                                 *)
LEMMA EmptyTotal == Total(<<>>) = 0
<1>1. PICK z \in Seq(Found) : z = <<>>
  <2>1. <<>> \in Seq(Found)
    OBVIOUS
  <2>2. QED
    BY <2>1
<1>2. Len(z) = 0
  BY <1>1
<1>3. PICK h : Sums(z, 0, h)
  BY SumsExist
<1>4. h[0] = 0
  BY <1>3, SumStep
<1>5. Total(z) = h[Len(z)]
  BY <1>2, <1>3, TotalIs
<1>6. QED
  BY <1>1, <1>2, <1>4, <1>5

-----------------------------------------------------------------------------
(* A crawl that has stopped, or goes back to its queue.                    *)
LEMMA IdleVisit ==
    ASSUME NEW a \in {"pop", "done"}
    PROVE  /\ [Crawl!Idle EXCEPT !.at = a] \in Visits
           /\ [Crawl!Idle EXCEPT !.at = a].at = a /\ [Crawl!Idle EXCEPT !.at = a].bytes = 0
           /\ Crawl!Idle \in Visits /\ Crawl!Idle.at = "pop" /\ Crawl!Idle.bytes = 0 /\ a \notin Fetching
<1>1. Crawl!Idle \in Visits /\ Crawl!Idle.at = "pop" /\ Crawl!Idle.bytes = 0
  <2>1. 0 \in 0..MaxDepth /\ 0 \in 0..MaxRedirects /\ 0 \in 0..MaxDocument /\ Start \in Pages
    BY CrawlAssumption
  <2>2. <<>> \in Seq(Pages)
    OBVIOUS
  <2>3. QED
    BY <2>1, <2>2 DEF Crawl!Idle, Visits
<1>2. PICK v : v = Crawl!Idle
  OBVIOUS
<1>3. v \in Visits /\ v.bytes = 0
  BY <1>1, <1>2
<1>4. [v EXCEPT !.at = a] \in Visits /\ [v EXCEPT !.at = a].at = a /\ [v EXCEPT !.at = a].bytes = 0
  BY <1>3 DEF Visits
<1>5. QED
  BY <1>1, <1>2, <1>4 DEF Fetching

(* The counts of the account stay.                                         *)
KeepsCounts ==
    /\ tracker'.pages = tracker.pages /\ tracker'.redirects = tracker.redirects
    /\ tracker'.bytes = tracker.bytes /\ tracker'.origins = tracker.origins

(* What reporting an issue does.                                           *)
LEMMA ReportIs ==
    ASSUME CrawlInv, NEW kind, Crawl!Report(kind)
    PROVE  /\ tracker' \in Accounts /\ KeepsCounts
           /\ issues \subseteq issues' /\ (kind \in Crawl!BudgetIssues => ~(Unlimited'))
           /\ Unlimited' => ~tracker'.stopped
<1>1. tracker \in Accounts /\ (Unlimited => ~tracker.stopped)
  BY DEF CrawlInv, CrawlShape, CrawlReports
<1>2. PICK b \in BOOLEAN : b = (tracker.stopped \/ kind \in Crawl!BudgetIssues)
  OBVIOUS
<1>3. tracker' = [tracker EXCEPT !.stopped = b]
  BY <1>1, <1>2 DEF Crawl!Report, Accounts
<1>4. tracker' \in Accounts /\ KeepsCounts /\ tracker'.stopped = b
  BY <1>1, <1>3 DEF Accounts, KeepsCounts
<1>5. issues' = issues \cup {kind}
  BY DEF Crawl!Report
<1>6. QED
  BY <1>1, <1>2, <1>4, <1>5 DEF Unlimited

(* The bytes depend on the documents alone.                                *)
LEMMA SameBytes == ASSUME UNCHANGED fetched PROVE Crawl!Bytes' = Crawl!Bytes
BY DEF Crawl!Bytes

(* The origins alone decide which pages are accepted.                      *)
LEMMA SameWelcome ==
    ASSUME UNCHANGED plan, tracker'.origins = tracker.origins
    PROVE  \A p : Welcome(p)' <=> Welcome(p)
BY DEF Welcome, Crawl!Accepts, Crawl!permits_origin, Crawl!explicitly_permits, Crawl!Relates,
       Crawl!Cardinality

(* A step that leaves the queue and the documents alone.                   *)
LEMMA VisitStep ==
    ASSUME CrawlInv, UNCHANGED <<plan, queue, seen, fetched, attempted>>, expired' \in BOOLEAN,
           tracker' \in Accounts, tracker'.origins = tracker.origins,
           doc' \in Visits, requested' \in Seq(Pages), CrawlPaid',
           doc'.at \in Fetching => Crawl!permits_origin(tracker, doc'.url),
           \A i \in DOMAIN requested' : Crawl!permits_origin(tracker, requested'[i]),
           Unlimited' => Unlimited /\ ~tracker'.stopped /\ (doc'.at = "done" => queue = <<>>)
    PROVE  CrawlInv'
<1> USE DEF CrawlInv
<1>1. CrawlShape'
  BY DEF CrawlShape, Crawl!Plans
<1>2. \A p : (Crawl!permits_origin(tracker, p))' <=> Crawl!permits_origin(tracker, p)
  BY DEF Crawl!permits_origin, Crawl!explicitly_permits
<1>3. CrawlScope'
  <2>1. \A site \in tracker'.origins : site \in plan'.origins \/ (plan'.public /\ site \in Related)
    BY DEF CrawlScope
  <2>2. \A i \in DOMAIN queue' : (Crawl!permits_origin(tracker, queue[i].url))'
    BY DEF CrawlScope, Crawl!permits_origin, Crawl!explicitly_permits
  <2>3. doc'.at \in Fetching => (Crawl!permits_origin(tracker, doc.url))'
    BY DEF Crawl!permits_origin, Crawl!explicitly_permits
  <2>4. \A i \in DOMAIN requested' : (Crawl!permits_origin(tracker, requested[i]))'
    BY DEF Crawl!permits_origin, Crawl!explicitly_permits
  <2>5. QED
    BY <2>1, <2>2, <2>3, <2>4 DEF CrawlScope
<1>4. CrawlQueue'
  BY DEF CrawlQueue, Crawl!QueueIsFresh
<1>5. CrawlReports'
  <2>1. \A p : Welcome(p)' <=> Welcome(p)
    BY SameWelcome
  <2>2. QED
    BY <2>1 DEF CrawlReports
<1>6. QED
  BY <1>1, <1>3, <1>4, <1>5

(* What is counted is a number.                                            *)
LEMMA CrawlNumbers ==
    ASSUME CrawlInv
    PROVE  /\ Crawl!Bytes \in Nat /\ doc.bytes \in Nat /\ Len(requested) \in Nat /\ Len(fetched) \in Nat
           /\ tracker.bytes \in Nat /\ tracker.bytes <= MaxTotal
           /\ tracker.pages \in Nat /\ tracker.pages <= MaxPages
           /\ tracker.redirects \in Nat /\ tracker.redirects <= MaxRedirects
           /\ doc.hops \in Nat /\ doc.depth \in Nat /\ doc.depth <= MaxDepth
           /\ MaxTotal \in Nat /\ MaxPages \in Nat /\ MaxRedirects \in Nat /\ MaxDocument \in Nat
           /\ MaxDepth \in Nat
<1>1. fetched \in Seq(Found) /\ requested \in Seq(Pages) /\ doc \in Visits /\ tracker \in Accounts
  BY DEF CrawlInv, CrawlShape
<1>2. Crawl!Bytes \in Nat
  BY <1>1, BytesAre, TotalNat
<1>3. /\ tracker.bytes \in 0..MaxTotal /\ tracker.pages \in 0..MaxPages /\ tracker.redirects \in 0..MaxRedirects
      /\ doc.hops \in 0..MaxRedirects /\ doc.depth \in 0..MaxDepth /\ doc.bytes \in 0..MaxDocument
      /\ Len(requested) \in Nat /\ Len(fetched) \in Nat
  BY <1>1 DEF Visits, Accounts
<1>4. /\ MaxTotal \in Nat /\ MaxPages \in Nat /\ MaxRedirects \in Nat /\ MaxDocument \in Nat
      /\ MaxDepth \in Nat
  BY CrawlAssumption
<1>5. QED
  BY <1>2, <1>3, <1>4

(* A chunk is added to the visit and to the account alike, and a visit     *)
(* that is given up owes nothing.                                          *)
LEMMA BytesPaid ==
    ASSUME CrawlInv, UNCHANGED fetched, tracker'.bytes \in Nat,
           \/ doc'.bytes = 0 /\ tracker.bytes <= tracker'.bytes
           \/ \E size \in Nat : doc'.bytes = doc.bytes + size /\ tracker'.bytes = tracker.bytes + size
    PROVE  Crawl!Bytes' + doc'.bytes <= tracker'.bytes
<1>1. PICK b : b = Crawl!Bytes
  OBVIOUS
<1>2. Crawl!Bytes' = b /\ b \in Nat /\ doc.bytes \in Nat /\ tracker.bytes \in Nat
  BY <1>1, SameBytes, CrawlNumbers
<1>3. b + doc.bytes <= tracker.bytes
  BY <1>1 DEF CrawlInv, CrawlPaid
<1>4. CASE doc'.bytes = 0 /\ tracker.bytes <= tracker'.bytes
  BY <1>2, <1>3, <1>4
<1>5. ASSUME NEW size \in Nat, doc'.bytes = doc.bytes + size /\ tracker'.bytes = tracker.bytes + size
      PROVE  Crawl!Bytes' + doc'.bytes <= tracker'.bytes
  BY <1>2, <1>3, <1>5
<1>6. QED
  BY <1>4, <1>5

(* The requests and the documents are paid for.                            *)
LEMMA PagesPaid ==
    ASSUME CrawlInv, UNCHANGED <<fetched, requested>>,
           tracker'.pages = tracker.pages, tracker'.redirects = tracker.redirects,
           doc'.at = doc.at \/ doc'.at \notin Fetching,
           Crawl!Bytes' + doc'.bytes <= tracker'.bytes
    PROVE  CrawlPaid'
<1>1. /\ Len(requested) \in Nat /\ Len(fetched) \in Nat /\ tracker.pages \in Nat /\ tracker.redirects \in Nat
      /\ Len(requested') = Len(requested) /\ Len(fetched') = Len(fetched)
  BY CrawlNumbers
<1>2. /\ Len(requested) + (IF doc.at = "connect" THEN 1 ELSE 0) <= tracker.pages + tracker.redirects
      /\ Len(fetched) + (IF doc.at \in Fetching THEN 1 ELSE 0) <= tracker.pages
  BY DEF CrawlInv, CrawlPaid
<1>3. Len(requested') + (IF doc'.at = "connect" THEN 1 ELSE 0) <= tracker'.pages + tracker'.redirects
  <2>1. doc'.at = "connect" => doc.at = "connect"
    BY DEF Fetching
  <2>2. QED
    BY <1>1, <1>2, <2>1
<1>4. Len(fetched') + (IF doc'.at \in Fetching THEN 1 ELSE 0) <= tracker'.pages
  <2>1. doc'.at \in Fetching => doc.at \in Fetching
    OBVIOUS
  <2>2. QED
    BY <1>1, <1>2, <2>1
<1>5. QED
  BY <1>3, <1>4 DEF CrawlPaid

(* An error of one document keeps the account.                             *)
LEMMA FailKeeps == ASSUME CrawlInv, NEW kind, Crawl!Fail(kind) PROVE CrawlInv'
<1>1. PICK a \in {"pop", "done"} : /\ doc' = [Crawl!Idle EXCEPT !.at = a]
                                   /\ (a = "done" => kind \in Crawl!BudgetIssues)
  BY DEF Crawl!Fail, Crawl!BudgetIssues
<1>2. /\ tracker' \in Accounts /\ KeepsCounts /\ issues \subseteq issues'
      /\ (kind \in Crawl!BudgetIssues => ~(Unlimited')) /\ (Unlimited' => ~tracker'.stopped)
  BY ReportIs DEF Crawl!Fail
<1>3. doc' \in Visits /\ doc'.at = a /\ doc'.bytes = 0 /\ doc'.at \notin Fetching
  BY <1>1, IdleVisit
<1>4. UNCHANGED <<plan, queue, seen, expired, fetched, attempted, requested>>
  BY DEF Crawl!Fail
<1>5. CrawlPaid'
  <2>1. tracker'.bytes \in Nat /\ tracker.bytes <= tracker'.bytes
    BY <1>2, CrawlNumbers DEF KeepsCounts
  <2>2. QED
    BY <1>2, <1>3, <1>4, <2>1, BytesPaid, PagesPaid DEF KeepsCounts
<1>6. QED
  <2>1. Unlimited' => Unlimited
    BY <1>2 DEF Unlimited, Crawl!BudgetIssues
  <2>2. QED
    BY <1>1, <1>2, <1>3, <1>4, <1>5, <2>1, VisitStep DEF KeepsCounts, CrawlInv, CrawlShape, CrawlScope

(* The visit goes on within its budget: only it, the account or the        *)
(* requests change.                                                        *)
LEMMA GoesOn ==
    ASSUME CrawlInv, UNCHANGED <<plan, queue, seen, expired, fetched, issues, attempted>>,
           tracker' \in Accounts, tracker'.origins = tracker.origins, tracker'.stopped = tracker.stopped,
           doc' \in Visits, doc'.at \in Fetching, Crawl!permits_origin(tracker, doc'.url),
           requested' \in Seq(Pages),
           \A i \in DOMAIN requested' : Crawl!permits_origin(tracker, requested'[i]), CrawlPaid'
    PROVE  CrawlInv'
<1>1. Unlimited' => Unlimited /\ ~tracker'.stopped
  BY DEF Unlimited, Crawl!BudgetIssues, CrawlInv, CrawlReports
<1>2. doc'.at # "done" /\ expired' \in BOOLEAN
  BY DEF Fetching, CrawlInv, CrawlShape
<1>3. QED
  BY <1>1, <1>2, VisitStep

(* The request goes out for a page that was permitted and paid for.        *)
LEMMA ConnectKeeps == ASSUME CrawlInv, Crawl!Connect PROVE CrawlInv'
<1>1. SUFFICES ASSUME doc.at = "connect", doc' = [doc EXCEPT !.at = "answer"],
                      requested' = Append(requested, doc.url),
                      UNCHANGED <<plan, queue, seen, tracker, expired, fetched, issues, attempted>>
               PROVE  CrawlInv'
  BY FailKeeps DEF Crawl!Connect
<1>2. doc \in Visits /\ requested \in Seq(Pages) /\ tracker \in Accounts
  BY DEF CrawlInv, CrawlShape
<1>3. doc' \in Visits /\ doc'.at = "answer" /\ doc'.url = doc.url /\ doc'.bytes = doc.bytes /\ doc.url \in Pages
  BY <1>1, <1>2 DEF Visits, Fetching
<1>4. /\ requested' \in Seq(Pages) /\ Len(requested') = Len(requested) + 1
      /\ \A i \in DOMAIN requested' : \/ i \in DOMAIN requested /\ requested'[i] = requested[i]
                                      \/ requested'[i] = doc.url
  BY <1>1, <1>2, <1>3
<1>5. Crawl!permits_origin(tracker, doc.url) /\ \A i \in DOMAIN requested : Crawl!permits_origin(tracker, requested[i])
  BY <1>1 DEF CrawlInv, CrawlScope, Fetching
<1>6. CrawlPaid'
  <2>1. Crawl!Bytes' = Crawl!Bytes
    BY <1>1, SameBytes
  <2>2. QED
    BY <1>1, <1>3, <1>4, <2>1, CrawlNumbers DEF CrawlInv, CrawlPaid, Fetching
<1>7. doc'.at \in Fetching /\ Crawl!permits_origin(tracker, doc'.url)
  BY <1>3, <1>5 DEF Fetching
<1>8. \A i \in DOMAIN requested' : Crawl!permits_origin(tracker, requested'[i])
  BY <1>4, <1>5
<1>9. QED
  BY <1>1, <1>2, <1>3, <1>4, <1>6, <1>7, <1>8, GoesOn

(* A redirect is paid for from the budget of the whole crawl.              *)
LEMMA RedirectKeeps == ASSUME CrawlInv, NEW target \in Pages, Crawl!Redirect(target) PROVE CrawlInv'
<1>1. SUFFICES ASSUME doc.at = "answer", ~(doc.hops >= MaxRedirects), ~(tracker.redirects >= MaxRedirects),
                      Crawl!permits_origin(tracker, target),
                      tracker' = [tracker EXCEPT !.redirects = @ + 1],
                      doc' = [doc EXCEPT !.at = "connect", !.url = target, !.hops = @ + 1],
                      UNCHANGED <<plan, queue, seen, expired, fetched, issues, attempted, requested>>
               PROVE  CrawlInv'
  BY FailKeeps DEF Crawl!Redirect
<1>2. doc \in Visits /\ requested \in Seq(Pages) /\ tracker \in Accounts
  BY DEF CrawlInv, CrawlShape
<1>3. doc.hops + 1 \in 0..MaxRedirects /\ tracker.redirects + 1 \in 0..MaxRedirects
  <2>1. doc.hops \in Nat /\ tracker.redirects \in Nat /\ MaxRedirects \in Nat
    BY CrawlNumbers
  <2>2. ~(doc.hops >= MaxRedirects) /\ ~(tracker.redirects >= MaxRedirects)
    BY <1>1
  <2>3. QED
    BY ONLY <2>1, <2>2
<1>4. doc' \in Visits /\ doc'.at = "connect" /\ doc'.url = target /\ doc'.bytes = doc.bytes
  BY <1>1, <1>2, <1>3 DEF Visits, Fetching
<1>5. /\ tracker' \in Accounts /\ tracker'.redirects = tracker.redirects + 1 /\ tracker'.pages = tracker.pages
      /\ tracker'.bytes = tracker.bytes /\ tracker'.origins = tracker.origins
      /\ tracker'.stopped = tracker.stopped
  BY <1>1, <1>2, <1>3 DEF Accounts
<1>6. CrawlPaid'
  <2>1. Crawl!Bytes' = Crawl!Bytes
    BY <1>1, SameBytes
  <2>2. /\ Len(requested) <= tracker.pages + tracker.redirects /\ Len(fetched) + 1 <= tracker.pages
        /\ Crawl!Bytes + doc.bytes <= tracker.bytes
    <3>1. doc.at = "answer" /\ doc.at \in Fetching
      BY <1>1 DEF Fetching
    <3>2. /\ Len(requested) + 0 <= tracker.pages + tracker.redirects /\ Len(fetched) + 1 <= tracker.pages
          /\ Crawl!Bytes + doc.bytes <= tracker.bytes
      BY <3>1 DEF CrawlInv, CrawlPaid
    <3>3. QED
      BY <3>2, CrawlNumbers
  <2>3. /\ Len(requested) \in Nat /\ tracker.pages \in Nat /\ tracker.redirects \in Nat
    BY CrawlNumbers
  <2>4. Len(requested) + 1 <= tracker.pages + (tracker.redirects + 1)
    BY ONLY <2>2, <2>3
  <2>5. requested' = requested /\ fetched' = fetched /\ doc'.at \in Fetching
    BY <1>1, <1>4 DEF Fetching
  <2>6. QED
    BY <1>4, <1>5, <2>1, <2>2, <2>4, <2>5 DEF CrawlPaid
<1>7. doc'.at \in Fetching /\ Crawl!permits_origin(tracker, doc'.url)
  BY <1>1, <1>4 DEF Fetching
<1>8. \A i \in DOMAIN requested' : Crawl!permits_origin(tracker, requested'[i])
  BY <1>1 DEF CrawlInv, CrawlScope
<1>9. QED
  BY <1>1, <1>2, <1>4, <1>5, <1>6, <1>7, <1>8, GoesOn

(* An answer is read, and its end reached: nothing is charged.             *)
LEMMA SuccessKeeps ==
    ASSUME CrawlInv, \/ Crawl!Success
                     \/ \E links \in LinkLists : Crawl!EndOfBody(links)
    PROVE  CrawlInv'
<1>1. SUFFICES ASSUME NEW a \in {"body", "process"}, NEW r \in {0, 1}, NEW links \in Seq(Pages),
                      doc.at \in {"answer", "body"},
                      doc' = [doc EXCEPT !.at = a, !.round = r, !.links = links],
                      UNCHANGED <<plan, queue, seen, tracker, expired, fetched, issues, attempted, requested>>
               PROVE  CrawlInv'
  <2>1. CASE Crawl!Success
    <3>1. SUFFICES ASSUME doc.at = "answer", doc' = [doc EXCEPT !.at = "body"],
                          UNCHANGED <<plan, queue, seen, tracker, expired, fetched, issues, attempted, requested>>
                   PROVE  CrawlInv'
      BY <2>1, FailKeeps DEF Crawl!Success
    <3>2. doc \in Visits
      BY DEF CrawlInv, CrawlShape
    <3>3. doc' = [doc EXCEPT !.at = "body", !.round = doc.round, !.links = doc.links]
          /\ doc.round \in {0, 1} /\ doc.links \in Seq(Pages)
      BY <3>1, <3>2 DEF Visits
    <3>4. QED
      BY <1>1, <3>1, <3>3
  <2>2. ASSUME NEW links \in LinkLists, Crawl!EndOfBody(links) PROVE CrawlInv'
    <3>1. SUFFICES ASSUME doc.at = "body", doc' = [doc EXCEPT !.at = "process", !.round = 0, !.links = links],
                          UNCHANGED <<plan, queue, seen, tracker, expired, fetched, issues, attempted, requested>>
                   PROVE  CrawlInv'
      BY <2>2, FailKeeps DEF Crawl!EndOfBody
    <3>2. links \in Seq(Pages)
      BY CrawlAssumption
    <3>3. QED
      BY <1>1, <3>1, <3>2
  <2>3. QED
    BY <2>1, <2>2
<1>2. doc \in Visits /\ requested \in Seq(Pages) /\ tracker \in Accounts
  BY DEF CrawlInv, CrawlShape
<1>3. doc' \in Visits /\ doc'.at = a /\ doc'.url = doc.url /\ doc'.bytes = doc.bytes
  BY <1>1, <1>2 DEF Visits, Fetching
<1>4. CrawlPaid'
  <2>1. Crawl!Bytes' = Crawl!Bytes
    BY <1>1, SameBytes
  <2>2. QED
    BY <1>1, <1>3, <2>1, CrawlNumbers DEF CrawlInv, CrawlPaid, Fetching
<1>5. doc'.at \in Fetching /\ Crawl!permits_origin(tracker, doc'.url)
  BY <1>1, <1>3 DEF Fetching, CrawlInv, CrawlScope
<1>6. \A i \in DOMAIN requested' : Crawl!permits_origin(tracker, requested'[i])
  BY <1>1 DEF CrawlInv, CrawlScope
<1>7. QED
  BY <1>1, <1>2, <1>3, <1>4, <1>5, <1>6, GoesOn

(* A chunk is charged to the document and to the crawl, or ends it.        *)
LEMMA ChunkKeeps == ASSUME CrawlInv, NEW size \in Nat, Crawl!Chunk(size) PROVE CrawlInv'
<1>1. doc \in Visits /\ requested \in Seq(Pages) /\ tracker \in Accounts /\ doc.at = "body"
  BY DEF CrawlInv, CrawlShape, Crawl!Chunk
<1>2. CASE /\ tracker.bytes + size > MaxTotal /\ issues' = issues \cup {"total_bytes"}
           /\ tracker' = [tracker EXCEPT !.bytes = MaxTotal, !.stopped = TRUE]
           /\ doc' = [Crawl!Idle EXCEPT !.at = "done"]
           /\ UNCHANGED <<plan, queue, seen, expired, fetched, attempted, requested>>
  <2>1. doc' \in Visits /\ doc'.at = "done" /\ doc'.bytes = 0 /\ doc'.at \notin Fetching
    BY <1>2, IdleVisit
  <2>2. /\ tracker' \in Accounts /\ tracker'.redirects = tracker.redirects /\ tracker'.pages = tracker.pages
        /\ tracker'.bytes = MaxTotal /\ tracker'.origins = tracker.origins
    <3>1. MaxTotal \in 0..MaxTotal
      BY CrawlAssumption
    <3>2. QED
      BY <1>1, <1>2, <3>1 DEF Accounts
  <2>3. ~(Unlimited')
    BY <1>2 DEF Unlimited, Crawl!BudgetIssues
  <2>4. CrawlPaid'
    <3>1. tracker'.bytes \in Nat /\ tracker.bytes <= tracker'.bytes
      BY <2>2, CrawlNumbers
    <3>2. QED
      BY <1>2, <2>1, <2>2, <3>1, BytesPaid, PagesPaid
  <2>5. (\A i \in DOMAIN requested' : Crawl!permits_origin(tracker, requested'[i])) /\ expired' \in BOOLEAN
    BY <1>2 DEF CrawlInv, CrawlScope, CrawlShape
  <2>6. QED
    BY <1>1, <1>2, <2>1, <2>2, <2>3, <2>4, <2>5, VisitStep
<1>3. CASE /\ ~(doc.bytes + size > MaxDocument) /\ ~(tracker.bytes + size > MaxTotal)
           /\ doc' = [doc EXCEPT !.bytes = @ + size, !.round = 1 - @]
           /\ tracker' = [tracker EXCEPT !.bytes = @ + size]
           /\ UNCHANGED <<plan, queue, seen, expired, fetched, issues, attempted, requested>>
  <2>1. doc.bytes + size \in 0..MaxDocument /\ tracker.bytes + size \in 0..MaxTotal
    <3>1. /\ doc.bytes \in Nat /\ tracker.bytes \in Nat /\ MaxDocument \in Nat /\ MaxTotal \in Nat
          /\ size \in Nat
      BY CrawlNumbers
    <3>2. ~(doc.bytes + size > MaxDocument) /\ ~(tracker.bytes + size > MaxTotal)
      BY <1>3
    <3>3. QED
      BY ONLY <3>1, <3>2
  <2>2. 1 - doc.round \in {0, 1}
    <3>1. doc.round \in {0, 1}
      BY <1>1 DEF Visits
    <3>2. QED
      BY <3>1
  <2>3. doc' \in Visits /\ doc'.at = "body" /\ doc'.url = doc.url /\ doc'.bytes = doc.bytes + size
    BY <1>1, <1>3, <2>1, <2>2 DEF Visits
  <2>4. /\ tracker' \in Accounts /\ tracker'.redirects = tracker.redirects /\ tracker'.pages = tracker.pages
        /\ tracker'.bytes = tracker.bytes + size /\ tracker'.origins = tracker.origins
        /\ tracker'.stopped = tracker.stopped
    BY <1>1, <1>3, <2>1 DEF Accounts
  <2>5. CrawlPaid'
    <3>1. tracker'.bytes \in Nat
      BY <2>4, CrawlNumbers
    <3>2. QED
      BY <1>1, <1>3, <2>3, <2>4, <3>1, BytesPaid, PagesPaid
  <2>6. doc'.at \in Fetching /\ Crawl!permits_origin(tracker, doc'.url)
    BY <1>1, <2>3 DEF Fetching, CrawlInv, CrawlScope
  <2>7. \A i \in DOMAIN requested' : Crawl!permits_origin(tracker, requested'[i])
    BY <1>3 DEF CrawlInv, CrawlScope
  <2>8. QED
    BY <1>1, <1>3, <2>3, <2>4, <2>5, <2>6, <2>7, GoesOn
<1>4. QED
  BY <1>2, <1>3, FailKeeps DEF Crawl!Chunk

(* The deadline passes.                                                    *)
LEMMA TimeKeeps == ASSUME CrawlInv, Crawl!TimePasses PROVE CrawlInv'
<1>1. /\ expired' \in BOOLEAN
      /\ UNCHANGED <<plan, queue, seen, tracker, doc, fetched, issues, attempted, requested>>
  BY DEF Crawl!TimePasses
<1>2. CrawlPaid'
  BY <1>1, SameBytes DEF CrawlInv, CrawlPaid
<1>3. Unlimited' <=> Unlimited
  BY <1>1 DEF Unlimited, Crawl!BudgetIssues
<1>4. QED
  BY <1>1, <1>2, <1>3, VisitStep DEF CrawlInv, CrawlShape, CrawlScope, CrawlReports

-----------------------------------------------------------------------------
(* The rest of the queue.                                                  *)
LEMMA QueueShrinks ==
    ASSUME CrawlInv, queue # <<>>, queue' = Tail(queue), UNCHANGED <<plan, seen>>,
           attempted' \subseteq attempted \cup {Head(queue).url}
    PROVE  /\ queue' \in Seq(Queued) /\ Head(queue) \in Queued /\ Head(queue).url \in seen
           /\ Crawl!permits_origin(tracker, Head(queue).url)
           /\ \A i \in DOMAIN queue' : Crawl!permits_origin(tracker, queue'[i].url)
           /\ \A i \in DOMAIN queue : queue[i] = Head(queue) \/ \E j \in DOMAIN queue' : queue'[j] = queue[i]
           /\ CrawlQueue'
<1>1. queue \in Seq(Queued)
  BY DEF CrawlInv, CrawlShape
<1>2. PICK q \in Seq(Queued) : q = queue' /\ q = Tail(queue)
  BY <1>1
<1>3. /\ DOMAIN queue = 1..Len(queue) /\ Len(queue) \in Nat /\ 1 \in DOMAIN queue /\ Head(queue) = queue[1]
      /\ Len(q) = Len(queue) - 1 /\ DOMAIN q = 1..(Len(queue) - 1)
      /\ \A i \in 1..(Len(queue) - 1) : q[i] = queue[i + 1]
  BY <1>1, <1>2
<1>4. \A i \in DOMAIN q : i \in Nat /\ i + 1 \in DOMAIN queue /\ i + 1 # 1 /\ q[i] = queue[i + 1]
  BY <1>3
<1>5. ASSUME NEW i \in DOMAIN queue PROVE queue[i] = Head(queue) \/ \E j \in DOMAIN q : q[j] = queue[i]
  <2>1. CASE i = 1
    BY <2>1, <1>3
  <2>2. CASE i # 1
    <3>1. i - 1 \in DOMAIN q /\ (i - 1) + 1 = i
      BY <2>2, <1>3
    <3>2. q[i - 1] = queue[i]
      BY <3>1, <1>4
    <3>3. QED
      BY <3>1, <3>2
  <2>3. QED
    BY <2>1, <2>2
<1>6. Crawl!QueueIsFresh /\ \A i \in DOMAIN queue : queue[i].url \in seen /\ Crawl!permits_origin(tracker, queue[i].url)
  BY DEF CrawlInv, CrawlQueue, CrawlScope
<1>7. CrawlQueue'
  <2>1. ASSUME NEW i \in DOMAIN q PROVE q[i].url \notin attempted' /\ q[i].url \in seen'
    <3>1. queue[i + 1].url \notin attempted /\ queue[i + 1].url # queue[1].url
      BY <1>3, <1>4, <1>6 DEF Crawl!QueueIsFresh
    <3>2. QED
      BY <3>1, <1>3, <1>4, <1>6
  <2>2. ASSUME NEW i \in DOMAIN q, NEW j \in DOMAIN q, q[j].url = q[i].url PROVE i = j
    <3>1. i + 1 = j + 1
      BY <2>2, <1>4, <1>6 DEF Crawl!QueueIsFresh
    <3>2. QED
      BY <3>1, <1>4
  <2>3. QED
    BY <1>2, <2>1, <2>2 DEF CrawlQueue, Crawl!QueueIsFresh
<1>8. Head(queue) \in Queued
  BY <1>1, <1>3
<1>9. QED
  BY <1>2, <1>3, <1>4, <1>5, <1>6, <1>7, <1>8

(* Once a budget issue is reported, the rest of the queue is dropped.      *)
LEMMA PopGivesUp ==
    ASSUME CrawlInv, UNCHANGED <<plan, seen, expired, fetched, requested, attempted>>,
           queue # <<>>, queue' = Tail(queue), doc' \in Visits, doc'.at \notin Fetching,
           tracker' \in Accounts, tracker'.origins = tracker.origins, ~(Unlimited'), CrawlPaid'
    PROVE  CrawlInv'
<1>1. /\ queue' \in Seq(Queued) /\ CrawlQueue'
      /\ \A i \in DOMAIN queue' : Crawl!permits_origin(tracker, queue'[i].url)
  BY QueueShrinks
<1>2. CrawlShape'
  BY <1>1 DEF CrawlInv, CrawlShape, Crawl!Plans
<1>3. CrawlScope'
  <2>1. \A i \in DOMAIN queue' : (Crawl!permits_origin(tracker, queue[i].url))'
    BY <1>1 DEF Crawl!permits_origin, Crawl!explicitly_permits
  <2>2. QED
    BY <2>1 DEF CrawlInv, CrawlScope, Crawl!permits_origin, Crawl!explicitly_permits
<1>4. CrawlReports'
  <2>1. \A p : Welcome(p)' <=> Welcome(p)
    BY SameWelcome
  <2>2. QED
    BY <2>1 DEF CrawlInv, CrawlReports
<1>5. QED
  BY <1>1, <1>2, <1>3, <1>4 DEF CrawlInv

(* The page that is taken is paid for.                                     *)
LEMMA PopTakes ==
    ASSUME CrawlInv, UNCHANGED <<plan, seen, expired, fetched, requested, issues>>, doc.at = "pop",
           queue # <<>>, queue' = Tail(queue), tracker.pages < MaxPages,
           tracker' = [tracker EXCEPT !.pages = @ + 1],
           doc' = [Crawl!Idle EXCEPT !.at = "connect", !.url = Head(queue).url, !.depth = Head(queue).depth],
           attempted' = attempted \cup {Head(queue).url}
    PROVE  CrawlInv'
<1>1. tracker \in Accounts
  BY DEF CrawlInv, CrawlShape
<1>2. /\ tracker' \in Accounts /\ tracker'.pages = tracker.pages + 1 /\ tracker'.redirects = tracker.redirects
      /\ tracker'.bytes = tracker.bytes /\ tracker'.origins = tracker.origins
      /\ tracker'.stopped = tracker.stopped
  <2>1. tracker.pages + 1 \in 0..MaxPages
    BY CrawlNumbers
  <2>2. QED
    BY <1>1, <2>1 DEF Accounts
<1>3. /\ queue' \in Seq(Queued) /\ Head(queue) \in Queued /\ Head(queue).url \in seen
      /\ Crawl!permits_origin(tracker, Head(queue).url)
      /\ \A i \in DOMAIN queue' : Crawl!permits_origin(tracker, queue'[i].url)
      /\ \A i \in DOMAIN queue : queue[i] = Head(queue) \/ \E j \in DOMAIN queue' : queue'[j] = queue[i]
      /\ CrawlQueue'
  BY QueueShrinks
<1>4. doc' \in Visits /\ doc'.at = "connect" /\ doc'.url = Head(queue).url /\ doc'.bytes = 0
  <2>1. PICK v \in Visits : v = Crawl!Idle /\ v.bytes = 0
    BY IdleVisit
  <2>2. Head(queue).url \in Pages /\ Head(queue).depth \in 0..MaxDepth
    BY <1>3 DEF Queued
  <2>3. QED
    BY <2>1, <2>2 DEF Visits, Fetching
<1>5. CrawlShape'
  <2>1. attempted' \subseteq seen'
    BY <1>3 DEF CrawlInv, CrawlShape
  <2>2. QED
    BY <1>2, <1>3, <1>4, <2>1 DEF CrawlInv, CrawlShape, Crawl!Plans
<1>6. CrawlPaid'
  <2>1. tracker'.bytes \in Nat /\ tracker.bytes <= tracker'.bytes
    BY <1>2, CrawlNumbers
  <2>2. Crawl!Bytes' + doc'.bytes <= tracker'.bytes
    BY <1>4, <2>1, BytesPaid
  <2>3. /\ Len(requested) \in Nat /\ Len(fetched) \in Nat /\ tracker.pages \in Nat /\ tracker.redirects \in Nat
    BY CrawlNumbers
  <2>4. Len(requested) <= tracker.pages + tracker.redirects /\ Len(fetched) <= tracker.pages
    BY <2>3 DEF CrawlInv, CrawlPaid, Fetching
  <2>5. QED
    BY <1>2, <1>4, <2>2, <2>3, <2>4 DEF CrawlPaid
<1>7. CrawlScope'
  <2>1. \A i \in DOMAIN queue' : (Crawl!permits_origin(tracker, queue[i].url))'
    BY <1>2, <1>3 DEF Crawl!permits_origin, Crawl!explicitly_permits
  <2>2. (Crawl!permits_origin(tracker, doc.url))'
    BY <1>2, <1>3, <1>4 DEF Crawl!permits_origin, Crawl!explicitly_permits
  <2>3. QED
    BY <1>2, <2>1, <2>2 DEF CrawlInv, CrawlScope, Crawl!permits_origin, Crawl!explicitly_permits
<1>8. CrawlReports'
  <2>1. Unlimited' <=> Unlimited
    BY DEF Unlimited, Crawl!BudgetIssues
  <2>2. ASSUME Unlimited, NEW page \in seen
        PROVE  page \in attempted' \/ \E i \in DOMAIN queue' : queue'[i].url = page
    <3>1. page \in attempted \/ \E i \in DOMAIN queue : queue[i].url = page
      BY <2>2 DEF CrawlInv, CrawlReports
    <3>2. QED
      BY <3>1, <1>3
  <2>3. \A p : Welcome(p)' <=> Welcome(p)
    BY <1>2, SameWelcome
  <2>4. QED
    BY <1>2, <1>4, <2>1, <2>2, <2>3 DEF CrawlInv, CrawlReports
<1>9. QED
  BY <1>3, <1>5, <1>6, <1>7, <1>8 DEF CrawlInv

(* Taking the next page, or giving up on the queue.                        *)
LEMMA PopKeeps == ASSUME CrawlInv, Crawl!Pop PROVE CrawlInv'
<1>0. /\ UNCHANGED <<plan, seen, expired, fetched, requested>> /\ doc.at = "pop"
      /\ doc \in Visits /\ tracker \in Accounts
  BY DEF Crawl!Pop, CrawlInv, CrawlShape
<1>1. CASE /\ queue = <<>> /\ doc' = [Crawl!Idle EXCEPT !.at = "done"]
           /\ UNCHANGED <<queue, tracker, issues, attempted>>
  <2>1. doc' \in Visits /\ doc'.at = "done" /\ doc'.bytes = 0 /\ doc'.at \notin Fetching
    BY <1>1, IdleVisit
  <2>2. CrawlPaid'
    <3>1. tracker'.bytes \in Nat /\ tracker.bytes <= tracker'.bytes
      BY <1>1, CrawlNumbers
    <3>2. QED
      BY <1>0, <1>1, <2>1, <3>1, BytesPaid, PagesPaid
  <2>3. Unlimited' => Unlimited /\ ~tracker'.stopped
    BY <1>1 DEF Unlimited, Crawl!BudgetIssues, CrawlInv, CrawlReports
  <2>4. QED
    BY <1>0, <1>1, <2>1, <2>2, <2>3, VisitStep DEF CrawlInv, CrawlShape, CrawlScope
<1>2. ASSUME NEW kind \in Crawl!BudgetIssues, queue # <<>>, queue' = Tail(queue), Crawl!Finish(kind),
             UNCHANGED attempted
      PROVE  CrawlInv'
  <2>1. doc' \in Visits /\ doc'.at = "done" /\ doc'.bytes = 0 /\ doc'.at \notin Fetching
    BY <1>2, IdleVisit DEF Crawl!Finish
  <2>2. tracker' \in Accounts /\ KeepsCounts /\ ~(Unlimited')
    BY <1>2, ReportIs DEF Crawl!Finish
  <2>3. CrawlPaid'
    <3>1. tracker'.bytes \in Nat /\ tracker.bytes <= tracker'.bytes
      BY <2>2, CrawlNumbers DEF KeepsCounts
    <3>2. QED
      BY <1>0, <2>1, <2>2, <3>1, BytesPaid, PagesPaid DEF KeepsCounts
  <2>4. QED
    BY <1>0, <1>2, <2>1, <2>2, <2>3, PopGivesUp DEF KeepsCounts
<1>3. CASE /\ queue # <<>> /\ queue' = Tail(queue) /\ tracker.pages < MaxPages
           /\ tracker' = [tracker EXCEPT !.pages = @ + 1]
           /\ doc' = [Crawl!Idle EXCEPT !.at = "connect", !.url = Head(queue).url,
                                        !.depth = Head(queue).depth]
           /\ attempted' = attempted \cup {Head(queue).url} /\ UNCHANGED issues
  BY <1>0, <1>3, PopTakes
<1>4. QED
  BY <1>1, <1>2, <1>3 DEF Crawl!Pop, Crawl!BudgetIssues

-----------------------------------------------------------------------------
(* New entries in front of a queue.                                        *)
Joins(r, taken, q) ==
    /\ r \in Seq(Queued) /\ Len(taken) \in Nat
    /\ \A i \in DOMAIN r : \/ i \in DOMAIN taken /\ r[i].url = taken[i]
                           \/ /\ i \notin DOMAIN taken /\ i \in Nat
                              /\ i - Len(taken) \in DOMAIN q /\ r[i] = q[i - Len(taken)]
    /\ \A j \in DOMAIN taken : j \in DOMAIN r /\ r[j].url = taken[j]
    /\ \A j \in DOMAIN q : \E i \in DOMAIN r : r[i] = q[j]

(* What is in the queue after entries are put in front of it.              *)
LEMMA QueueJoined ==
    ASSUME NEW taken \in Seq(Pages), NEW depth, taken # <<>> => depth \in 0..MaxDepth, NEW q \in Seq(Queued)
    PROVE  /\ Crawl!Entries(taken, depth) \in Seq(Queued)
           /\ Joins(Crawl!Entries(taken, depth) \o q, taken, q)
<1>1. PICK e : e = Crawl!Entries(taken, depth)
  OBVIOUS
<1>2. e = [i \in DOMAIN taken |-> [url |-> taken[i], depth |-> depth]]
  BY <1>1 DEF Crawl!Entries
<1>3. DOMAIN taken = 1..Len(taken) /\ Len(taken) \in Nat /\ \A i \in DOMAIN taken : taken[i] \in Pages
  OBVIOUS
<1>4. \A i \in DOMAIN taken : e[i] \in Queued /\ e[i].url = taken[i]
  <2>1. SUFFICES ASSUME NEW i \in DOMAIN taken PROVE e[i] \in Queued /\ e[i].url = taken[i]
    OBVIOUS
  <2>2. taken # <<>>
    OBVIOUS
  <2>3. QED
    BY <1>2, <1>3, <2>2 DEF Queued
<1>5. e \in Seq(Queued) /\ Len(e) = Len(taken)
  BY <1>2, <1>3, <1>4
<1>0. PICK r : r = e \o q
  OBVIOUS
<1>6. /\ r \in Seq(Queued) /\ DOMAIN r = 1..(Len(e) + Len(q)) /\ Len(q) \in Nat /\ DOMAIN q = 1..Len(q)
      /\ \A i \in 1..(Len(e) + Len(q)) : r[i] = IF i <= Len(e) THEN e[i] ELSE q[i - Len(e)]
  <2>1. e \o q \in Seq(Queued) /\ Len(e \o q) = Len(e) + Len(q)
    BY <1>5
  <2>2. DOMAIN (e \o q) = 1..(Len(e) + Len(q)) /\ Len(q) \in Nat /\ DOMAIN q = 1..Len(q)
    BY <2>1
  <2>3. \A i \in 1..(Len(e) + Len(q)) : (e \o q)[i] = IF i <= Len(e) THEN e[i] ELSE q[i - Len(e)]
    BY <1>5
  <2>4. QED
    BY <1>0, <2>1, <2>2, <2>3
<1>7. ASSUME NEW i \in DOMAIN r
      PROVE  \/ i \in DOMAIN taken /\ r[i].url = taken[i]
             \/ /\ i \notin DOMAIN taken /\ i \in Nat
                /\ i - Len(taken) \in DOMAIN q /\ r[i] = q[i - Len(taken)]
  <2>1. CASE i <= Len(e)
    <3>1. i \in DOMAIN taken
      BY <2>1, <1>3, <1>5, <1>6
    <3>2. QED
      BY <2>1, <3>1, <1>4, <1>6
  <2>2. CASE ~(i <= Len(e))
    <3>1. i \notin DOMAIN taken /\ i \in Nat /\ i - Len(taken) \in DOMAIN q
      BY <2>2, <1>3, <1>5, <1>6
    <3>2. QED
      BY <2>2, <3>1, <1>5, <1>6
  <2>3. QED
    BY <2>1, <2>2
<1>8. ASSUME NEW j \in DOMAIN taken PROVE j \in DOMAIN r /\ r[j].url = taken[j]
  <2>1. j \in DOMAIN r /\ j <= Len(e)
    BY <1>3, <1>5, <1>6
  <2>2. QED
    BY <2>1, <1>4, <1>6
<1>9. ASSUME NEW j \in DOMAIN q PROVE \E i \in DOMAIN r : r[i] = q[j]
  <2>1. j + Len(e) \in DOMAIN r /\ ~(j + Len(e) <= Len(e)) /\ (j + Len(e)) - Len(e) = j
    BY <1>3, <1>5, <1>6
  <2>2. r[j + Len(e)] = q[j]
    BY <2>1, <1>6
  <2>3. QED
    BY <2>1, <2>2
<1>10. Joins(r, taken, q)
  BY <1>3, <1>6, <1>7, <1>8, <1>9 DEF Joins
<1>11. QED
  BY <1>0, <1>1, <1>5, <1>10

(* What is reserved goes to the front of the queue.                        *)
Enqueued(x) ==
    /\ queue' \in Seq(Queued) /\ CrawlQueue'
    /\ tracker.origins \subseteq tracker'.origins /\ seen \subseteq seen' /\ seen' \subseteq Pages
    /\ \A p : Crawl!permits_origin(tracker, p) => (Crawl!permits_origin(tracker, p))'
    /\ \A i \in DOMAIN queue' : (Crawl!permits_origin(tracker, queue[i].url))'
    /\ \A i \in DOMAIN queue : \E j \in DOMAIN queue' : queue'[j] = queue[i]
    /\ \A i \in DOMAIN x.taken : \E j \in DOMAIN queue' : queue'[j].url = x.taken[i]

(* Putting what was reserved in front of the queue keeps it fresh.         *)
LEMMA EnqueueKeeps ==
    ASSUME CrawlInv, NEW b, NEW x, NEW pages, NEW n, NEW depth, Reserved(b, x, pages, n, depth),
           b.seen = seen, b.tracker = tracker, depth \in Nat,
           UNCHANGED <<plan, attempted>>, seen' = x.seen, tracker' = x.tracker,
           queue' = Crawl!Entries(x.taken, depth) \o queue
    PROVE  Enqueued(x)
<1>1. /\ queue \in Seq(Queued) /\ Crawl!QueueIsFresh /\ attempted \subseteq seen
      /\ \A i \in DOMAIN queue : queue[i].url \in seen /\ Crawl!permits_origin(tracker, queue[i].url)
  BY DEF CrawlInv, CrawlShape, CrawlQueue, CrawlScope
<1>2. /\ Taken(b, x) /\ (x.taken # <<>> => depth <= MaxDepth) /\ b.seen \subseteq x.seen /\ x.seen \subseteq Pages
      /\ b.tracker.origins \subseteq x.tracker.origins
  BY DEF Reserved
<1>3. PICK taken \in Seq(Pages) : taken = x.taken
  BY <1>2 DEF Taken
<1>4. taken # <<>> => depth \in 0..MaxDepth
  BY <1>2, <1>3, CrawlAssumption
<1>5. /\ queue' \in Seq(Queued) /\ Len(taken) \in Nat
      /\ \A i \in DOMAIN queue' :
            \/ i \in DOMAIN taken /\ queue'[i].url = taken[i]
            \/ /\ i \notin DOMAIN taken /\ i \in Nat
               /\ i - Len(taken) \in DOMAIN queue /\ queue'[i] = queue[i - Len(taken)]
      /\ \A j \in DOMAIN taken : j \in DOMAIN queue' /\ queue'[j].url = taken[j]
      /\ \A j \in DOMAIN queue : \E i \in DOMAIN queue' : queue'[i] = queue[j]
  <2>1. Joins(queue', taken, queue)
    BY <1>1, <1>3, <1>4, QueueJoined
  <2>2. QED
    BY <2>1 DEF Joins
<1>6. \A i \in DOMAIN taken : /\ taken[i] \in seen' /\ taken[i] \notin seen
                              /\ \A j \in DOMAIN taken : taken[j] = taken[i] => i = j
  BY <1>2, <1>3 DEF Taken
<1>7. CrawlQueue'
  <2>1. ASSUME NEW i \in DOMAIN queue' PROVE queue'[i].url \notin attempted' /\ queue'[i].url \in seen'
    <3>1. CASE i \in DOMAIN taken /\ queue'[i].url = taken[i]
      BY <3>1, <1>1, <1>6
    <3>2. CASE i - Len(taken) \in DOMAIN queue /\ queue'[i] = queue[i - Len(taken)]
      BY <3>2, <1>1, <1>2 DEF Crawl!QueueIsFresh
    <3>3. QED
      BY <3>1, <3>2, <1>5
  <2>2. ASSUME NEW i \in DOMAIN queue', NEW j \in DOMAIN queue', queue'[j].url = queue'[i].url PROVE i = j
    <3>1. CASE i \in DOMAIN taken /\ j \in DOMAIN taken
      BY <2>2, <3>1, <1>5, <1>6
    <3>2. CASE i \notin DOMAIN taken /\ j \notin DOMAIN taken
      <4>0. PICK k \in DOMAIN queue, l \in DOMAIN queue :
               /\ k = i - Len(taken) /\ l = j - Len(taken)
               /\ queue'[i] = queue[k] /\ queue'[j] = queue[l]
        BY <3>2, <1>5
      <4>1. i - Len(taken) = j - Len(taken)
        BY <2>2, <4>0, <1>1 DEF Crawl!QueueIsFresh
      <4>2. i \in Nat /\ j \in Nat /\ Len(taken) \in Nat
        BY <3>2, <1>5
      <4>3. QED
        BY <4>1, <4>2
    <3>3. CASE (i \in DOMAIN taken /\ j \notin DOMAIN taken) \/ (i \notin DOMAIN taken /\ j \in DOMAIN taken)
      <4>1. \A k \in DOMAIN queue' : k \in DOMAIN taken => queue'[k].url \notin seen
        BY <1>5, <1>6
      <4>2. \A k \in DOMAIN queue' : k \notin DOMAIN taken => queue'[k].url \in seen
        BY <1>1, <1>5
      <4>3. QED
        BY <2>2, <3>3, <4>1, <4>2
    <3>4. QED
      BY <3>1, <3>2, <3>3
  <2>3. QED
    BY <2>1, <2>2 DEF CrawlQueue, Crawl!QueueIsFresh
<1>8. \A p : Crawl!permits_origin(tracker, p) => (Crawl!permits_origin(tracker, p))'
  BY <1>2 DEF Crawl!permits_origin, Crawl!explicitly_permits
<1>9. \A i \in DOMAIN queue' : (Crawl!permits_origin(tracker, queue[i].url))'
  <2>1. SUFFICES ASSUME NEW i \in DOMAIN queue' PROVE (Crawl!permits_origin(tracker, queue[i].url))'
    OBVIOUS
  <2>2. CASE i \in DOMAIN taken /\ queue'[i].url = taken[i]
    <3>1. Crawl!permits_origin(x.tracker, taken[i])
      BY <2>2, <1>2, <1>3 DEF Taken
    <3>2. QED
      BY <3>1, <2>2 DEF Crawl!permits_origin, Crawl!explicitly_permits
  <2>3. CASE i - Len(taken) \in DOMAIN queue /\ queue'[i] = queue[i - Len(taken)]
    <3>1. Crawl!permits_origin(tracker, queue'[i].url)
      BY <2>3, <1>1
    <3>2. QED
      BY <3>1, <1>2 DEF Crawl!permits_origin, Crawl!explicitly_permits
  <2>4. QED
    BY <2>2, <2>3, <1>5
<1>10. QED
  BY <1>2, <1>3, <1>5, <1>7, <1>8, <1>9 DEF Enqueued

(* An accepted document: its bytes move from the visit to the documents,   *)
(* and the candidates it links to have been seen.                          *)
LEMMA AcceptKeeps ==
    ASSUME CrawlInv, doc.at = "process", UNCHANGED <<plan, expired, attempted, requested>>,
           NEW bounded \in Seq(Pages), NEW pages \in Seq(Pages),
           \A page \in Crawl!ToSet(bounded) \cap Candidates : \E i \in DOMAIN pages : pages[i] = page,
           NEW b, b.seen = seen, b.tracker = tracker, issues \subseteq b.issues,
           NEW raw \in Seq(Pages), "link_limit" \in b.issues \/ KeptAll(raw, bounded),
           NEW x, NEW n \in Nat, Reserved(b, x, pages, n, doc.depth + 1),
           plan.follow /\ doc.depth < MaxDepth => n = Len(pages),
           fetched' = Append(fetched, [url |-> doc.url, bytes |-> doc.bytes, links |-> bounded,
                                       depth |-> doc.depth, raw |-> raw]),
           seen' = x.seen, tracker' = x.tracker, issues' = x.issues,
           queue' = Crawl!Entries(x.taken, doc.depth + 1) \o queue, doc' = Crawl!Idle
    PROVE  CrawlInv'
<1>1. /\ doc \in Visits /\ tracker \in Accounts /\ fetched \in Seq(Found) /\ requested \in Seq(Pages)
      /\ attempted \subseteq seen
  BY DEF CrawlInv, CrawlShape
<1>2. doc.depth + 1 \in Nat
  <2>1. doc.depth \in Nat
    BY CrawlNumbers
  <2>2. QED
    BY ONLY <2>1
<1>3. /\ queue' \in Seq(Queued) /\ CrawlQueue'
      /\ tracker.origins \subseteq tracker'.origins /\ seen \subseteq seen' /\ seen' \subseteq Pages
      /\ \A p : Crawl!permits_origin(tracker, p) => (Crawl!permits_origin(tracker, p))'
      /\ \A i \in DOMAIN queue' : (Crawl!permits_origin(tracker, queue[i].url))'
      /\ \A i \in DOMAIN queue : \E j \in DOMAIN queue' : queue'[j] = queue[i]
      /\ \A i \in DOMAIN x.taken : \E j \in DOMAIN queue' : queue'[j].url = x.taken[i]
  <2>1. Enqueued(x)
    BY <1>2, EnqueueKeeps
  <2>2. QED
    BY <2>1 DEF Enqueued
<1>4. /\ x.tracker \in Accounts /\ SameCounts(b, x) /\ Complete(b, x) /\ b.issues \subseteq x.issues
      /\ \A site \in x.tracker.origins : site \in plan.origins \/ (plan.public /\ site \in Related)
      /\ (\A p : Crawl!Accepts(x.tracker, p) => Crawl!Accepts(b.tracker, p))
      /\ (doc.depth + 1 <= MaxDepth =>
            \A i \in 1..n : Crawl!Accepts(x.tracker, pages[i]) => pages[i] \in x.seen)
  BY DEF Reserved
<1>5. PICK r : r = [url |-> doc.url, bytes |-> doc.bytes, links |-> bounded, depth |-> doc.depth, raw |-> raw]
  OBVIOUS
<1>6. r \in Found /\ r.bytes = doc.bytes /\ r.links = bounded /\ r.depth = doc.depth /\ r.raw = raw
  BY <1>1, <1>5 DEF Visits, Found
<1>7. /\ fetched' \in Seq(Found) /\ Len(fetched') = Len(fetched) + 1 /\ Len(fetched) \in Nat
      /\ \A i \in DOMAIN fetched' : \/ i \in DOMAIN fetched /\ fetched'[i] = fetched[i]
                                    \/ fetched'[i] = r
  BY <1>1, <1>5, <1>6
<1>8. doc' \in Visits /\ doc'.at = "pop" /\ doc'.bytes = 0
  BY IdleVisit
<1>9. CrawlShape'
  <2>1. attempted' \subseteq seen' /\ tracker' \in Accounts
    BY <1>1, <1>3, <1>4
  <2>2. plan' \in Crawl!Plans' /\ expired' \in BOOLEAN /\ requested' \in Seq(Pages)
    <3>1. plan \in Crawl!Plans /\ expired \in BOOLEAN
      BY DEF CrawlInv, CrawlShape
    <3>2. plan' \in Crawl!Plans'
      BY <3>1 DEF Crawl!Plans
    <3>3. QED
      BY <1>1, <3>1, <3>2
  <2>3. QED
    BY <1>3, <1>7, <1>8, <2>1, <2>2, Zenon DEF CrawlShape
<1>10. CrawlPaid'
  <2>1. PICK t \in Nat : t = Crawl!Bytes
    BY CrawlNumbers
  <2>2. Crawl!Bytes' = t + doc.bytes
    <3>1. Total(Append(fetched, r)) = Total(fetched) + r.bytes
      BY <1>1, <1>6, TotalGrows
    <3>2. Crawl!Bytes' = Total(fetched')
      BY DEF Crawl!Bytes, Total
    <3>3. QED
      BY <1>5, <1>6, <2>1, <3>1, <3>2, BytesAre
  <2>3. /\ t + doc.bytes <= tracker.bytes /\ doc.bytes \in Nat
        /\ Len(requested) <= tracker.pages + tracker.redirects /\ Len(fetched) + 1 <= tracker.pages
    <3>1. t + doc.bytes <= tracker.bytes /\ doc.bytes \in Nat
      BY <2>1, CrawlNumbers DEF CrawlInv, CrawlPaid
    <3>2. Len(requested) + 0 <= tracker.pages + tracker.redirects /\ Len(fetched) + 1 <= tracker.pages
      BY DEF CrawlInv, CrawlPaid, Fetching
    <3>3. QED
      BY <3>1, <3>2, CrawlNumbers
  <2>4. /\ tracker'.pages = tracker.pages /\ tracker'.redirects = tracker.redirects
        /\ tracker'.bytes = tracker.bytes
    BY <1>4 DEF SameCounts
  <2>5. Crawl!Bytes' + doc'.bytes <= tracker'.bytes
    BY <1>8, <2>1, <2>2, <2>3, <2>4
  <2>6. Len(requested') + (IF doc'.at = "connect" THEN 1 ELSE 0) <= tracker'.pages + tracker'.redirects
    BY <1>1, <1>8, <2>3, <2>4
  <2>7. Len(fetched') + (IF doc'.at \in Fetching THEN 1 ELSE 0) <= tracker'.pages
    BY <1>7, <1>8, <2>3, <2>4 DEF Fetching
  <2>8. QED
    BY <2>5, <2>6, <2>7 DEF CrawlPaid
<1>11. CrawlScope'
  <2>1. \A i \in DOMAIN requested : (Crawl!permits_origin(tracker, requested[i]))'
    BY <1>3 DEF CrawlInv, CrawlScope
  <2>2. \A site \in tracker'.origins : site \in plan'.origins \/ (plan'.public /\ site \in Related)
    BY <1>4
  <2>3. QED
    BY <1>3, <1>8, <2>1, <2>2 DEF CrawlScope, Fetching
<1>12. ASSUME Unlimited'
       PROVE  /\ ~tracker'.stopped
              /\ \A page \in seen' : page \in attempted' \/ \E i \in DOMAIN queue' : queue'[i].url = page
              /\ \A i \in DOMAIN fetched' : KeptAll(fetched'[i].raw, fetched'[i].links)
  <2>1. Unlimited /\ "link_limit" \notin x.issues
    BY <1>4, <1>12 DEF Unlimited, Crawl!BudgetIssues
  <2>2. /\ x.tracker.stopped = b.tracker.stopped
        /\ \A page \in x.seen : page \in b.seen \/ \E i \in DOMAIN x.taken : x.taken[i] = page
    BY <1>4, <2>1 DEF Complete
  <2>3. ~tracker'.stopped
    BY <2>1, <2>2 DEF CrawlInv, CrawlReports
  <2>4. ASSUME NEW page \in seen' PROVE page \in attempted' \/ \E i \in DOMAIN queue' : queue'[i].url = page
    <3>1. CASE page \in seen
      <4>1. page \in attempted \/ \E i \in DOMAIN queue : queue[i].url = page
        BY <2>1, <3>1 DEF CrawlInv, CrawlReports
      <4>2. ASSUME NEW i \in DOMAIN queue, queue[i].url = page PROVE \E j \in DOMAIN queue' : queue'[j].url = page
        <5>1. PICK j \in DOMAIN queue' : queue'[j] = queue[i]
          BY <1>3
        <5>2. QED
          BY <4>2, <5>1
      <4>3. QED
        BY <4>1, <4>2
    <3>2. CASE page \notin seen
      <4>1. PICK i \in DOMAIN x.taken : x.taken[i] = page
        BY <2>2, <2>4, <3>2
      <4>2. QED
        BY <4>1, <1>3
    <3>3. QED
      BY <3>1, <3>2
  <2>5. ASSUME NEW i \in DOMAIN fetched' PROVE KeptAll(fetched'[i].raw, fetched'[i].links)
    <3>1. KeptAll(r.raw, r.links)
      BY <1>4, <1>6, <2>1
    <3>2. \A k \in DOMAIN fetched : KeptAll(fetched[k].raw, fetched[k].links)
      BY <2>1 DEF CrawlInv, CrawlReports
    <3>3. QED
      BY <1>7, <3>1, <3>2
  <2>6. QED
    BY <2>3, <2>4, <2>5
<1>13. ASSUME plan.follow, NEW i \in DOMAIN fetched',
              fetched'[i].depth < MaxDepth, NEW page \in Crawl!ToSet(fetched'[i].links) \cap Candidates,
              Crawl!Accepts(x.tracker, page)
       PROVE  page \in seen'
  <2>1. CASE i \in DOMAIN fetched /\ fetched'[i] = fetched[i]
    <3>1. Welcome(page)
      BY <1>4, <1>13 DEF Welcome
    <3>2. page \in seen
      BY <1>13, <2>1, <3>1 DEF CrawlInv, CrawlReports
    <3>3. QED
      BY <3>2, <1>3
  <2>2. CASE fetched'[i] = r
    <3>1. page \in Crawl!ToSet(bounded) \cap Candidates /\ doc.depth < MaxDepth /\ n = Len(pages)
      BY <1>6, <1>13, <2>2
    <3>2. PICK k \in DOMAIN pages : pages[k] = page
      BY <3>1
    <3>3. k \in 1..n /\ doc.depth + 1 <= MaxDepth
      <4>1. k \in 1..n
        BY <3>1, <3>2
      <4>2. QED
        BY <3>1, <4>1, CrawlNumbers
    <3>4. QED
      BY <1>4, <1>13, <3>2, <3>3
  <2>3. QED
    BY <1>7, <2>1, <2>2
<1>14. CrawlReports'
  <2>1. \A page : Welcome(page)' <=> Crawl!Accepts(x.tracker, page)
    BY DEF Welcome, Crawl!Accepts, Crawl!permits_origin, Crawl!explicitly_permits, Crawl!Relates,
           Crawl!Cardinality
  <2>2. plan' = plan /\ doc'.at # "done"
    BY <1>8
  <2>3. (plan.follow)' =>
          \A i \in DOMAIN fetched' : fetched'[i].depth < MaxDepth =>
              \A page \in Crawl!ToSet(fetched'[i].links) \cap Candidates : Welcome(page)' => page \in seen'
    BY <1>13, <2>1, <2>2
  <2>4. QED
    BY <1>12, <2>2, <2>3 DEF CrawlReports
<1>15. QED
  BY <1>3, <1>9, <1>10, <1>11, <1>14 DEF CrawlInv

(* The document is accepted, or the deadline has passed.                   *)
LEMMA ProcessKeeps == ASSUME CrawlInv, Crawl!Process PROVE CrawlInv'
<1>1. doc.at = "process" /\ UNCHANGED <<plan, expired, attempted, requested>>
  BY DEF Crawl!Process
<1>2. CASE Crawl!Finish("wall_clock") /\ UNCHANGED <<queue, seen, fetched>>
  <2>1. doc' \in Visits /\ doc'.at = "done" /\ doc'.bytes = 0 /\ doc'.at \notin Fetching
    BY <1>2, IdleVisit DEF Crawl!Finish
  <2>2. tracker' \in Accounts /\ KeepsCounts /\ ~(Unlimited')
    <3>1. "wall_clock" \in Crawl!BudgetIssues
      BY DEF Crawl!BudgetIssues
    <3>2. QED
      BY <1>2, <3>1, ReportIs DEF Crawl!Finish
  <2>3. CrawlPaid'
    <3>1. tracker'.bytes \in Nat /\ tracker.bytes <= tracker'.bytes
      BY <2>2, CrawlNumbers DEF KeepsCounts
    <3>2. QED
      BY <1>1, <1>2, <2>1, <2>2, <3>1, BytesPaid, PagesPaid DEF KeepsCounts
  <2>4. (\A i \in DOMAIN requested' : Crawl!permits_origin(tracker, requested'[i])) /\ expired' \in BOOLEAN
        /\ requested' \in Seq(Pages)
    BY <1>1 DEF CrawlInv, CrawlScope, CrawlShape
  <2>5. QED
    BY <1>1, <1>2, <2>1, <2>2, <2>3, <2>4, VisitStep DEF KeepsCounts
<1>3. PICK all : all = Crawl!CanonicalLinks(doc.links)
  OBVIOUS
<1>4. PICK bounded : bounded = Crawl!FirstOf(all, MaxLinksPerDocument)
  OBVIOUS
<1>5. PICK noted : noted = IF Len(all) > MaxLinksPerDocument THEN issues \cup {"link_limit"} ELSE issues
  OBVIOUS
<1>6. PICK pages : pages = Crawl!Sorted(Crawl!ToSet(bounded) \cap Candidates)
  OBVIOUS
<1>7. PICK b : b = [seen |-> seen, tracker |-> tracker, issues |-> noted, taken |-> <<>>]
  OBVIOUS
<1>8. PICK x : x = IF plan.follow /\ doc.depth < MaxDepth
                   THEN Crawl!ReserveAll(b, pages, doc.depth + 1) ELSE b
  OBVIOUS
<1>9. CASE /\ fetched' = Append(fetched, [url |-> doc.url, bytes |-> doc.bytes,
                                          links |-> bounded, depth |-> doc.depth,
                                          raw |-> doc.links])
           /\ seen' = x.seen /\ tracker' = x.tracker /\ issues' = x.issues
           /\ queue' = Crawl!Entries(x.taken, doc.depth + 1) \o queue /\ doc' = Crawl!Idle
  <2>1. bounded \in Seq(Pages) /\ doc.links \in Seq(Pages)
        /\ ("link_limit" \in noted \/ KeptAll(doc.links, bounded))
    <3>1. doc.links \in Seq(Pages) /\ MaxLinksPerDocument \in Nat
      BY CrawlAssumption DEF CrawlInv, CrawlShape, Visits
    <3>2. all \in Seq(Pages) /\ KeptAll(doc.links, all)
      BY <1>3, <3>1, LinksAre
    <3>3. bounded \in Seq(Pages) /\ (Len(all) <= MaxLinksPerDocument => bounded = all)
      BY <1>4, <3>1, <3>2, LinksAre
    <3>4. Len(all) > MaxLinksPerDocument \/ Len(all) <= MaxLinksPerDocument
      BY <3>1, <3>2
    <3>5. QED
      BY <1>5, <3>1, <3>2, <3>3, <3>4
  <2>2. PICK S : S = Crawl!ToSet(bounded) \cap Candidates
    OBVIOUS
  <2>3. S \subseteq Pages
    BY <2>1, <2>2 DEF Crawl!ToSet
  <2>4. IsFiniteSet(S) /\ S \subseteq Nat
    BY <2>3, CrawlAssumption, FS_Subset
  <2>5. pages \in Seq(S) /\ \A p \in S : \E i \in DOMAIN pages : pages[i] = p
    BY <1>6, <2>2, <2>4, SortedIs
  <2>6. pages \in Seq(Pages)
    BY <2>3, <2>5
  <2>7. /\ Reserving(b) /\ b.seen = seen /\ b.tracker = tracker /\ b.issues = noted /\ b.taken = <<>>
        /\ issues \subseteq b.issues
    BY <1>5, <1>7 DEF Reserving, Reservation
  <2>8. /\ tracker \in Accounts /\ seen \subseteq Pages
        /\ \A site \in tracker.origins : site \in plan.origins \/ (plan.public /\ site \in Related)
    BY DEF CrawlInv, CrawlShape, CrawlScope
  <2>9. doc.depth + 1 \in Nat
    BY CrawlNumbers
  <2>10. /\ Reserved(b, b, pages, 0, doc.depth + 1)
         /\ Reserved(b, Crawl!ReserveAll(b, pages, doc.depth + 1), pages, Len(pages), doc.depth + 1)
    BY <2>6, <2>7, <2>8, <2>9, ReserveList
  <2>11. PICK n \in Nat : /\ Reserved(b, x, pages, n, doc.depth + 1)
                          /\ (plan.follow /\ doc.depth < MaxDepth => n = Len(pages))
    <3>1. Len(pages) \in Nat
      BY <2>6
    <3>2. QED
      BY <1>8, <2>10, <3>1
  <2>12. QED
    BY <1>1, <1>9, <2>1, <2>2, <2>5, <2>6, <2>7, <2>11, AcceptKeeps
<1>10. QED
  BY <1>2, <1>3, <1>4, <1>5, <1>6, <1>7, <1>8, <1>9, Zenon DEF Crawl!Process

(* Every step of the crawl keeps the invariant.                            *)
LEMMA CrawlSteps == ASSUME CrawlInv, Crawl!Next PROVE CrawlInv'
<1>1. CASE Crawl!NoAnswer \/ Crawl!Refused \/ Crawl!BrokenBody
  BY <1>1, FailKeeps DEF Crawl!NoAnswer, Crawl!Refused, Crawl!BrokenBody
<1>2. ASSUME NEW size \in 0..(MaxDocument + 1), Crawl!Chunk(size) PROVE CrawlInv'
  <2>1. size \in Nat
    BY CrawlAssumption
  <2>2. QED
    BY <1>2, <2>1, ChunkKeeps
<1>3. QED
  BY <1>1, <1>2, PopKeeps, ConnectKeeps, RedirectKeeps, SuccessKeeps, ProcessKeeps, TimeKeeps
     DEF Crawl!Next, Crawl!Step

(* A plan's origins are sites of pages.                                    *)
LEMMA PlanSites == ASSUME NEW p \in Crawl!Plans PROVE p.origins \in SUBSET Sites
<1>1. PICK more \in {{}, {Origin[page] : page \in Pages \ Candidates}} : p.origins = {Origin[Start]} \cup more
  BY DEF Crawl!Plans
<1>2. QED
  BY <1>1, CrawlAssumption DEF Sites

(* The crawl starts with its first page and the well-known ones.           *)
LEMMA CrawlStarts == ASSUME Crawl!Init PROVE CrawlInv
<1>1. /\ plan \in Crawl!Plans /\ doc = Crawl!Idle /\ expired = FALSE /\ fetched = <<>> /\ attempted = {}
      /\ requested = <<>>
  BY DEF Crawl!Init
<1>2. PICK t : t = [pages |-> 0, redirects |-> 0, bytes |-> 0, links |-> 0, stopped |-> FALSE,
                    origins |-> plan.origins]
  OBVIOUS
<1>3. PICK b : b = [seen |-> {Start}, issues |-> {}, taken |-> <<>>, tracker |-> t]
  OBVIOUS
<1>4. PICK x : x = IF plan.wellKnown THEN Crawl!ReserveAll(b, WellKnown, 1) ELSE b
  OBVIOUS
<1>5. /\ queue = Crawl!Entries(<<Start>>, 0) \o Crawl!Entries(x.taken, 1)
      /\ seen = x.seen /\ tracker = x.tracker /\ issues = x.issues
  BY <1>2, <1>3, <1>4, Zenon DEF Crawl!Init
<1>6. t \in Accounts /\ t.origins = plan.origins /\ ~t.stopped /\ t.pages = 0 /\ t.redirects = 0 /\ t.bytes = 0
  <2>1. plan.origins \in SUBSET Sites
    BY <1>1, PlanSites
  <2>2. 0 \in 0..MaxPages /\ 0 \in 0..MaxRedirects /\ 0 \in 0..MaxTotal /\ 0 \in 0..MaxTotalLinks
    BY CrawlAssumption
  <2>3. QED
    BY <1>2, <2>1, <2>2 DEF Accounts
<1>7. /\ Reserving(b) /\ b.seen = {Start} /\ b.tracker = t /\ b.issues = {} /\ b.taken = <<>>
      /\ b.seen \subseteq Pages
  BY <1>3, CrawlAssumption DEF Reserving, Reservation
<1>8. PICK n : Reserved(b, x, WellKnown, n, 1)
  <2>1. \A site \in b.tracker.origins : site \in plan.origins \/ (plan.public /\ site \in Related)
    BY <1>6, <1>7
  <2>2. WellKnown \in Seq(Pages) /\ b.tracker \in Accounts /\ 1 \in Nat
    BY <1>6, <1>7, CrawlAssumption
  <2>3. /\ Reserved(b, b, WellKnown, 0, 1)
        /\ Reserved(b, Crawl!ReserveAll(b, WellKnown, 1), WellKnown, Len(WellKnown), 1)
    BY <1>7, <2>1, <2>2, ReserveList
  <2>4. QED
    BY <1>4, <2>3
<1>9. /\ x.tracker \in Accounts /\ SameCounts(b, x) /\ Taken(b, x) /\ Complete(b, x) /\ x.seen \subseteq Pages
      /\ b.seen \subseteq x.seen /\ b.tracker.origins \subseteq x.tracker.origins
      /\ (x.taken # <<>> => 1 <= MaxDepth)
      /\ \A site \in x.tracker.origins : site \in plan.origins \/ (plan.public /\ site \in Related)
  BY <1>8 DEF Reserved
<1>10. PICK taken \in Seq(Pages) : taken = x.taken
  BY <1>9 DEF Taken
<1>11. PICK q : q = Crawl!Entries(taken, 1)
  OBVIOUS
<1>12. /\ q \in Seq(Queued) /\ DOMAIN q = DOMAIN taken /\ \A i \in DOMAIN q : q[i].url = taken[i]
  <2>1. taken # <<>> => 1 \in 0..MaxDepth
    BY <1>9, <1>10, CrawlAssumption
  <2>2. <<>> \in Seq(Queued)
    OBVIOUS
  <2>3. q \in Seq(Queued)
    BY <1>11, <2>1, <2>2, QueueJoined
  <2>4. QED
    BY <1>11, <2>3 DEF Crawl!Entries
<1>13. PICK one \in Seq(Pages) : one = <<Start>> /\ DOMAIN one = {1} /\ one[1] = Start /\ Len(one) = 1
  <2>1. <<Start>> \in Seq(Pages)
    BY CrawlAssumption
  <2>2. DOMAIN <<Start>> = {1} /\ <<Start>>[1] = Start /\ Len(<<Start>>) = 1
    OBVIOUS
  <2>3. QED
    BY <2>1, <2>2
<1>14. Joins(queue, one, q)
  <2>1. 0 \in 0..MaxDepth
    BY CrawlAssumption
  <2>2. QED
    BY <1>5, <1>10, <1>11, <1>12, <1>13, <2>1, QueueJoined
<1>15. /\ queue \in Seq(Queued) /\ 1 \in DOMAIN queue /\ queue[1].url = Start
       /\ \A i \in DOMAIN queue : \/ i = 1
                                  \/ i # 1 /\ i \in Nat /\ i - 1 \in DOMAIN taken /\ queue[i].url = taken[i - 1]
       /\ \A j \in DOMAIN taken : \E i \in DOMAIN queue : queue[i].url = taken[j]
  BY <1>12, <1>13, <1>14 DEF Joins
<1>16. \A i \in DOMAIN taken : /\ taken[i] \in seen /\ taken[i] # Start /\ Crawl!permits_origin(tracker, taken[i])
                               /\ \A j \in DOMAIN taken : taken[j] = taken[i] => i = j
  BY <1>5, <1>7, <1>9, <1>10 DEF Taken
<1>17. CrawlShape
  <2>1. requested \in Seq(Pages) /\ fetched \in Seq(Found) /\ doc \in Visits
    BY <1>1, IdleVisit
  <2>2. QED
    BY <1>1, <1>5, <1>9, <1>15, <2>1 DEF CrawlShape
<1>18. CrawlPaid
  <2>1. Crawl!Bytes = 0
    BY <1>1, BytesAre, EmptyTotal
  <2>2. Len(requested) = 0 /\ Len(fetched) = 0 /\ doc.bytes = 0 /\ doc.at = "pop" /\ doc.at \notin Fetching
    BY <1>1, IdleVisit DEF Fetching
  <2>3. tracker.pages = 0 /\ tracker.redirects = 0 /\ tracker.bytes = 0
    BY <1>5, <1>6, <1>7, <1>9 DEF SameCounts
  <2>4. QED
    BY <2>1, <2>2, <2>3 DEF CrawlPaid
<1>19. CrawlScope
  <2>1. Crawl!permits_origin(tracker, Start)
    <3>1. Origin[Start] \in plan.origins
      BY <1>1 DEF Crawl!Plans
    <3>2. QED
      BY <3>1 DEF Crawl!permits_origin, Crawl!explicitly_permits
  <2>2. \A i \in DOMAIN queue : Crawl!permits_origin(tracker, queue[i].url)
    BY <1>15, <1>16, <2>1
  <2>3. doc.at \notin Fetching /\ DOMAIN requested = {}
    BY <1>1, IdleVisit DEF Fetching
  <2>4. QED
    BY <1>5, <1>9, <2>2, <2>3 DEF CrawlScope
<1>20. CrawlQueue
  <2>1. Start \in seen
    BY <1>5, <1>7, <1>9
  <2>2. ASSUME NEW i \in DOMAIN queue, NEW j \in DOMAIN queue, queue[j].url = queue[i].url PROVE i = j
    <3>1. \A k \in DOMAIN queue : k # 1 => queue[k].url # queue[1].url
      BY <1>15, <1>16
    <3>2. CASE i = 1 \/ j = 1
      BY <2>2, <3>1, <3>2
    <3>3. CASE i # 1 /\ j # 1
      <4>1. PICK k \in DOMAIN taken, l \in DOMAIN taken :
               /\ k = i - 1 /\ l = j - 1 /\ i \in Nat /\ j \in Nat
               /\ queue[i].url = taken[k] /\ queue[j].url = taken[l]
        BY <3>3, <1>15
      <4>2. k = l
        BY <2>2, <4>1, <1>16
      <4>3. QED
        BY <4>1, <4>2
    <3>4. QED
      BY <3>2, <3>3
  <2>3. \A i \in DOMAIN queue : queue[i].url \in seen
    BY <1>15, <1>16, <2>1
  <2>4. QED
    BY <1>1, <2>2, <2>3 DEF CrawlQueue, Crawl!QueueIsFresh
<1>21. CrawlReports
  <2>1. doc.at = "pop" /\ DOMAIN fetched = {}
    BY <1>1, IdleVisit
  <2>2. ASSUME Unlimited
        PROVE  ~tracker.stopped /\ \A page \in seen : \E i \in DOMAIN queue : queue[i].url = page
    <3>1. "link_limit" \notin x.issues
      BY <1>5, <2>2 DEF Unlimited, Crawl!BudgetIssues
    <3>2. /\ x.tracker.stopped = b.tracker.stopped
          /\ \A page \in x.seen : page \in b.seen \/ \E i \in DOMAIN x.taken : x.taken[i] = page
      BY <1>9, <3>1 DEF Complete
    <3>3. ASSUME NEW page \in seen PROVE \E i \in DOMAIN queue : queue[i].url = page
      <4>1. page = Start \/ \E i \in DOMAIN taken : taken[i] = page
        BY <1>5, <1>7, <1>10, <3>2
      <4>2. QED
        BY <4>1, <1>15
    <3>4. QED
      BY <1>5, <1>6, <1>7, <3>2, <3>3
  <2>3. QED
    BY <2>1, <2>2 DEF CrawlReports
<1>22. QED
  BY <1>17, <1>18, <1>19, <1>20, <1>21 DEF CrawlInv

(* Nothing else touches the crawl.                                         *)
LEMMA CrawlStays == ASSUME CrawlInv, UNCHANGED crawlVars PROVE CrawlInv'
<1>1. UNCHANGED <<plan, queue, seen, tracker, doc, expired, fetched, issues, attempted, requested>>
  BY DEF crawlVars
<1>2. CrawlPaid'
  BY <1>1, SameBytes DEF CrawlInv, CrawlPaid
<1>3. Unlimited' <=> Unlimited
  BY <1>1 DEF Unlimited, Crawl!BudgetIssues
<1>4. QED
  BY <1>1, <1>2, <1>3, VisitStep DEF CrawlInv, CrawlShape, CrawlScope, CrawlReports

(* The invariant is what the crawl promises, and more.                     *)
LEMMA CrawlInvIsSound == ASSUME CrawlInv PROVE CrawlIsSound
<1>1. /\ plan \in Crawl!Plans /\ queue \in Seq(Queued) /\ tracker \in Accounts /\ doc \in Visits
      /\ fetched \in Seq(Found) /\ requested \in Seq(Pages) /\ seen \subseteq Pages /\ attempted \subseteq seen
      /\ expired \in BOOLEAN
  BY DEF CrawlInv, CrawlShape
<1>2. Crawl!TypeOK
  BY <1>1 DEF Crawl!TypeOK, Visits, Queued, Fetching
<1>3. Crawl!WithinBudget
  <2>1. \A i \in DOMAIN fetched : fetched[i].depth <= MaxDepth
    <3>1. SUFFICES ASSUME NEW i \in DOMAIN fetched PROVE fetched[i].depth <= MaxDepth
      OBVIOUS
    <3>2. fetched[i] \in Found
      BY <1>1
    <3>3. fetched[i].depth \in 0..MaxDepth /\ MaxDepth \in Nat
      BY <3>2, CrawlAssumption DEF Found
    <3>4. QED
      BY <3>3
  <2>2. Crawl!Bytes + doc.bytes <= tracker.bytes
    BY DEF CrawlInv, CrawlPaid
  <2>3. Len(fetched) <= tracker.pages /\ Len(requested) <= tracker.pages + tracker.redirects
    <3>1. /\ Len(requested) + (IF doc.at = "connect" THEN 1 ELSE 0) <= tracker.pages + tracker.redirects
          /\ Len(fetched) + (IF doc.at \in Fetching THEN 1 ELSE 0) <= tracker.pages
      BY DEF CrawlInv, CrawlPaid
    <3>2. /\ Len(requested) \in Nat /\ Len(fetched) \in Nat /\ tracker.pages \in Nat /\ tracker.redirects \in Nat
      BY CrawlNumbers
    <3>3. QED
      BY ONLY <3>1, <3>2
  <2>4. Len(requested) <= MaxPages + MaxRedirects
    <3>1. /\ Len(requested) \in Nat /\ tracker.pages \in Nat /\ tracker.redirects \in Nat
          /\ tracker.pages <= MaxPages /\ tracker.redirects <= MaxRedirects /\ MaxPages \in Nat /\ MaxRedirects \in Nat
      BY CrawlNumbers
    <3>2. Len(requested) <= tracker.pages + tracker.redirects
      BY <2>3
    <3>3. QED
      BY ONLY <3>1, <3>2
  <2>5. tracker.links <= MaxTotalLinks
    <3>1. tracker.links \in 0..MaxTotalLinks /\ MaxTotalLinks \in Nat
      BY <1>1, CrawlAssumption DEF Accounts
    <3>2. QED
      BY <3>1
  <2>6. tracker.pages <= MaxPages /\ tracker.redirects <= MaxRedirects /\ tracker.bytes <= MaxTotal
    BY CrawlNumbers
  <2>7. QED
    BY <2>1, <2>2, <2>3, <2>4, <2>5, <2>6 DEF Crawl!WithinBudget
<1>4. Crawl!QueueIsFresh
  BY DEF CrawlInv, CrawlQueue
<1>5. Crawl!StaysInScope
  BY DEF CrawlInv, CrawlScope, Crawl!StaysInScope, Crawl!permits_origin, Crawl!explicitly_permits
<1>6. Crawl!ReadLinksAreFollowed
  <2>1. SUFFICES ASSUME doc.at = "done", issues \cap Crawl!BudgetIssues = {}
                 PROVE  /\ queue = <<>> /\ ~tracker.stopped
                        /\ plan.follow =>
                             \A i \in DOMAIN fetched : fetched[i].depth < MaxDepth =>
                                 \A page \in Crawl!ToSet(Crawl!FirstOf(fetched[i].raw, MaxLinksPerDocument + 1))
                                               \cap Candidates :
                                     Welcome(page) => page \in attempted
    BY DEF Crawl!ReadLinksAreFollowed, Welcome
  <2>2. /\ Unlimited /\ queue = <<>> /\ ~tracker.stopped
        /\ \A page \in seen : page \in attempted \/ \E i \in DOMAIN queue : queue[i].url = page
        /\ \A i \in DOMAIN fetched : KeptAll(fetched[i].raw, fetched[i].links)
    BY <2>1 DEF CrawlInv, CrawlReports, Unlimited
  <2>3. \A page \in seen : page \in attempted
    BY <2>2
  <2>4. QED
    BY <2>2, <2>3 DEF CrawlInv, CrawlReports, KeptAll
<1>7. QED
  BY <1>2, <1>3, <1>4, <1>5, <1>6 DEF CrawlIsSound

(* However pages link and redirect to one another and whatever a server    *)
(* sends, the crawl stays within every budget, leaves the plan's origins   *)
(* only for related ones a document linked to, takes no page twice, and    *)
(* attempts every candidate its origins accept among the links it reads of *)
(* a document, unless it reports an issue of a budget; what it does not    *)
(* read of a document, or its origins have no room for, it leaves out      *)
(* without a word (BoundedDocumentFetcher::fetch).                         *)
THEOREM CrawlSound == MCSpec => []CrawlIsSound
<1>1. MCInit => CrawlInv
  BY CrawlStarts DEF MCInit
<1>2. ASSUME CrawlInv, [MCNext]_<<part, vars, importVars, catalogVars, crawlVars>> PROVE CrawlInv'
  <2>1. CASE CrawlNext
    BY <1>2, <2>1, CrawlSteps DEF CrawlNext
  <2>2. CASE AssistantNext \/ ImportNext \/ CatalogNext \/ UNCHANGED <<part, vars, importVars, catalogVars, crawlVars>>
    <3>1. UNCHANGED crawlVars
      BY <2>2 DEF AssistantNext, ImportNext, CatalogNext
    <3>2. QED
      BY <1>2, <3>1, CrawlStays
  <2>3. QED
    BY <1>2, <2>1, <2>2 DEF MCNext
<1>3. CrawlInv => CrawlIsSound
  BY CrawlInvIsSound
<1>4. QED
  BY <1>1, <1>2, <1>3, PTL DEF MCSpec
=============================================================================
