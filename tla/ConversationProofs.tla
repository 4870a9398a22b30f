------------------------- MODULE ConversationProofs -------------------------
(***************************************************************************)
(* Proofs about Conversation, for any number of clients, generations,      *)
(* branches and deltas.                                                    *)
(*                                                                         *)
(* IndInv is the inductive invariant of the tables.  What a prompt quotes  *)
(* and where a head moves is about lineages, a recursive function over the *)
(* parents: parents are older rows, so an induction over ids gives the     *)
(* chains (LineageIs, ChainInduction), a finished row hangs on finished    *)
(* rows only, and finished rows never change (HistoryStep).                *)
(***************************************************************************)
EXTENDS Conversation, WellFoundedInduction, TLAPS

(* The domains the bounds define are sets of naturals, and the ids an      *)
(* append takes are in them.                                               *)
LEMMA Domains ==
    /\ MessageId \subseteq Nat \ {0}
    /\ BranchId \subseteq Nat \ {0}
    /\ GenerationId \subseteq Nat \ {0}
BY BoundsAssumption DEF MessageId, BranchId, GenerationId

(* The ids an append takes are free and in their domains. *)
LEMMA NewIds ==
    ASSUME generationCount \in 0..MaxGenerations, generationCount < MaxGenerations
    PROVE  /\ NewUser \in MessageId
           /\ NewAssistant \in MessageId
           /\ NewGeneration \in GenerationId
           /\ NewUser # NewAssistant
           /\ NewUser # None
           /\ NewGeneration \in 0..MaxGenerations
BY BoundsAssumption
   DEF NewUser, NewAssistant, NewGeneration, MessageId, GenerationId, None

(* A prompt quotes messages. *)
LEMMA QuotableType ==
    ASSUME NEW rows, NEW head
    PROVE  Quotable(rows, head) \subseteq MessageId
BY DEF Quotable

(* What InsertGeneration writes has the type of its tables. *)
LEMMA InsertType ==
    ASSUME TypeOK, NEW r \in Request, NEW b \in BranchId, InsertGeneration(r, b)
    PROVE  /\ messages' \in [MessageId -> Message]
           /\ generations' \in [GenerationId -> Generation]
           /\ generationCount' \in 0..MaxGenerations
           /\ tasks' \in [GenerationId -> Task]
<1>1. generationCount < MaxGenerations /\ generationCount \in 0..MaxGenerations
  BY DEF InsertGeneration, TypeOK
<1>2. /\ NewUser \in MessageId
      /\ NewAssistant \in MessageId
      /\ NewGeneration \in 0..MaxGenerations
  BY <1>1, NewIds
<1>3. messages' \in [MessageId -> Message]
  <2>1. [parent |-> r.fork, role |-> "user", status |-> "complete",
         content |-> r.text] \in Message
    BY DEF Request, Message, Terminal
  <2>2. [parent |-> NewUser, role |-> "assistant", status |-> "pending",
         content |-> 0] \in Message
    BY <1>2 DEF Message
  <2> QED BY <2>1, <2>2 DEF InsertGeneration, TypeOK
<1>4. generations' \in [GenerationId -> Generation]
  <2>1. [branch |-> b, user |-> NewUser, assistant |-> NewAssistant,
         status |-> "running"] \in Generation
    BY <1>2 DEF Generation
  <2> QED BY <2>1 DEF InsertGeneration, TypeOK
<1>5. generationCount' \in 0..MaxGenerations
  BY <1>2 DEF InsertGeneration
<1>6. tasks' \in [GenerationId -> Task]
  <2>1. [phase |-> "streaming", preserve |-> preserve, streamed |-> 0,
         status |-> "running", prompt |-> r.prompt, fresh |-> r.fresh] \in Task
    BY BoundsAssumption DEF Request, Task, TypeOK
  <2> QED BY <2>1 DEF InsertGeneration, TypeOK
<1> QED BY <1>3, <1>4, <1>5, <1>6

(* A kept answer has the type of its table. *)
LEMMA KeepType ==
    ASSUME TypeOK, NEW g \in GenerationId, NEW status \in Terminal,
           KeepAssistant(g, status)
    PROVE  /\ messages' \in [MessageId -> Message]
           /\ generations' \in [GenerationId -> Generation]
           /\ branches' \in [BranchId -> Branch]
<1>1. tasks[g].streamed \in Nat
  BY BoundsAssumption DEF TypeOK, Task
<1>2. messages' \in [MessageId -> Message]
  BY <1>1 DEF KeepAssistant, TypeOK, Message
<1>3. generations' \in [GenerationId -> Generation]
  BY DEF KeepAssistant, TypeOK, Generation
<1> QED BY <1>2, <1>3 DEF KeepAssistant, TypeOK

(* So have the rows a dropped answer leaves. *)
LEMMA DropType ==
    ASSUME TypeOK, NEW g \in GenerationId, NEW status \in Terminal,
           DropAssistant(g, status)
    PROVE  /\ messages' \in [MessageId -> Message]
           /\ generations' \in [GenerationId -> Generation]
           /\ branches' \in [BranchId -> Branch]
<1>1. NoMessage \in Message
  BY DEF NoMessage, Message
<1>2. messages' \in [MessageId -> Message]
  BY <1>1 DEF DropAssistant, TypeOK
<1>3. generations' \in [GenerationId -> Generation]
  BY DEF DropAssistant, TypeOK, Generation
<1>4. generations[g].user \in MessageId \cup {None}
  BY DEF TypeOK, Generation
<1>5. branches' \in [BranchId -> Branch]
  BY <1>4 DEF DropAssistant, MoveHead, TypeOK, Branch
<1> QED BY <1>2, <1>3, <1>5

(* No request is a request. *)
LEMMA IdleType == Idle \in Request
BY DEF Idle, Request

(* No task and a finished task are tasks. *)
LEMMA NoTaskType == NoTask \in Task /\ Over \in Task
BY BoundsAssumption DEF NoTask, Over, Task

(* Recovery rewrites rows in place. *)
LEMMA RecoverType ==
    ASSUME TypeOK, RecoverPreserving \/ RecoverDropping
    PROVE  /\ messages' \in [MessageId -> Message]
           /\ generations' \in [GenerationId -> Generation]
           /\ branches' \in [BranchId -> Branch]
<1>1. CASE RecoverPreserving
  <2>1. messages' \in [MessageId -> Message]
    BY <1>1 DEF RecoverPreserving, TypeOK, Message, Terminal
  <2>2. generations' \in [GenerationId -> Generation]
    BY <1>1 DEF RecoverPreserving, RecoveredStatus, TypeOK, Generation, Terminal
  <2> QED BY <1>1, <2>1, <2>2 DEF RecoverPreserving, TypeOK
<1>2. CASE RecoverDropping
  <2>1. \A m \in MessageId \cup {None} : OffPending(m) \in MessageId \cup {None}
    BY DEF OffPending, PendingAssistants, TypeOK, Message
  <2>2. messages' \in [MessageId -> Message]
    <3>1. NoMessage \in Message
      BY DEF NoMessage, Message
    <3> QED BY <1>2, <2>1, <3>1 DEF RecoverDropping, TypeOK, Message
  <2>3. generations' \in [GenerationId -> Generation]
    BY <1>2 DEF RecoverDropping, RecoveredStatus, TypeOK, Generation, Terminal
  <2>4. branches' \in [BranchId -> Branch]
    BY <1>2, <2>1 DEF RecoverDropping, TypeOK, Branch
  <2> QED BY <2>2, <2>3, <2>4
<1> QED BY <1>1, <1>2

(* A fresh room has its types. *)
LEMMA TypeOKInit == Init => TypeOK
<1> SUFFICES ASSUME Init PROVE TypeOK
  OBVIOUS
<1>1. NoMessage \in Message /\ NoBranch \in Branch /\ NoGeneration \in Generation
  BY DEF NoMessage, Message, NoBranch, Branch, NoGeneration, Generation
<1> QED BY <1>1, IdleType, NoTaskType, BoundsAssumption DEF Init, TypeOK

(* Every step keeps the types. *)
LEMMA TypeOKNext == TypeOK /\ RequestsNameBranches /\ [Next]_vars => TypeOK'
<1> SUFFICES ASSUME TypeOK, RequestsNameBranches, [Next]_vars PROVE TypeOK'
  OBVIOUS
<1>1. ASSUME NEW c \in Clients, ClientStep(c) PROVE TypeOK'
  <2>1. ASSUME NEW b \in Branches, NEW expected \in 0..(2 * generationCount),
               NEW text \in Texts, BeginSend(c, b, expected, text)
        PROVE  TypeOK'
    <3>1. expected \in MessageId \cup {None} /\ b \in BranchId /\ text \in Nat
      BY BoundsAssumption DEF TypeOK, MessageId, BranchId, Branches, None
    <3>2. [kind |-> "send", branch |-> b, expected |-> expected, target |-> None,
           fork |-> expected, text |-> text, prompt |-> SendHistory(b),
           fresh |-> branches[b].head = expected /\ ~Pending(expected)] \in Request
      BY <3>1, QuotableType DEF Request, SendHistory
    <3> QED BY <2>1, <3>2 DEF BeginSend, TypeOK
  <2>2. ASSUME NEW kind \in {"edit", "regenerate"}, NEW b \in Branches,
               NEW target \in 1..(2 * generationCount), NEW text \in Texts,
               BeginAction(c, kind, b, target, text)
        PROVE  TypeOK'
    <3>1. target \in MessageId /\ b \in BranchId /\ text \in Nat
      BY BoundsAssumption DEF TypeOK, MessageId, BranchId, Branches
    <3>2. branches[b].head \in MessageId \cup {None}
      BY <3>1 DEF TypeOK, Branch
    <3>3. ActionFork(kind, target) \in MessageId \cup {None}
      BY <2>2, <3>1
      DEF BeginAction, ActionAllowed, ActionFork, EditFork, RegenerateFork,
          TypeOK, Message
    <3>4. [kind |-> kind, branch |-> b, expected |-> branches[b].head,
           target |-> target, fork |-> ActionFork(kind, target), text |-> text,
           prompt |-> ActionHistory(kind, target), fresh |-> TRUE] \in Request
      BY <3>1, <3>2, <3>3, QuotableType DEF Request, ActionHistory
    <3> QED BY <2>2, <3>4 DEF BeginAction, TypeOK
  <2>3. CASE AppendGeneration(c)
    <3>1. requests[c] \in Request /\ InsertGeneration(requests[c], requests[c].branch)
      BY <2>3 DEF AppendGeneration, TypeOK
    <3>2. requests[c].branch \in BranchId
      BY <2>3, BoundsAssumption
      DEF AppendGeneration, RequestsNameBranches, Branches, BranchId, TypeOK
    <3>3. NewAssistant \in MessageId
      BY <3>1, NewIds DEF InsertGeneration, TypeOK
    <3>4. branches' \in [BranchId -> Branch]
      BY <2>3, <3>3 DEF AppendGeneration, MoveHead, TypeOK, Branch
    <3> QED BY <2>3, <3>1, <3>2, <3>4, InsertType, IdleType DEF AppendGeneration, TypeOK
  <2>4. CASE AppendAction(c)
    <3>1. /\ requests[c] \in Request
          /\ branchCount + 1 \in BranchId
          /\ InsertGeneration(requests[c], branchCount + 1)
      BY <2>4, BoundsAssumption DEF AppendAction, TypeOK, BranchId
    <3>2. NewAssistant \in MessageId
      BY <3>1, NewIds DEF InsertGeneration, TypeOK
    <3>3. [fork |-> requests[c].fork, head |-> NewAssistant] \in Branch
      BY <3>1, <3>2 DEF Request, Branch
    <3>4. branches' \in [BranchId -> Branch]
      BY <2>4, <3>3 DEF AppendAction, TypeOK
    <3>5. branchCount' \in 1..MaxBranches /\ active' \in 1..branchCount'
      BY <2>4, BoundsAssumption DEF AppendAction, TypeOK
    <3> QED BY <2>4, <3>1, <3>4, <3>5, InsertType, IdleType DEF AppendAction, TypeOK
  <2>5. CASE AppendRefused(c)
    BY <2>5, IdleType DEF AppendRefused, TypeOK
  <2> QED BY <1>1, <2>1, <2>2, <2>3, <2>4, <2>5 DEF ClientStep
<1>2. CASE RoomStep
  <2>1. ASSUME NEW b \in Branches, NEW target \in 1..(2 * generationCount),
               RemoveMessage(b, target)
        PROVE  TypeOK'
    <3>1. messages[target].parent \in MessageId \cup {None}
      BY BoundsAssumption DEF TypeOK, Message, MessageId
    <3> QED BY <2>1, <3>1 DEF RemoveMessage, MoveHead, TypeOK, Branch
  <2>2. ASSUME NEW from \in 0..(2 * generationCount), CreateBranch(from)
        PROVE  TypeOK'
    <3>1. [fork |-> from, head |-> from] \in Branch
      BY BoundsAssumption DEF TypeOK, Branch, MessageId, None
    <3>2. branchCount' \in 1..MaxBranches /\ active' \in 1..branchCount'
      BY <2>2, BoundsAssumption DEF CreateBranch, TypeOK
    <3> QED BY <2>2, <3>1, <3>2 DEF CreateBranch, TypeOK
  <2>3. ASSUME NEW b \in BranchId, SelectBranch(b) PROVE TypeOK'
    BY <2>3 DEF SelectBranch, TypeOK, Branches
  <2>4. ASSUME NEW value \in BOOLEAN, SaveSettings(value) PROVE TypeOK'
    BY <2>4 DEF SaveSettings, TypeOK
  <2> QED BY <1>2, <2>1, <2>2, <2>3, <2>4 DEF RoomStep
<1>3. ASSUME NEW g \in GenerationId, TaskStep(g) PROVE TypeOK'
  <2>1. CASE Stream(g)
    BY <2>1, BoundsAssumption DEF Stream, TypeOK, Task
  <2>2. CASE CheckpointPendingAssistant(g)
    <3>1. tasks[g].streamed \in Nat
      BY BoundsAssumption DEF TypeOK, Task
    <3> QED BY <2>2, <3>1 DEF CheckpointPendingAssistant, TypeOK, Message
  <2>3. ASSUME NEW status \in Terminal, FinalizeGeneration(g, status) PROVE TypeOK'
    <3>1. KeepAssistant(g, status) \/ DropAssistant(g, status)
      BY <2>3 DEF FinalizeGeneration
    <3> QED BY <2>3, <3>1, KeepType, DropType, NoTaskType DEF FinalizeGeneration, TypeOK
  <2>4. ASSUME NEW status \in Terminal, FinalizeFails(g, status) PROVE TypeOK'
    BY <2>4 DEF FinalizeFails, TypeOK, Task
  <2>5. CASE CompensateGeneration(g)
    <3>1. KeepAssistant(g, "failed") \/ DropAssistant(g, "failed")
      BY <2>5 DEF CompensateGeneration
    <3>2. "failed" \in Terminal
      BY DEF Terminal
    <3> QED BY <2>5, <3>1, <3>2, KeepType, DropType, NoTaskType
            DEF CompensateGeneration, TypeOK
  <2>6. CASE CompensationFails(g)
    BY <2>6, NoTaskType DEF CompensationFails, TypeOK
  <2> QED BY <1>3, <2>1, <2>2, <2>3, <2>4, <2>5, <2>6 DEF TaskStep
<1>4. CASE Crash
  BY <1>4, IdleType, NoTaskType DEF Crash, store, TypeOK
<1>5. CASE Recover
  <2>1. RecoverPreserving \/ RecoverDropping
    BY <1>5 DEF Recover
  <2> QED BY <1>5, <2>1, RecoverType DEF Recover, TypeOK
<1>6. CASE UNCHANGED vars
  BY <1>6 DEF vars, TypeOK
<1> QED BY <1>1, <1>2, <1>3, <1>4, <1>5, <1>6 DEF Next

-----------------------------------------------------------------------------
(* The invariants that speak of the rows only. *)
Rows == <<messages, branches, branchCount, generations, generationCount>>

RowInv ==
    /\ IdsInOrder
    /\ RolesMatch
    /\ ReferencesResolve
    /\ RunningOwnsItsBranch
    /\ NothingBuiltOnPending
    /\ OutcomesAgree

(* Pending in the state after the step. *)
PendingNext(m) == m # None /\ messages'[m].status = "pending"

(* RowInv speaks of the tables only. *)
LEMMA RowFrame == RowInv /\ UNCHANGED Rows => RowInv'
BY DEF Rows, RowInv, IdsInOrder, RolesMatch, ReferencesResolve,
       RunningOwnsItsBranch, NothingBuiltOnPending, OutcomesAgree,
       Branches, Exists, Pending

(* Rows have ids that were handed out. *)
LEMMA ExistingIds ==
    ASSUME TypeOK, RowInv, NEW m \in MessageId, Exists(m)
    PROVE  m <= 2 * generationCount
<1>1. m \in Nat /\ generationCount \in Nat
  BY BoundsAssumption, Domains DEF TypeOK
<1>2. ~(m > 2 * generationCount)
  BY DEF RowInv, IdsInOrder, Exists, NoMessage
<1> QED BY <1>1, <1>2

(* An append takes fresh ids, so it disturbs no existing row; the head it  *)
(* moves, or the branch it creates, is the one its generation owns.        *)
LEMMA InsertRowInv ==
    ASSUME TypeOK, RowInv, NEW r \in Request, NEW b \in BranchId,
           InsertGeneration(r, b),
           r.fork # None => Exists(r.fork) /\ ~Pending(r.fork),
           branchCount' \in 1..MaxBranches, branchCount <= branchCount',
           b \in 1..branchCount',
           branches' \in [BranchId -> Branch],
           branches'[b].head = NewAssistant,
           branches'[b].fork \in {branches[b].fork, r.fork},
           b \in Branches => ~Pending(branches[b].head),
           \A d \in BranchId : d # b => branches'[d] = branches[d]
    PROVE  RowInv'
<1> DEFINE u == NewUser
           a == NewAssistant
           n == NewGeneration
<1>1. generationCount \in 0..MaxGenerations /\ generationCount < MaxGenerations
  BY DEF InsertGeneration, TypeOK
<1>2. /\ u \in MessageId /\ a \in MessageId /\ n \in GenerationId
      /\ u = 2 * generationCount + 1
      /\ a = 2 * generationCount + 2
      /\ n = generationCount + 1
      /\ generationCount' = n
  BY <1>1, NewIds DEF NewUser, NewAssistant, NewGeneration, InsertGeneration
<1>3. /\ messages' \in [MessageId -> Message]
      /\ generations' \in [GenerationId -> Generation]
  BY InsertType
<1>4. /\ messages'[u] = [parent |-> r.fork, role |-> "user",
                         status |-> "complete", content |-> r.text]
      /\ messages'[a] = [parent |-> u, role |-> "assistant",
                         status |-> "pending", content |-> 0]
      /\ \A m \in MessageId : m # u /\ m # a => messages'[m] = messages[m]
  BY <1>2 DEF InsertGeneration, TypeOK
<1>5. /\ generations'[n] = [branch |-> b, user |-> u, assistant |-> a,
                            status |-> "running"]
      /\ \A g \in GenerationId : g # n => generations'[g] = generations[g]
  BY <1>2 DEF InsertGeneration, TypeOK
<1>6. /\ messages[u] = NoMessage
      /\ messages[a] = NoMessage
      /\ generations[n] = NoGeneration
  BY <1>1, <1>2 DEF RowInv, IdsInOrder
<1> HIDE DEF u, a, n
<1>7. IdsInOrder'
  <2>1. \A m \in MessageId : m > 2 * generationCount' => messages'[m] = NoMessage
    BY <1>1, <1>2, <1>4, Domains DEF RowInv, IdsInOrder
  <2>2. \A d \in BranchId : d > branchCount' => branches'[d] = NoBranch
    BY Domains DEF RowInv, IdsInOrder, TypeOK
  <2>3. ASSUME NEW g \in GenerationId
        PROVE  IF g > generationCount'
               THEN generations'[g] = NoGeneration
               ELSE /\ generations'[g].branch \in Branches'
                    /\ generations'[g].user = 2 * g - 1
                    /\ generations'[g].assistant \in {None, 2 * g}
                    /\ generations'[g].status # "absent"
    <3>1. CASE g = n
      BY <3>1, <1>1, <1>2, <1>5 DEF Branches
    <3>2. CASE g # n /\ g > generationCount
      BY <3>2, <1>1, <1>2, <1>5, Domains DEF RowInv, IdsInOrder
    <3>3. CASE g <= generationCount
      <4>1. generations'[g] = generations[g] /\ ~(g > generationCount')
        BY <3>3, <1>1, <1>2, <1>5, Domains
      <4>2. Branches \subseteq Branches'
        BY DEF Branches, TypeOK
      <4> QED BY <3>3, <4>1, <4>2, <1>1, Domains DEF RowInv, IdsInOrder
    <3> QED BY <3>1, <3>2, <3>3, <1>1, Domains
  <2> QED BY <2>1, <2>2, <2>3 DEF IdsInOrder
<1>8. RolesMatch'
  BY <1>4 DEF RowInv, RolesMatch
<1>9. \A m \in MessageId : Exists(m) => m # u /\ m # a /\ messages'[m] = messages[m]
  BY <1>4, <1>6 DEF Exists, NoMessage
<1>10. ReferencesResolve'
  <2>1. ASSUME NEW m \in MessageId, messages'[m].parent # None
        PROVE  messages'[m].parent < m /\ messages'[messages'[m].parent].status # "absent"
    <3>1. CASE m = u
      <4>1. r.fork # None /\ r.fork \in MessageId /\ Exists(r.fork)
        BY <2>1, <3>1, <1>4 DEF Request
      <4>2. r.fork <= 2 * generationCount
        BY <4>1, ExistingIds
      <4>3. r.fork \in Nat /\ generationCount \in Nat
        <5>1. r.fork \in Nat
          BY <4>1, Domains
        <5>2. generationCount \in Nat
          BY <1>1, BoundsAssumption
        <5> QED BY <5>1, <5>2
      <4>4. messages'[m].parent < m
        BY <3>1, <4>2, <4>3, <1>2, <1>4
      <4> QED BY <3>1, <4>1, <4>4, <1>4, <1>9 DEF Exists
    <3>2. CASE m = a
      BY <3>2, <1>1, <1>2, <1>4 DEF Exists
    <3>3. CASE m # u /\ m # a
      <4>1. messages[m].parent \in MessageId
        BY <2>1, <3>3, <1>4 DEF TypeOK, Message
      <4> QED BY <2>1, <3>3, <4>1, <1>4, <1>9 DEF RowInv, ReferencesResolve, Exists
    <3> QED BY <3>1, <3>2, <3>3
  <2>2. ASSUME NEW d \in BranchId
        PROVE  /\ branches'[d].head # None => messages'[branches'[d].head].status # "absent"
               /\ branches'[d].fork # None => messages'[branches'[d].fork].status # "absent"
    <3>1. /\ branches[d].head \in MessageId \cup {None}
          /\ branches[d].fork \in MessageId \cup {None}
          /\ r.fork \in MessageId \cup {None}
      BY DEF TypeOK, Branch, Request
    <3>2. messages'[a].status # "absent"
      BY <1>4 DEF Exists
    <3>3. \A m \in MessageId : Exists(m) => messages'[m].status # "absent"
      BY <1>9 DEF Exists
    <3>4. CASE d = b
      BY <3>1, <3>2, <3>3, <3>4 DEF RowInv, ReferencesResolve, a
    <3>5. CASE d # b
      BY <3>1, <3>3, <3>5 DEF RowInv, ReferencesResolve
    <3> QED BY <3>4, <3>5
  <2>3. ASSUME NEW g \in GenerationId
        PROVE  /\ generations'[g].user # None => messages'[generations'[g].user].status # "absent"
               /\ generations'[g].assistant # None => messages'[generations'[g].assistant].status # "absent"
    <3>1. CASE g = n
      BY <3>1, <1>4, <1>5 DEF Exists
    <3>2. CASE g # n
      <4>1. /\ generations[g].user \in MessageId \cup {None}
            /\ generations[g].assistant \in MessageId \cup {None}
        BY DEF TypeOK, Generation
      <4> QED BY <3>2, <4>1, <1>5, <1>9 DEF RowInv, ReferencesResolve, Exists
    <3> QED BY <3>1, <3>2
  <2> QED BY <2>1, <2>2, <2>3 DEF ReferencesResolve, Exists
<1>11. \A g \in GenerationId : generations[g].status = "running" =>
          /\ g # n
          /\ generations[g].assistant \in MessageId
          /\ Exists(generations[g].assistant)
          /\ generations[g].branch \in Branches
          /\ generations[g].branch # b
  <2> SUFFICES ASSUME NEW g \in GenerationId, generations[g].status = "running"
               PROVE  /\ g # n
                      /\ generations[g].assistant \in MessageId
                      /\ Exists(generations[g].assistant)
                      /\ generations[g].branch \in Branches
                      /\ generations[g].branch # b
    OBVIOUS
  <2>1. g # n
    BY <1>6 DEF NoGeneration
  <2>2. generations[g].assistant \in MessageId
    BY DEF RowInv, RunningOwnsItsBranch, TypeOK, Generation
  <2>3. Exists(generations[g].assistant)
    BY DEF RowInv, RunningOwnsItsBranch, Exists
  <2>4. generations[g].branch \in Branches
    BY DEF RowInv, RunningOwnsItsBranch
  <2>5. generations[g].branch # b
    BY <2>2, <2>4 DEF RowInv, RunningOwnsItsBranch, Pending
  <2> QED BY <2>1, <2>2, <2>3, <2>4, <2>5
<1>12. RunningOwnsItsBranch'
  <2> SUFFICES ASSUME NEW g \in GenerationId, generations'[g].status = "running"
               PROVE  /\ generations'[g].branch \in Branches'
                      /\ generations'[g].assistant # None
                      /\ generations'[g].user # None
                      /\ messages'[generations'[g].assistant].status = "pending"
                      /\ messages'[generations'[g].assistant].parent = generations'[g].user
                      /\ branches'[generations'[g].branch].head = generations'[g].assistant
    BY DEF RunningOwnsItsBranch
  <2>1. CASE g = n
    <3>1. u # None /\ a # None
      BY <1>2, Domains DEF None
    <3> QED BY <2>1, <3>1, <1>4, <1>5 DEF Branches, a
  <2>2. CASE g # n
    <3>1. generations'[g] = generations[g]
      BY <2>2, <1>5
    <3>2. messages'[generations[g].assistant] = messages[generations[g].assistant]
      BY <3>1, <1>9, <1>11
    <3>3. /\ branches'[generations[g].branch] = branches[generations[g].branch]
          /\ generations[g].branch \in Branches'
      BY <3>1, <1>11, BoundsAssumption DEF Branches, BranchId, TypeOK
    <3> QED BY <3>1, <3>2, <3>3 DEF RowInv, RunningOwnsItsBranch
  <2> QED BY <2>1, <2>2
<1>13. \A m \in MessageId \cup {None} : PendingNext(m) => m = a \/ Pending(m)
  BY <1>4 DEF Pending, PendingNext
<1>14. \A m \in MessageId : Exists(m) => m # a
  BY <1>9
<1>15. NothingBuiltOnPending'
  <2>1. ASSUME NEW m \in MessageId PROVE ~PendingNext(messages'[m].parent)
    <3>1. CASE m = u
      <4>1. r.fork \in MessageId \cup {None} /\ a # None
        BY <1>2, Domains DEF Request, None
      <4>2. r.fork # a
        BY <4>1, <1>14
      <4> QED BY <3>1, <4>1, <4>2, <1>4, <1>13 DEF Pending, PendingNext
    <3>2. CASE m = a
      BY <3>2, <1>4 DEF PendingNext
    <3>3. CASE m # u /\ m # a
      <4>1. messages'[m].parent = messages[m].parent
        BY <3>3, <1>4
      <4>2. messages[m].parent \in MessageId \cup {None} /\ a # None
        BY <1>2, Domains DEF TypeOK, Message, None
      <4>3. messages[m].parent # a
        BY <4>2, <1>14 DEF RowInv, ReferencesResolve
      <4> QED BY <4>1, <4>2, <4>3, <1>13 DEF RowInv, NothingBuiltOnPending
    <3> QED BY <3>1, <3>2, <3>3
  <2>2. ASSUME NEW d \in BranchId PROVE ~PendingNext(branches'[d].fork)
    <3>1. /\ branches[d].fork \in MessageId \cup {None}
          /\ r.fork \in MessageId \cup {None}
          /\ a # None
      BY <1>2, Domains DEF TypeOK, Branch, Request, None
    <3>2. branches[d].fork # a /\ r.fork # a
      BY <3>1, <1>14 DEF RowInv, ReferencesResolve
    <3>3. branches'[d].fork \in {branches[d].fork, r.fork}
      OBVIOUS
    <3>4. ~Pending(branches[d].fork) /\ ~Pending(r.fork)
      BY <3>1 DEF RowInv, NothingBuiltOnPending, Pending
    <3> QED BY <3>1, <3>2, <3>3, <3>4, <1>13
  <2>3. ASSUME NEW d \in BranchId, PendingNext(branches'[d].head)
        PROVE  \E g \in GenerationId :
                  generations'[g].status = "running" /\ generations'[g].branch = d
    <3>1. CASE d = b
      BY <3>1, <1>2, <1>5
    <3>2. CASE d # b
      <4>1. branches'[d] = branches[d] /\ branches[d].head \in MessageId \cup {None}
        BY <3>2 DEF TypeOK, Branch
      <4>2. branches[d].head # a
        BY <4>1, <1>14, <1>2, Domains DEF RowInv, ReferencesResolve, None
      <4>3. Pending(branches[d].head)
        BY <2>3, <4>1, <4>2, <1>13
      <4>4. PICK g \in GenerationId :
               generations[g].status = "running" /\ generations[g].branch = d
        BY <4>3 DEF RowInv, NothingBuiltOnPending
      <4>5. generations'[g] = generations[g]
        BY <4>4, <1>5, <1>11
      <4> QED BY <4>4, <4>5
    <3> QED BY <3>1, <3>2
  <2> QED BY <2>1, <2>2, <2>3 DEF NothingBuiltOnPending, Pending, PendingNext
<1>16. OutcomesAgree'
  <2> SUFFICES ASSUME NEW g \in GenerationId, generations'[g].status \in Terminal
               PROVE  /\ generations'[g].assistant # None =>
                            messages'[generations'[g].assistant].status = generations'[g].status
                      /\ generations'[g].status = "complete" => generations'[g].assistant # None
    BY DEF OutcomesAgree
  <2>1. generations'[g] = generations[g]
    BY <1>5 DEF Terminal
  <2>2. generations[g].assistant \in MessageId \cup {None}
    BY DEF TypeOK, Generation
  <2>3. generations[g].assistant # None =>
           messages'[generations[g].assistant] = messages[generations[g].assistant]
    BY <2>2, <1>9 DEF RowInv, ReferencesResolve
  <2> QED BY <2>1, <2>3 DEF RowInv, OutcomesAgree
<1> QED BY <1>7, <1>8, <1>10, <1>12, <1>15, <1>16 DEF RowInv

(* A head that moves, or a new branch, must name a finished row: then      *)
(* nothing that is running is disturbed.                                   *)
LEMMA BranchRowInv ==
    ASSUME TypeOK, RowInv, NEW b \in BranchId, NEW h \in MessageId \cup {None},
           UNCHANGED <<messages, generations, generationCount>>,
           h # None => Exists(h) /\ ~Pending(h),
           branchCount' \in 1..MaxBranches, branchCount <= branchCount',
           b \in 1..branchCount',
           branches' \in [BranchId -> Branch],
           branches'[b].head = h,
           branches'[b].fork \in {branches[b].fork, h},
           ~Pending(branches[b].head),
           \A d \in BranchId : d # b => branches'[d] = branches[d]
    PROVE  RowInv'
<1>1. IdsInOrder'
  <2>1. \A d \in BranchId : d > branchCount' => branches'[d] = NoBranch
    BY Domains DEF RowInv, IdsInOrder, TypeOK
  <2>2. Branches \subseteq Branches'
    BY DEF Branches, TypeOK
  <2> QED BY <2>1, <2>2 DEF RowInv, IdsInOrder
<1>2. RolesMatch'
  BY DEF RowInv, RolesMatch
<1>3. ReferencesResolve'
  <2>1. ASSUME NEW d \in BranchId
        PROVE  /\ branches'[d].head # None => messages'[branches'[d].head].status # "absent"
               /\ branches'[d].fork # None => messages'[branches'[d].fork].status # "absent"
    <3>1. CASE d = b
      BY <3>1 DEF RowInv, ReferencesResolve, Exists
    <3>2. CASE d # b
      BY <3>2 DEF RowInv, ReferencesResolve, Exists
    <3> QED BY <3>1, <3>2
  <2> QED BY <2>1 DEF RowInv, ReferencesResolve, Exists
<1>4. ASSUME NEW g \in GenerationId, generations[g].status = "running"
      PROVE  /\ generations[g].branch \in Branches'
             /\ generations[g].branch \in BranchId
             /\ generations[g].branch # b
  <2>1. generations[g].branch \in Branches
    BY <1>4 DEF RowInv, RunningOwnsItsBranch
  <2>2. generations[g].branch \in BranchId /\ generations[g].branch \in Branches'
    BY <2>1, BoundsAssumption DEF Branches, BranchId, TypeOK
  <2>3. generations[g].branch # b
    BY <1>4 DEF RowInv, RunningOwnsItsBranch, Pending
  <2> QED BY <2>2, <2>3
<1>5. RunningOwnsItsBranch'
  BY <1>4 DEF RowInv, RunningOwnsItsBranch
<1>6. NothingBuiltOnPending'
  <2>1. ASSUME NEW d \in BranchId PROVE ~PendingNext(branches'[d].fork)
    <3>1. CASE d = b
      BY <3>1 DEF RowInv, NothingBuiltOnPending, Pending, PendingNext
    <3>2. CASE d # b
      BY <3>2 DEF RowInv, NothingBuiltOnPending, Pending, PendingNext
    <3> QED BY <3>1, <3>2
  <2>2. ASSUME NEW d \in BranchId, PendingNext(branches'[d].head)
        PROVE  \E g \in GenerationId :
                  generations'[g].status = "running" /\ generations'[g].branch = d
    <3>1. d # b
      BY <2>2 DEF Pending, PendingNext
    <3> QED BY <2>2, <3>1 DEF RowInv, NothingBuiltOnPending, Pending, PendingNext
  <2> QED BY <2>1, <2>2 DEF RowInv, NothingBuiltOnPending, Pending, PendingNext
<1>7. OutcomesAgree'
  BY DEF RowInv, OutcomesAgree
<1> QED BY <1>1, <1>2, <1>3, <1>5, <1>6, <1>7 DEF RowInv

(* A checkpoint writes content only. *)
LEMMA CheckpointRowInv ==
    ASSUME TypeOK, RowInv, NEW g \in GenerationId, CheckpointPendingAssistant(g)
    PROVE  RowInv'
<1> DEFINE a == generations[g].assistant
<1>1. a \in MessageId
  BY DEF CheckpointPendingAssistant, Pending, TypeOK, Generation
<1>2. \A m \in MessageId : /\ messages'[m].parent = messages[m].parent
                           /\ messages'[m].role = messages[m].role
                           /\ messages'[m].status = messages[m].status
  BY DEF CheckpointPendingAssistant, TypeOK, Message
<1>3. \A m \in MessageId : m # a => messages'[m] = messages[m]
  BY DEF CheckpointPendingAssistant, TypeOK
<1>4. UNCHANGED <<branches, branchCount, generations, generationCount>>
  BY DEF CheckpointPendingAssistant
<1>5. Pending(a)
  BY DEF CheckpointPendingAssistant
<1> HIDE DEF a
<1>6. \A m \in MessageId \cup {None} : PendingNext(m) <=> Pending(m)
  BY <1>2 DEF PendingNext, Pending
<1>7. \A m \in MessageId : /\ messages[m].parent \in MessageId \cup {None}
                           /\ messages'[m].parent \in MessageId \cup {None}
  BY <1>2 DEF TypeOK, Message
<1>8. \A d \in BranchId : /\ branches[d].head \in MessageId \cup {None}
                          /\ branches[d].fork \in MessageId \cup {None}
  BY DEF TypeOK, Branch
<1>9. \A k \in GenerationId : /\ generations[k].user \in MessageId \cup {None}
                              /\ generations[k].assistant \in MessageId \cup {None}
  BY DEF TypeOK, Generation
<1>10. IdsInOrder'
  <2>1. a <= 2 * generationCount /\ a \in Nat /\ generationCount \in Nat
    BY <1>1, <1>5, ExistingIds, Domains, BoundsAssumption DEF Pending, Exists, TypeOK
  <2>2. \A m \in MessageId : m > 2 * generationCount => messages'[m] = NoMessage
    BY <2>1, <1>3 DEF RowInv, IdsInOrder
  <2> QED BY <2>2, <1>4 DEF RowInv, IdsInOrder, Branches
<1>11. RolesMatch'
  BY <1>2 DEF RowInv, RolesMatch
<1>12. ReferencesResolve'
  BY <1>2, <1>4, <1>7, <1>8, <1>9 DEF RowInv, ReferencesResolve, Exists
<1>13. RunningOwnsItsBranch'
  BY <1>2, <1>4, <1>9 DEF RowInv, RunningOwnsItsBranch, Branches
<1>14. NothingBuiltOnPending'
  BY <1>2, <1>4, <1>6, <1>7, <1>8 DEF RowInv, NothingBuiltOnPending, Pending, PendingNext
<1>15. OutcomesAgree'
  BY <1>2, <1>4, <1>9 DEF RowInv, OutcomesAgree
<1> QED BY <1>10, <1>11, <1>12, <1>13, <1>14, <1>15 DEF RowInv

(* The assistant of a running generation is its alone: no other generation *)
(* names it, it is no user row, and only the generation's own branch has   *)
(* it as its head.                                                         *)
LEMMA AssistantIsOwned ==
    ASSUME TypeOK, RowInv, NEW g \in GenerationId, generations[g].status = "running"
    PROVE  /\ generations[g].assistant \in MessageId
           /\ Pending(generations[g].assistant)
           /\ generations[g].branch \in BranchId
           /\ \A k \in GenerationId :
                 /\ k # g => generations[k].assistant # generations[g].assistant
                 /\ generations[k].user # generations[g].assistant
           /\ \A d \in BranchId :
                 branches[d].head = generations[g].assistant => d = generations[g].branch
           /\ \A m \in MessageId : messages[m].parent # generations[g].assistant
           /\ \A d \in BranchId : branches[d].fork # generations[g].assistant
<1> DEFINE a == generations[g].assistant
<1>1. a \in MessageId /\ a # None /\ Pending(a)
  BY DEF RowInv, RunningOwnsItsBranch, TypeOK, Generation, Pending
<1>2. generations[g].branch \in BranchId
  BY BoundsAssumption DEF RowInv, RunningOwnsItsBranch, Branches, BranchId, TypeOK
<1>3. g <= generationCount /\ a = 2 * g
  <2>1. g \in Nat /\ generationCount \in Nat
    BY BoundsAssumption, Domains DEF TypeOK
  <2>2. ~(g > generationCount)
    BY DEF RowInv, IdsInOrder, NoGeneration
  <2> QED BY <1>1, <2>1, <2>2 DEF RowInv, IdsInOrder
<1>4. ASSUME NEW k \in GenerationId
      PROVE  (k # g => generations[k].assistant # a) /\ generations[k].user # a
  <2>1. g \in Nat /\ k \in Nat
    BY Domains
  <2>2. \/ generations[k] = NoGeneration
        \/ generations[k].user = 2 * k - 1 /\ generations[k].assistant \in {None, 2 * k}
    BY DEF RowInv, IdsInOrder
  <2> QED BY <1>1, <1>3, <2>1, <2>2 DEF NoGeneration
<1>5. ASSUME NEW d \in BranchId, branches[d].head = a PROVE d = generations[g].branch
  <2>1. PICK k \in GenerationId : generations[k].status = "running" /\ generations[k].branch = d
    BY <1>1, <1>5 DEF RowInv, NothingBuiltOnPending
  <2>2. generations[k].assistant = a
    BY <1>5, <2>1 DEF RowInv, RunningOwnsItsBranch
  <2> QED BY <1>4, <2>1, <2>2
<1>6. /\ \A m \in MessageId : messages[m].parent # a
      /\ \A d \in BranchId : branches[d].fork # a
  BY <1>1 DEF RowInv, NothingBuiltOnPending
<1> QED BY <1>1, <1>2, <1>4, <1>5, <1>6

(* The terminal transaction that keeps the row. *)
LEMMA KeepRowInv ==
    ASSUME TypeOK, RowInv, NEW g \in GenerationId, NEW status \in Terminal,
           generations[g].status = "running", KeepAssistant(g, status),
           UNCHANGED <<branchCount, generationCount>>
    PROVE  RowInv'
<1> DEFINE a == generations[g].assistant
<1>1. /\ a \in MessageId /\ Pending(a)
      /\ generations[g].branch \in BranchId
      /\ \A k \in GenerationId : k # g => generations[k].assistant # a
  BY AssistantIsOwned
<1>2. /\ messages'[a].status = status
      /\ messages'[a].parent = messages[a].parent
      /\ messages'[a].role = messages[a].role
      /\ \A m \in MessageId : m # a => messages'[m] = messages[m]
  BY <1>1 DEF KeepAssistant, TypeOK, Message
<1>3. /\ generations'[g].status = status
      /\ generations'[g].assistant = a
      /\ generations'[g].user = generations[g].user
      /\ generations'[g].branch = generations[g].branch
      /\ \A k \in GenerationId : k # g => generations'[k] = generations[k]
      /\ UNCHANGED branches
  BY DEF KeepAssistant, TypeOK, Generation
<1> HIDE DEF a
<1>4. status # "absent" /\ status # "pending" /\ status # "running"
  BY DEF Terminal
<1>5. \A m \in MessageId : /\ messages'[m].parent = messages[m].parent
                           /\ messages'[m].role = messages[m].role
                           /\ messages'[m].status # "absent" <=> messages[m].status # "absent"
  BY <1>1, <1>2, <1>4 DEF Pending
<1>6. \A m \in MessageId \cup {None} : PendingNext(m) => Pending(m) /\ m # a
  BY <1>2, <1>4 DEF PendingNext, Pending
<1>7. \A m \in MessageId : messages[m].parent \in MessageId \cup {None}
  BY DEF TypeOK, Message
<1>8. \A d \in BranchId : /\ branches[d].head \in MessageId \cup {None}
                          /\ branches[d].fork \in MessageId \cup {None}
  BY DEF TypeOK, Branch
<1>9. \A k \in GenerationId : /\ generations[k].user \in MessageId \cup {None}
                              /\ generations[k].assistant \in MessageId \cup {None}
                              /\ generations'[k].user = generations[k].user
                              /\ generations'[k].assistant = generations[k].assistant
                              /\ generations'[k].branch = generations[k].branch
  BY <1>3 DEF TypeOK, Generation, a
<1>10. IdsInOrder'
  <2>1. a <= 2 * generationCount /\ a \in Nat /\ generationCount \in Nat
    BY <1>1, ExistingIds, Domains, BoundsAssumption DEF Pending, Exists, TypeOK
  <2>2. \A m \in MessageId : m > 2 * generationCount => messages'[m] = NoMessage
    BY <2>1, <1>2 DEF RowInv, IdsInOrder
  <2>3. ~(g > generationCount)
    BY DEF RowInv, IdsInOrder, NoGeneration
  <2>4. \A k \in GenerationId : k > generationCount => generations'[k] = NoGeneration
    BY <2>3, <1>3 DEF RowInv, IdsInOrder
  <2>5. \A k \in GenerationId : ~(k > generationCount) =>
          /\ generations'[k].branch \in Branches
          /\ generations'[k].user = 2 * k - 1
          /\ generations'[k].assistant \in {None, 2 * k}
          /\ generations'[k].status # "absent"
    BY <1>3, <1>4, <1>9 DEF RowInv, IdsInOrder
  <2> QED BY <2>2, <2>4, <2>5, <1>3 DEF RowInv, IdsInOrder, Branches
<1>11. RolesMatch'
  BY <1>2, <1>4, <1>5 DEF RowInv, RolesMatch
<1>12. ReferencesResolve'
  BY <1>3, <1>5, <1>7, <1>8, <1>9 DEF RowInv, ReferencesResolve, Exists
<1>13. RunningOwnsItsBranch'
  <2> SUFFICES ASSUME NEW k \in GenerationId, generations'[k].status = "running"
               PROVE  /\ generations'[k].branch \in Branches'
                      /\ generations'[k].assistant # None
                      /\ generations'[k].user # None
                      /\ messages'[generations'[k].assistant].status = "pending"
                      /\ messages'[generations'[k].assistant].parent = generations'[k].user
                      /\ branches'[generations'[k].branch].head = generations'[k].assistant
    BY DEF RunningOwnsItsBranch
  <2>1. k # g /\ generations'[k] = generations[k]
    BY <1>3, <1>4
  <2>2. generations[k].assistant # a /\ generations[k].assistant \in MessageId
    BY <2>1, <1>1, <1>9 DEF RowInv, RunningOwnsItsBranch
  <2> QED BY <2>1, <2>2, <1>2, <1>3 DEF RowInv, RunningOwnsItsBranch, Branches
<1>14. NothingBuiltOnPending'
  <2>1. \A m \in MessageId : ~PendingNext(messages'[m].parent)
    BY <1>5, <1>6, <1>7 DEF RowInv, NothingBuiltOnPending
  <2>2. \A d \in BranchId : ~PendingNext(branches'[d].fork)
    BY <1>3, <1>6, <1>8 DEF RowInv, NothingBuiltOnPending
  <2>3. ASSUME NEW d \in BranchId, PendingNext(branches'[d].head)
        PROVE  \E k \in GenerationId :
                  generations'[k].status = "running" /\ generations'[k].branch = d
    <3>1. Pending(branches[d].head) /\ branches[d].head # a
      BY <2>3, <1>3, <1>6, <1>8
    <3>2. PICK k \in GenerationId : generations[k].status = "running" /\ generations[k].branch = d
      BY <3>1 DEF RowInv, NothingBuiltOnPending
    <3>3. k # g
      BY <3>1, <3>2 DEF RowInv, RunningOwnsItsBranch, a
    <3> QED BY <3>2, <3>3, <1>3
  <2> QED BY <2>1, <2>2, <2>3 DEF NothingBuiltOnPending, Pending, PendingNext
<1>15. OutcomesAgree'
  <2> SUFFICES ASSUME NEW k \in GenerationId, generations'[k].status \in Terminal
               PROVE  /\ generations'[k].assistant # None =>
                            messages'[generations'[k].assistant].status = generations'[k].status
                      /\ generations'[k].status = "complete" => generations'[k].assistant # None
    BY DEF OutcomesAgree
  <2>1. CASE k = g
    BY <2>1, <1>1, <1>2, <1>3, Domains DEF None
  <2>2. CASE k # g
    BY <2>2, <1>1, <1>2, <1>3, <1>9 DEF RowInv, OutcomesAgree
  <2> QED BY <2>1, <2>2
<1> QED BY <1>10, <1>11, <1>12, <1>13, <1>14, <1>15 DEF RowInv

(* The terminal transaction that drops the row and rewinds the head to the *)
(* user message.                                                           *)
LEMMA DropRowInv ==
    ASSUME TypeOK, RowInv, NEW g \in GenerationId, NEW status \in Terminal,
           generations[g].status = "running", DropAssistant(g, status),
           status # "complete",
           UNCHANGED <<branchCount, generationCount>>
    PROVE  RowInv'
<1> DEFINE a == generations[g].assistant
           b == generations[g].branch
           u == generations[g].user
<1>1. /\ a \in MessageId /\ Pending(a)
      /\ b \in BranchId
      /\ \A k \in GenerationId : /\ k # g => generations[k].assistant # a
                                 /\ generations[k].user # a
      /\ \A d \in BranchId : branches[d].head = a => d = b
      /\ \A m \in MessageId : messages[m].parent # a
      /\ \A d \in BranchId : branches[d].fork # a
  BY AssistantIsOwned
<1>2. u \in MessageId /\ Exists(u) /\ u # a /\ branches[b].head = a
  BY <1>1 DEF RowInv, RunningOwnsItsBranch, ReferencesResolve, TypeOK, Generation
<1>3. /\ messages'[a] = NoMessage
      /\ \A m \in MessageId : m # a => messages'[m] = messages[m]
  BY <1>1 DEF DropAssistant, TypeOK
<1>4. /\ generations'[g].status = status
      /\ generations'[g].assistant = None
      /\ \A k \in GenerationId : k # g => generations'[k] = generations[k]
      /\ \A k \in GenerationId : /\ generations'[k].user = generations[k].user
                                 /\ generations'[k].branch = generations[k].branch
  BY DEF DropAssistant, TypeOK, Generation
<1>5. /\ branches'[b].head = u
      /\ branches'[b].fork = branches[b].fork
      /\ \A d \in BranchId : d # b => branches'[d] = branches[d]
  BY <1>1, <1>2 DEF DropAssistant, MoveHead, TypeOK, Branch
<1>6. ~Pending(u)
  <2>1. messages[a].parent = u
    BY DEF RowInv, RunningOwnsItsBranch
  <2> QED BY <1>1, <2>1 DEF RowInv, NothingBuiltOnPending
<1>7. b \in Branches
  BY DEF RowInv, RunningOwnsItsBranch
<1> HIDE DEF a, b, u
<1>8. status # "absent" /\ status # "pending" /\ status # "running"
  BY DEF Terminal
<1>9. \A m \in MessageId : messages[m].parent \in MessageId \cup {None}
  BY DEF TypeOK, Message
<1>10. \A d \in BranchId : /\ branches[d].head \in MessageId \cup {None}
                           /\ branches[d].fork \in MessageId \cup {None}
  BY DEF TypeOK, Branch
<1>11. \A k \in GenerationId : /\ generations[k].user \in MessageId \cup {None}
                               /\ generations[k].assistant \in MessageId \cup {None}
  BY DEF TypeOK, Generation
<1>12. \A m \in MessageId : m # a /\ Exists(m) => messages'[m].status # "absent"
  BY <1>3 DEF Exists
<1>13. \A m \in MessageId \cup {None} : PendingNext(m) => Pending(m) /\ m # a
  BY <1>3 DEF PendingNext, Pending, NoMessage
<1>14. IdsInOrder'
  <2>1. \A m \in MessageId : m > 2 * generationCount => messages'[m] = NoMessage
    BY <1>3 DEF RowInv, IdsInOrder
  <2>2. \A d \in BranchId : d > branchCount => branches'[d] = NoBranch
    <3>1. ~(b > branchCount)
      BY <1>7 DEF Branches, TypeOK
    <3> QED BY <3>1, <1>5 DEF RowInv, IdsInOrder
  <2>3. ~(g > generationCount)
    BY DEF RowInv, IdsInOrder, NoGeneration
  <2>4. \A k \in GenerationId : k > generationCount => generations'[k] = NoGeneration
    BY <2>3, <1>4 DEF RowInv, IdsInOrder
  <2>5. \A k \in GenerationId : ~(k > generationCount) =>
          /\ generations'[k].branch \in Branches
          /\ generations'[k].user = 2 * k - 1
          /\ generations'[k].assistant \in {None, 2 * k}
          /\ generations'[k].status # "absent"
    BY <1>4, <1>8 DEF RowInv, IdsInOrder
  <2> QED BY <2>1, <2>2, <2>4, <2>5 DEF RowInv, IdsInOrder, Branches
<1>15. RolesMatch'
  BY <1>3 DEF RowInv, RolesMatch, NoMessage
<1>16. ReferencesResolve'
  <2>1. ASSUME NEW m \in MessageId, messages'[m].parent # None
        PROVE  messages'[m].parent < m /\ messages'[messages'[m].parent].status # "absent"
    <3>1. m # a /\ messages'[m] = messages[m]
      BY <2>1, <1>3 DEF NoMessage
    <3> QED BY <2>1, <3>1, <1>1, <1>9, <1>12 DEF RowInv, ReferencesResolve
  <2>2. ASSUME NEW d \in BranchId
        PROVE  /\ branches'[d].head # None => messages'[branches'[d].head].status # "absent"
               /\ branches'[d].fork # None => messages'[branches'[d].fork].status # "absent"
    <3>1. CASE d = b
      BY <3>1, <1>1, <1>2, <1>5, <1>10, <1>12 DEF RowInv, ReferencesResolve
    <3>2. CASE d # b
      BY <3>2, <1>1, <1>5, <1>10, <1>12 DEF RowInv, ReferencesResolve
    <3> QED BY <3>1, <3>2
  <2>3. ASSUME NEW k \in GenerationId
        PROVE  /\ generations'[k].user # None => messages'[generations'[k].user].status # "absent"
               /\ generations'[k].assistant # None =>
                     messages'[generations'[k].assistant].status # "absent"
    BY <1>1, <1>4, <1>11, <1>12 DEF RowInv, ReferencesResolve
  <2> QED BY <2>1, <2>2, <2>3 DEF ReferencesResolve, Exists
<1>17. RunningOwnsItsBranch'
  <2> SUFFICES ASSUME NEW k \in GenerationId, generations'[k].status = "running"
               PROVE  /\ generations'[k].branch \in Branches'
                      /\ generations'[k].assistant # None
                      /\ generations'[k].user # None
                      /\ messages'[generations'[k].assistant].status = "pending"
                      /\ messages'[generations'[k].assistant].parent = generations'[k].user
                      /\ branches'[generations'[k].branch].head = generations'[k].assistant
    BY DEF RunningOwnsItsBranch
  <2>1. k # g /\ generations'[k] = generations[k]
    BY <1>4, <1>8
  <2>2. generations[k].assistant # a /\ generations[k].assistant \in MessageId
    BY <2>1, <1>1, <1>11 DEF RowInv, RunningOwnsItsBranch
  <2>3. generations[k].branch # b /\ generations[k].branch \in BranchId
    BY <2>1, <2>2, <1>2, BoundsAssumption
    DEF RowInv, RunningOwnsItsBranch, Branches, BranchId, TypeOK
  <2> QED BY <2>1, <2>2, <2>3, <1>3, <1>5 DEF RowInv, RunningOwnsItsBranch, Branches
<1>18. NothingBuiltOnPending'
  <2>1. \A m \in MessageId : ~PendingNext(messages'[m].parent)
    BY <1>3, <1>9, <1>13 DEF RowInv, NothingBuiltOnPending, NoMessage, PendingNext
  <2>2. \A d \in BranchId : ~PendingNext(branches'[d].fork)
    BY <1>5, <1>10, <1>13 DEF RowInv, NothingBuiltOnPending
  <2>3. ASSUME NEW d \in BranchId, PendingNext(branches'[d].head)
        PROVE  \E k \in GenerationId :
                  generations'[k].status = "running" /\ generations'[k].branch = d
    <3>1. d # b
      BY <2>3, <1>2, <1>5, <1>6, <1>13
    <3>2. Pending(branches[d].head) /\ branches[d].head # a
      BY <2>3, <3>1, <1>5, <1>10, <1>13
    <3>3. PICK k \in GenerationId : generations[k].status = "running" /\ generations[k].branch = d
      BY <3>2 DEF RowInv, NothingBuiltOnPending
    <3>4. k # g
      BY <3>2, <3>3 DEF RowInv, RunningOwnsItsBranch, a
    <3> QED BY <3>3, <3>4, <1>4
  <2> QED BY <2>1, <2>2, <2>3 DEF NothingBuiltOnPending, Pending, PendingNext
<1>19. OutcomesAgree'
  <2> SUFFICES ASSUME NEW k \in GenerationId, generations'[k].status \in Terminal
               PROVE  /\ generations'[k].assistant # None =>
                            messages'[generations'[k].assistant].status = generations'[k].status
                      /\ generations'[k].status = "complete" => generations'[k].assistant # None
    BY DEF OutcomesAgree
  <2>1. CASE k = g
    BY <2>1, <1>4
  <2>2. CASE k # g
    BY <2>2, <1>1, <1>3, <1>4, <1>11 DEF RowInv, OutcomesAgree
  <2> QED BY <2>1, <2>2
<1> QED BY <1>14, <1>15, <1>16, <1>17, <1>18, <1>19 DEF RowInv

(* Either way of recovering leaves nothing pending and nothing running,    *)
(* and keeps every finished row as it was.                                 *)
LEMMA RecoverFacts ==
    ASSUME TypeOK, RowInv, RecoverPreserving \/ RecoverDropping
    PROVE  /\ \A m \in MessageId :
                 /\ ~PendingNext(m)
                 /\ messages[m].status # "pending" => messages'[m] = messages[m]
           /\ \A g \in GenerationId :
                 /\ generations'[g].status # "running"
                 /\ generations'[g].user = generations[g].user
                 /\ generations'[g].branch = generations[g].branch
<1>1. CASE RecoverPreserving
  <2>1. \A m \in MessageId : messages'[m] = IF messages[m].status = "pending"
                                         THEN [messages[m] EXCEPT !.status = "cancelled"]
                                         ELSE messages[m]
    BY <1>1 DEF RecoverPreserving
  <2>2. \A m \in MessageId : messages'[m].status # "pending"
    BY <2>1 DEF TypeOK, Message
  <2>3. \A g \in GenerationId :
           /\ generations'[g].status = RecoveredStatus(g)
           /\ generations'[g].user = generations[g].user
           /\ generations'[g].branch = generations[g].branch
    BY <1>1 DEF RecoverPreserving, TypeOK, Generation
  <2>4. \A g \in GenerationId : RecoveredStatus(g) # "running"
    BY DEF RecoveredStatus
  <2> QED BY <2>1, <2>2, <2>3, <2>4 DEF PendingNext
<1>2. CASE RecoverDropping
  <2>1. \A m \in MessageId : m \in PendingAssistants <=> messages[m].status = "pending"
    BY DEF PendingAssistants, RowInv, RolesMatch
  <2>2. \A m \in MessageId : OffPending(messages[m].parent) = messages[m].parent
    BY DEF OffPending, PendingAssistants, RowInv, NothingBuiltOnPending, Pending,
           MessageId, None
  <2>3. \A m \in MessageId : messages'[m] = IF messages[m].status = "pending"
                                         THEN NoMessage ELSE messages[m]
    BY <1>2, <2>1, <2>2 DEF RecoverDropping, TypeOK, Message
  <2>4. \A g \in GenerationId :
           /\ generations'[g].status = RecoveredStatus(g)
           /\ generations'[g].user = generations[g].user
           /\ generations'[g].branch = generations[g].branch
    BY <1>2 DEF RecoverDropping
  <2>5. \A g \in GenerationId : RecoveredStatus(g) # "running"
    BY DEF RecoveredStatus
  <2> QED BY <2>3, <2>4, <2>5 DEF PendingNext, NoMessage
<1> QED BY <1>1, <1>2

(* Recovery keeps the invariant of the tables. *)
LEMMA RecoverRowInv ==
    ASSUME TypeOK, RowInv, PendingHasATask, RecoverPreserving \/ RecoverDropping,
           UNCHANGED <<branchCount, generationCount>>
    PROVE  RowInv'
<1>1. /\ \A m \in MessageId :
           /\ ~PendingNext(m)
           /\ messages[m].status # "pending" => messages'[m] = messages[m]
      /\ \A g \in GenerationId :
           /\ generations'[g].status # "running"
           /\ generations'[g].user = generations[g].user
           /\ generations'[g].branch = generations[g].branch
  BY RecoverFacts
<1>2. /\ \A m \in MessageId : messages[m].parent \in MessageId \cup {None}
      /\ \A d \in BranchId : /\ branches[d].head \in MessageId \cup {None}
                             /\ branches[d].fork \in MessageId \cup {None}
      /\ \A g \in GenerationId : /\ generations[g].user \in MessageId \cup {None}
                                 /\ generations[g].assistant \in MessageId \cup {None}
  BY DEF TypeOK, Message, Branch, Generation
<1>3. /\ messages' \in [MessageId -> Message]
      /\ generations' \in [GenerationId -> Generation]
      /\ branches' \in [BranchId -> Branch]
  BY RecoverType
<1>4. RolesMatch' /\ RunningOwnsItsBranch' /\ NothingBuiltOnPending'
  <2>1. RolesMatch'
    BY <1>1, Domains DEF RolesMatch, PendingNext, None
  <2>2. RunningOwnsItsBranch'
    BY <1>1 DEF RunningOwnsItsBranch
  <2>3. /\ \A m \in MessageId : messages'[m].parent \in MessageId \cup {None}
        /\ \A d \in BranchId : /\ branches'[d].head \in MessageId \cup {None}
                               /\ branches'[d].fork \in MessageId \cup {None}
    BY <1>3 DEF Message, Branch
  <2>4. NothingBuiltOnPending'
    BY <1>1, <2>3 DEF NothingBuiltOnPending, Pending, PendingNext
  <2> QED BY <2>1, <2>2, <2>4
<1>5. \A m \in MessageId : m > 2 * generationCount => messages'[m] = NoMessage
  BY <1>1 DEF RowInv, IdsInOrder, NoMessage
<1>6. CASE RecoverPreserving
  <2>1. /\ UNCHANGED branches
        /\ \A g \in GenerationId :
             generations'[g] = [generations[g] EXCEPT !.status = RecoveredStatus(g)]
        /\ \A m \in MessageId : messages'[m] = IF messages[m].status = "pending"
                                             THEN [messages[m] EXCEPT !.status = "cancelled"]
                                             ELSE messages[m]
    BY <1>6 DEF RecoverPreserving
  <2>2. \A g \in GenerationId : /\ generations'[g].assistant = generations[g].assistant
                                /\ generations'[g].status = RecoveredStatus(g)
    BY <1>6 DEF RecoverPreserving, TypeOK, Generation
  <2>3. \A m \in MessageId :
           /\ messages'[m].parent = messages[m].parent
           /\ messages[m].status # "absent" => messages'[m].status # "absent"
           /\ messages[m].status = "pending" => messages'[m].status = "cancelled"
    BY <1>6 DEF RecoverPreserving, TypeOK, Message
  <2>4. IdsInOrder'
    <3>1. ASSUME NEW g \in GenerationId, generations[g] = NoGeneration
          PROVE  generations'[g] = NoGeneration
      BY <2>1, <3>1 DEF RecoveredStatus, NoGeneration
    <3>2. ASSUME NEW g \in GenerationId, ~(g > generationCount)
          PROVE  /\ generations'[g].branch \in Branches
                 /\ generations'[g].user = 2 * g - 1
                 /\ generations'[g].assistant \in {None, 2 * g}
                 /\ generations'[g].status # "absent"
      BY <3>2, <1>1, <2>2 DEF RowInv, IdsInOrder, RecoveredStatus
    <3> QED BY <3>1, <3>2, <1>5, <2>1 DEF RowInv, IdsInOrder, Branches
  <2>5. ReferencesResolve'
    BY <1>1, <1>2, <2>1, <2>2, <2>3 DEF RowInv, ReferencesResolve, Exists
  <2>6. OutcomesAgree'
    <3> SUFFICES ASSUME NEW g \in GenerationId, generations'[g].status \in Terminal
                 PROVE  /\ generations'[g].assistant # None =>
                              messages'[generations'[g].assistant].status = generations'[g].status
                        /\ generations'[g].status = "complete" => generations'[g].assistant # None
      BY DEF OutcomesAgree
    <3>1. CASE generations[g].status = "running"
      BY <3>1, <1>2, <2>2, <2>3 DEF RowInv, RunningOwnsItsBranch, RecoveredStatus
    <3>2. CASE generations[g].status # "running"
      <4>1. generations[g].status \in Terminal /\ generations'[g].status = generations[g].status
        BY <3>2, <2>2 DEF RecoveredStatus
      <4>2. generations[g].assistant # None =>
               messages[generations[g].assistant].status = generations[g].status
        BY <4>1 DEF RowInv, OutcomesAgree
      <4>3. generations[g].status # "pending"
        BY <4>1 DEF Terminal
      <4> QED BY <4>1, <4>2, <4>3, <1>1, <1>2, <2>2 DEF RowInv, OutcomesAgree
    <3> QED BY <3>1, <3>2
  <2> QED BY <1>4, <2>4, <2>5, <2>6 DEF RowInv
<1>7. CASE RecoverDropping
  <2>1. \A m \in MessageId : m \in PendingAssistants <=> messages[m].status = "pending"
    BY DEF PendingAssistants, RowInv, RolesMatch
  <2>2. PendingAssistants \subseteq MessageId /\ None \notin PendingAssistants
    BY Domains DEF PendingAssistants, None
  <2>3. \A m \in MessageId : messages[m].status = "pending" => messages'[m] = NoMessage
    BY <1>7, <2>1 DEF RecoverDropping
  <2>4. \A g \in GenerationId :
           /\ generations'[g].assistant = IF generations[g].assistant \in PendingAssistants
                                          THEN None ELSE generations[g].assistant
           /\ generations'[g].status = RecoveredStatus(g)
    BY <1>7 DEF RecoverDropping
  <2>5. \A d \in BranchId : /\ branches'[d].fork = OffPending(branches[d].fork)
                            /\ branches'[d].head = OffPending(branches[d].head)
    BY <1>7 DEF RecoverDropping
  <2>6. \A m \in MessageId \cup {None} :
           OffPending(m) # None => /\ OffPending(m) \in MessageId
                                   /\ m # None /\ (Exists(m) => Exists(OffPending(m)))
                                   /\ messages[OffPending(m)].status # "pending"
    <3> SUFFICES ASSUME NEW m \in MessageId \cup {None}, OffPending(m) # None
                 PROVE  /\ OffPending(m) \in MessageId
                        /\ m # None /\ (Exists(m) => Exists(OffPending(m)))
                        /\ messages[OffPending(m)].status # "pending"
      OBVIOUS
    <3>1. CASE m \in PendingAssistants
      <4>1. OffPending(m) = messages[m].parent /\ m \in MessageId /\ m # None
        BY <3>1, <2>2 DEF OffPending
      <4> QED BY <4>1, <1>2 DEF RowInv, ReferencesResolve, NothingBuiltOnPending, Pending
    <3>2. CASE m \notin PendingAssistants
      BY <3>2, <2>1 DEF OffPending
    <3> QED BY <3>1, <3>2
  <2>7. \A m \in MessageId : Exists(m) /\ messages[m].status # "pending" =>
                                messages'[m].status # "absent"
    BY <1>1 DEF Exists
  <2>8. IdsInOrder'
    <3>1. ASSUME NEW d \in BranchId, branches[d] = NoBranch PROVE branches'[d] = NoBranch
      <4>1. OffPending(None) = None
        BY <2>2 DEF OffPending
      <4> QED BY <1>7, <3>1, <4>1 DEF RecoverDropping, NoBranch
    <3>2. ASSUME NEW g \in GenerationId, generations[g] = NoGeneration
          PROVE  generations'[g] = NoGeneration
      BY <1>7, <3>2, <2>2 DEF RecoverDropping, RecoveredStatus, NoGeneration
    <3>3. ASSUME NEW g \in GenerationId, ~(g > generationCount)
          PROVE  /\ generations'[g].branch \in Branches
                 /\ generations'[g].user = 2 * g - 1
                 /\ generations'[g].assistant \in {None, 2 * g}
                 /\ generations'[g].status # "absent"
      BY <3>3, <1>1, <2>4 DEF RowInv, IdsInOrder, RecoveredStatus
    <3> QED BY <3>1, <3>2, <3>3, <1>5 DEF RowInv, IdsInOrder, Branches
  <2>9. ReferencesResolve'
    <3>1. ASSUME NEW m \in MessageId, messages'[m].parent # None
          PROVE  messages'[m].parent < m /\ messages'[messages'[m].parent].status # "absent"
      <4>1. messages'[m] = messages[m]
        BY <3>1, <1>1, <2>3 DEF NoMessage
      <4> QED BY <3>1, <4>1, <1>2, <2>7
              DEF RowInv, ReferencesResolve, NothingBuiltOnPending, Pending
    <3>2. ASSUME NEW d \in BranchId
          PROVE  /\ branches'[d].head # None => messages'[branches'[d].head].status # "absent"
                 /\ branches'[d].fork # None => messages'[branches'[d].fork].status # "absent"
      BY <1>2, <2>5, <2>6, <2>7 DEF RowInv, ReferencesResolve
    <3>3. ASSUME NEW g \in GenerationId
          PROVE  /\ generations'[g].user # None => messages'[generations'[g].user].status # "absent"
                 /\ generations'[g].assistant # None =>
                       messages'[generations'[g].assistant].status # "absent"
      <4>1. generations[g].user # None => messages[generations[g].user].status # "pending"
        <5>1. ASSUME NEW k \in GenerationId, generations[k].status = "running"
              PROVE  generations[g].user # generations[k].assistant
          BY <5>1, AssistantIsOwned
        <5> QED BY <5>1, <1>2 DEF PendingHasATask, Pending
      <4> QED BY <4>1, <1>1, <1>2, <2>1, <2>4, <2>7 DEF RowInv, ReferencesResolve
    <3> QED BY <3>1, <3>2, <3>3 DEF ReferencesResolve, Exists
  <2>10. OutcomesAgree'
    <3> SUFFICES ASSUME NEW g \in GenerationId, generations'[g].status \in Terminal
                 PROVE  /\ generations'[g].assistant # None =>
                              messages'[generations'[g].assistant].status = generations'[g].status
                        /\ generations'[g].status = "complete" => generations'[g].assistant # None
      BY DEF OutcomesAgree
    <3>1. CASE generations[g].status = "running"
      BY <3>1, <1>2, <2>1, <2>4 DEF RowInv, RunningOwnsItsBranch, RecoveredStatus
    <3>2. CASE generations[g].status # "running"
      <4>1. generations[g].status \in Terminal /\ generations'[g].status = generations[g].status
        BY <3>2, <2>4 DEF RecoveredStatus
      <4>2. /\ generations[g].assistant # None =>
                  messages[generations[g].assistant].status = generations[g].status
            /\ generations[g].status = "complete" => generations[g].assistant # None
        BY <4>1 DEF RowInv, OutcomesAgree
      <4>3. generations[g].status # "pending"
        BY <4>1 DEF Terminal
      <4>4. generations'[g].assistant = generations[g].assistant
        BY <4>2, <4>3, <2>1, <2>2, <2>4
      <4> QED BY <4>1, <4>2, <4>3, <4>4, <1>1, <1>2
    <3> QED BY <3>1, <3>2
  <2> QED BY <1>4, <2>8, <2>9, <2>10 DEF RowInv
<1> QED BY <1>6, <1>7

-----------------------------------------------------------------------------
(* The inductive invariant, in the parts the proofs use. *)
LEMMA IndInvParts ==
    IndInv <=> TypeOK /\ RowInv /\ RequestsNameBranches /\ TasksAreRunning /\ PendingHasATask
BY DEF IndInv, RowInv

(* A fresh room has the invariant. *)
LEMMA IndInvInit == Init => IndInv
<1> SUFFICES ASSUME Init PROVE IndInv
  OBVIOUS
<1>1. TypeOK
  BY TypeOKInit
<1>2. /\ \A m \in MessageId : messages[m] = NoMessage
      /\ \A b \in BranchId : branches[b] = NoBranch
      /\ \A g \in GenerationId : generations[g] = NoGeneration /\ tasks[g] = NoTask
      /\ \A c \in Clients : requests[c] = Idle
  BY DEF Init
<1>3. RowInv
  <2>1. IdsInOrder
    BY <1>2, Domains DEF IdsInOrder, Init
  <2>2. RolesMatch /\ ReferencesResolve
    BY <1>2 DEF RolesMatch, ReferencesResolve, NoMessage, NoBranch, NoGeneration
  <2>3. RunningOwnsItsBranch /\ NothingBuiltOnPending /\ OutcomesAgree
    BY <1>2 DEF RunningOwnsItsBranch, NothingBuiltOnPending, OutcomesAgree, Terminal,
                NoMessage, NoBranch, NoGeneration, Pending
  <2> QED BY <2>1, <2>2, <2>3 DEF RowInv
<1>4. RequestsNameBranches /\ TasksAreRunning /\ PendingHasATask
  BY <1>2 DEF RequestsNameBranches, TasksAreRunning, PendingHasATask, Idle, NoTask,
              Live, Pending, NoMessage
<1> QED BY <1>1, <1>3, <1>4, IndInvParts

(* Where an edit or a regeneration forks, there is a finished row or none. *)
LEMMA ForkReady ==
    ASSUME TypeOK, RowInv, NEW kind, NEW target \in MessageId,
           ActionAllowed(kind, target), ActionFork(kind, target) # None
    PROVE  /\ ActionFork(kind, target) \in MessageId
           /\ Exists(ActionFork(kind, target))
           /\ ~Pending(ActionFork(kind, target))
<1>1. \A m \in MessageId : messages[m].parent # None =>
         /\ messages[m].parent \in MessageId
         /\ Exists(messages[m].parent) /\ ~Pending(messages[m].parent)
  BY DEF RowInv, ReferencesResolve, NothingBuiltOnPending, TypeOK, Message
<1>2. CASE kind = "edit"
  BY <1>1, <1>2 DEF ActionFork, EditFork
<1>3. CASE kind # "edit"
  <2>1. messages[target].parent # None
    BY <1>3 DEF ActionAllowed
  <2> QED BY <1>1, <1>3, <2>1 DEF ActionFork, RegenerateFork
<1> QED BY <1>2, <1>3

(* Steps of clients. *)
LEMMA ClientStepRowInv ==
    ASSUME IndInv, NEW c \in Clients, ClientStep(c)
    PROVE  RowInv' /\ RequestsNameBranches' /\ TasksAreRunning' /\ PendingHasATask'
<1> USE IndInvParts
<1>1. ASSUME NEW b \in Branches, NEW expected \in 0..(2 * generationCount),
             NEW text \in Texts, BeginSend(c, b, expected, text)
      PROVE  RowInv' /\ RequestsNameBranches' /\ TasksAreRunning' /\ PendingHasATask'
  <2>1. RowInv'
    BY <1>1, RowFrame DEF BeginSend, Rows
  <2>2. RequestsNameBranches'
    BY <1>1 DEF BeginSend, RequestsNameBranches, TypeOK, Branches
  <2>3. TasksAreRunning' /\ PendingHasATask'
    BY <1>1 DEF BeginSend, TasksAreRunning, PendingHasATask, Live, Pending
  <2> QED BY <2>1, <2>2, <2>3
<1>2. ASSUME NEW kind \in {"edit", "regenerate"}, NEW b \in Branches,
             NEW target \in 1..(2 * generationCount), NEW text \in Texts,
             BeginAction(c, kind, b, target, text)
      PROVE  RowInv' /\ RequestsNameBranches' /\ TasksAreRunning' /\ PendingHasATask'
  <2>1. RowInv'
    BY <1>2, RowFrame DEF BeginAction, Rows
  <2>2. RequestsNameBranches'
    <3>1. target # None
      BY BoundsAssumption DEF TypeOK, None
    <3> QED BY <1>2, <3>1 DEF BeginAction, RequestsNameBranches, TypeOK, Branches
  <2>3. TasksAreRunning' /\ PendingHasATask'
    BY <1>2 DEF BeginAction, TasksAreRunning, PendingHasATask, Live, Pending
  <2> QED BY <2>1, <2>2, <2>3
<1>3. CASE AppendRefused(c)
  <2>1. RowInv'
    BY <1>3, RowFrame DEF AppendRefused, Rows
  <2>2. RequestsNameBranches'
    BY <1>3 DEF AppendRefused, RequestsNameBranches, TypeOK, Branches, Idle
  <2>3. TasksAreRunning' /\ PendingHasATask'
    BY <1>3 DEF AppendRefused, TasksAreRunning, PendingHasATask, Live, Pending
  <2> QED BY <2>1, <2>2, <2>3
<1>4. ASSUME NEW b \in BranchId, InsertGeneration(requests[c], b), up, UNCHANGED up,
             requests' = [requests EXCEPT ![c] = Idle], Branches \subseteq Branches'
      PROVE  RequestsNameBranches' /\ TasksAreRunning' /\ PendingHasATask'
  <2>1. /\ NewUser \in MessageId /\ NewAssistant \in MessageId
        /\ NewGeneration \in GenerationId
    BY <1>4, NewIds DEF InsertGeneration, TypeOK
  <2>2. RequestsNameBranches'
    BY <1>4 DEF RequestsNameBranches, TypeOK, Idle
  <2>3. /\ generations'[NewGeneration].status = "running"
        /\ generations'[NewGeneration].assistant = NewAssistant
        /\ tasks'[NewGeneration].phase = "streaming"
        /\ \A g \in GenerationId : g # NewGeneration =>
              generations'[g] = generations[g] /\ tasks'[g] = tasks[g]
        /\ \A m \in MessageId : m # NewAssistant /\ messages'[m].status = "pending" =>
              messages[m].status = "pending"
    BY <1>4, <2>1 DEF InsertGeneration, TypeOK
  <2>4. TasksAreRunning'
    BY <1>4, <2>3 DEF TasksAreRunning, Live
  <2>5. generations[NewGeneration].status # "running"
    <3>1. NewGeneration > generationCount
      BY BoundsAssumption DEF NewGeneration, TypeOK
    <3> QED BY <2>1, <3>1 DEF RowInv, IdsInOrder, NoGeneration
  <2>6. PendingHasATask'
    <3> SUFFICES ASSUME NEW m \in MessageId, messages'[m].status = "pending"
                 PROVE  \E g \in GenerationId :
                           /\ generations'[g].status = "running"
                           /\ generations'[g].assistant = m
                           /\ up' => tasks'[g].phase # "none"
      BY DEF PendingHasATask, Pending
    <3>1. CASE m = NewAssistant
      BY <3>1, <2>1, <2>3
    <3>2. CASE m # NewAssistant
      <4>1. Pending(m)
        BY <3>2, <2>3, Domains DEF Pending, None
      <4>2. PICK g \in GenerationId : /\ generations[g].status = "running"
                                     /\ generations[g].assistant = m
                                     /\ tasks[g].phase # "none"
        BY <1>4, <4>1 DEF PendingHasATask
      <4>3. g # NewGeneration
        BY <4>2, <2>5
      <4>4. generations'[g] = generations[g] /\ tasks'[g] = tasks[g]
        BY <4>3, <2>3
      <4> QED BY <1>4, <4>2, <4>4
    <3> QED BY <3>1, <3>2
  <2> QED BY <2>2, <2>4, <2>6
<1>5. CASE AppendGeneration(c)
  <2> DEFINE b == requests[c].branch
  <2>1. /\ requests[c] \in Request /\ b \in Branches /\ b \in BranchId
        /\ InsertGeneration(requests[c], b)
    BY <1>5, BoundsAssumption
    DEF AppendGeneration, RequestsNameBranches, Branches, BranchId, TypeOK
  <2>2. /\ branches'[b].head = NewAssistant
        /\ branches'[b].fork = branches[b].fork
        /\ \A d \in BranchId : d # b => branches'[d] = branches[d]
    BY <1>5, <2>1 DEF AppendGeneration, MoveHead, TypeOK, Branch
  <2>3. NewAssistant \in MessageId
    BY <2>1, NewIds DEF InsertGeneration, TypeOK
  <2>4. branches' \in [BranchId -> Branch]
    BY <1>5, <2>3 DEF AppendGeneration, MoveHead, TypeOK, Branch
  <2>5. /\ requests[c].fork = requests[c].expected
        /\ branches[b].head = requests[c].fork
    BY <1>5 DEF AppendGeneration, RequestsNameBranches, HeadMatches
  <2>6. requests[c].fork # None => Exists(requests[c].fork) /\ ~Pending(requests[c].fork)
    BY <1>5, <2>5 DEF AppendGeneration, HeadReady
  <2>7. ~Pending(branches[b].head)
    BY <2>5, <2>6 DEF Pending
  <2>8. /\ branchCount' \in 1..MaxBranches
        /\ branchCount <= branchCount'
        /\ b \in 1..branchCount'
    BY <1>5, <2>1, BoundsAssumption DEF AppendGeneration, Branches, TypeOK
  <2>9. RowInv'
    BY <2>1, <2>2, <2>4, <2>6, <2>7, <2>8, InsertRowInv
  <2> QED BY <1>4, <1>5, <2>1, <2>9 DEF AppendGeneration, Branches
<1>6. CASE AppendAction(c)
  <2> DEFINE r == requests[c]
             b == branchCount + 1
  <2>1. /\ r \in Request /\ b \in BranchId /\ InsertGeneration(r, b)
    BY <1>6, BoundsAssumption DEF AppendAction, BranchId, TypeOK
  <2>2. NewAssistant \in MessageId
    BY <2>1, NewIds DEF InsertGeneration, TypeOK
  <2>3. /\ branches'[b].head = NewAssistant
        /\ branches'[b].fork = r.fork
        /\ \A d \in BranchId : d # b => branches'[d] = branches[d]
    BY <1>6, <2>1 DEF AppendAction, TypeOK
  <2>4. branches' \in [BranchId -> Branch]
    <3>1. [fork |-> r.fork, head |-> NewAssistant] \in Branch
      BY <2>1, <2>2 DEF Request, Branch
    <3> QED BY <1>6, <3>1 DEF AppendAction, TypeOK
  <2>5. r.target \in MessageId /\ r.target # None
    <3>1. r.target \in MessageId \cup {None}
      BY <2>1 DEF Request
    <3>2. r.target # None
      BY <1>6 DEF AppendAction, RequestsNameBranches
    <3> QED BY <3>1, <3>2
  <2>6. r.fork # None => Exists(r.fork) /\ ~Pending(r.fork)
    <3>1. ActionAllowed(r.kind, r.target) /\ r.fork = ActionFork(r.kind, r.target)
      BY <1>6 DEF AppendAction
    <3> QED BY <2>5, <3>1, ForkReady
  <2>7. /\ branchCount' \in 1..MaxBranches
        /\ branchCount <= branchCount'
        /\ b \in 1..branchCount'
        /\ b \notin Branches
    BY <1>6, BoundsAssumption DEF AppendAction, Branches, TypeOK
  <2>8. RowInv'
    BY <2>1, <2>3, <2>4, <2>6, <2>7, InsertRowInv
  <2>9. Branches \subseteq Branches'
    BY <2>7, BoundsAssumption DEF Branches, TypeOK
  <2> QED BY <1>4, <1>6, <2>1, <2>8, <2>9 DEF AppendAction
<1> QED BY <1>1, <1>2, <1>3, <1>5, <1>6 DEF ClientStep

(* Steps that touch branches and settings only. *)
LEMMA RoomStepRowInv ==
    ASSUME IndInv, RoomStep
    PROVE  RowInv' /\ RequestsNameBranches' /\ TasksAreRunning' /\ PendingHasATask'
<1> USE IndInvParts
<1>1. ASSUME UNCHANGED <<messages, generations, requests, tasks, up>>,
             branchCount' \in Nat, branchCount <= branchCount'
      PROVE  RequestsNameBranches' /\ TasksAreRunning' /\ PendingHasATask'
  <2>1. Branches \subseteq Branches'
    BY <1>1, BoundsAssumption DEF Branches, TypeOK
  <2>2. RequestsNameBranches'
    BY <1>1, <2>1 DEF RequestsNameBranches
  <2>3. TasksAreRunning' /\ PendingHasATask'
    BY <1>1 DEF TasksAreRunning, PendingHasATask, Live, Pending
  <2> QED BY <2>2, <2>3
<1>2. branchCount \in Nat /\ branchCount <= branchCount
  BY BoundsAssumption DEF TypeOK
<1>3. ASSUME NEW b \in Branches, NEW target \in 1..(2 * generationCount),
             RemoveMessage(b, target)
      PROVE  RowInv' /\ RequestsNameBranches' /\ TasksAreRunning' /\ PendingHasATask'
  <2> DEFINE h == messages[target].parent
  <2>1. target \in MessageId /\ b \in BranchId /\ b \in 1..branchCount
    BY BoundsAssumption DEF TypeOK, MessageId, BranchId, Branches
  <2>2. h \in MessageId \cup {None}
    BY <2>1 DEF TypeOK, Message
  <2>3. /\ branches' = MoveHead(b, h)
        /\ h # None => Exists(h) /\ ~Pending(h)
        /\ ~Pending(branches[b].head)
        /\ UNCHANGED <<messages, branchCount, generations, generationCount, requests,
                       tasks, up>>
    BY <1>3 DEF RemoveMessage, ActionTarget
  <2>4. branches' \in [BranchId -> Branch]
    BY <2>2, <2>3 DEF MoveHead, TypeOK, Branch
  <2>5. /\ branches'[b].head = h
        /\ branches'[b].fork = branches[b].fork
        /\ \A d \in BranchId : d # b => branches'[d] = branches[d]
    BY <2>1, <2>3 DEF MoveHead, TypeOK, Branch
  <2>6. branchCount' \in 1..MaxBranches /\ branchCount <= branchCount' /\ b \in 1..branchCount'
    BY <2>1, <2>3, <1>2 DEF TypeOK
  <2> HIDE DEF h
  <2>7. RowInv'
    BY <2>1, <2>2, <2>3, <2>4, <2>5, <2>6, BranchRowInv
  <2> QED BY <2>3, <2>6, <2>7, <1>1, <1>2
<1>4. ASSUME NEW from \in 0..(2 * generationCount), CreateBranch(from)
      PROVE  RowInv' /\ RequestsNameBranches' /\ TasksAreRunning' /\ PendingHasATask'
  <2> DEFINE b == branchCount + 1
  <2>1. /\ from \in MessageId \cup {None} /\ b \in BranchId
        /\ b > branchCount
        /\ branchCount' = b /\ branchCount' \in 1..MaxBranches /\ branchCount <= branchCount'
        /\ b \in 1..branchCount' /\ branchCount' \in Nat
    BY <1>4, BoundsAssumption DEF CreateBranch, TypeOK, MessageId, BranchId, None
  <2>2. [fork |-> from, head |-> from] \in Branch
    BY <2>1 DEF Branch
  <2>3. /\ branches' \in [BranchId -> Branch]
        /\ branches'[b].head = from
        /\ branches'[b].fork = from
        /\ \A d \in BranchId : d # b => branches'[d] = branches[d]
    BY <1>4, <2>1, <2>2 DEF CreateBranch, TypeOK
  <2>4. /\ from # None => Exists(from) /\ ~Pending(from)
        /\ UNCHANGED <<messages, generations, generationCount, requests, tasks, up>>
    BY <1>4 DEF CreateBranch
  <2>5. ~Pending(branches[b].head)
    BY <2>1 DEF RowInv, IdsInOrder, NoBranch, Pending
  <2> HIDE DEF b
  <2>6. RowInv'
    BY <2>1, <2>3, <2>4, <2>5, BranchRowInv
  <2> QED BY <2>1, <2>4, <2>6, <1>1
<1>5. ASSUME NEW b \in BranchId, SelectBranch(b)
      PROVE  RowInv' /\ RequestsNameBranches' /\ TasksAreRunning' /\ PendingHasATask'
  <2>1. RowInv'
    BY <1>5, RowFrame DEF SelectBranch, Rows
  <2> QED BY <1>1, <1>2, <1>5, <2>1 DEF SelectBranch
<1>6. ASSUME NEW value \in BOOLEAN, SaveSettings(value)
      PROVE  RowInv' /\ RequestsNameBranches' /\ TasksAreRunning' /\ PendingHasATask'
  <2>1. RowInv'
    BY <1>6, RowFrame DEF SaveSettings, Rows
  <2> QED BY <1>1, <1>2, <1>6, <2>1 DEF SaveSettings
<1> QED BY <1>3, <1>4, <1>5, <1>6 DEF RoomStep

(* A generation that ends makes its own row terminal or absent and leaves  *)
(* every other row, generation and task as it was.                         *)
LEMMA EndStep ==
    ASSUME IndInv, NEW g \in GenerationId, generations[g].status = "running",
           NEW status \in Terminal,
           KeepAssistant(g, status) \/ DropAssistant(g, status),
           DropAssistant(g, status) /\ ~KeepAssistant(g, status) => status # "complete",
           tasks' = [tasks EXCEPT ![g] = Over],
           UNCHANGED <<branchCount, generationCount, requests, up>>,
           up
    PROVE  RowInv' /\ RequestsNameBranches' /\ TasksAreRunning' /\ PendingHasATask'
<1> USE IndInvParts
<1>1. RowInv'
  <2>1. CASE KeepAssistant(g, status)
    BY <2>1, KeepRowInv
  <2>2. CASE DropAssistant(g, status) /\ ~KeepAssistant(g, status)
    BY <2>2, DropRowInv
  <2> QED BY <2>1, <2>2
<1>2. RequestsNameBranches'
  BY DEF RequestsNameBranches, Branches
<1>3. generations[g].assistant \in MessageId
  BY AssistantIsOwned
<1>4. /\ \A k \in GenerationId : k # g => generations'[k] = generations[k]
      /\ \A k \in GenerationId : k # g => tasks'[k] = tasks[k]
      /\ tasks'[g] = Over
      /\ messages'[generations[g].assistant].status # "pending"
      /\ \A m \in MessageId : m # generations[g].assistant => messages'[m] = messages[m]
  <2>1. /\ \A k \in GenerationId : k # g => tasks'[k] = tasks[k]
        /\ tasks'[g] = Over
    BY DEF TypeOK
  <2>2. CASE KeepAssistant(g, status)
    BY <2>1, <2>2, <1>3 DEF KeepAssistant, TypeOK, Terminal, Message
  <2>3. CASE DropAssistant(g, status)
    BY <2>1, <2>3, <1>3 DEF DropAssistant, NoMessage, TypeOK
  <2> QED BY <2>2, <2>3
<1>5. TasksAreRunning'
  <2>1. ASSUME NEW k \in GenerationId, tasks'[k].phase \in {"streaming", "compensating"}
        PROVE  generations'[k].status = "running"
    BY <2>1, <1>4 DEF TasksAreRunning, Live, Over
  <2> QED BY <2>1 DEF TasksAreRunning, Live
<1>6. PendingHasATask'
  <2> SUFFICES ASSUME NEW m \in MessageId, messages'[m].status = "pending"
               PROVE  \E k \in GenerationId :
                         /\ generations'[k].status = "running"
                         /\ generations'[k].assistant = m
                         /\ up' => tasks'[k].phase # "none"
    BY DEF PendingHasATask, Pending
  <2>1. m # generations[g].assistant /\ messages'[m] = messages[m]
    BY <1>4
  <2>2. Pending(m)
    BY <2>1, Domains DEF Pending, None
  <2>3. PICK k \in GenerationId : /\ generations[k].status = "running"
                                 /\ generations[k].assistant = m
                                 /\ tasks[k].phase # "none"
    BY <2>2 DEF PendingHasATask
  <2>4. generations'[k] = generations[k] /\ tasks'[k] = tasks[k]
    BY <1>4, <2>1, <2>3
  <2> QED BY <2>3, <2>4
<1> QED BY <1>1, <1>2, <1>5, <1>6

(* Steps of generation tasks. *)
LEMMA TaskStepRowInv ==
    ASSUME IndInv, NEW g \in GenerationId, TaskStep(g)
    PROVE  RowInv' /\ RequestsNameBranches' /\ TasksAreRunning' /\ PendingHasATask'
<1> USE IndInvParts
<1>1. up
  <2>1. tasks[g].phase \in {"streaming", "compensating"}
    BY DEF TaskStep, Stream, CheckpointPendingAssistant, FinalizeGeneration,
           FinalizeFails, CompensateGeneration, CompensationFails
  <2> QED BY <2>1 DEF TasksAreRunning, NoTask
<1>2. ASSUME UNCHANGED <<messages, branches, branchCount, generations, generationCount,
                         requests, up>>,
             NEW t, tasks' = [tasks EXCEPT ![g] = t], t.phase # "none",
             t.phase \in {"streaming", "compensating"} => generations[g].status = "running"
      PROVE  RowInv' /\ RequestsNameBranches' /\ TasksAreRunning' /\ PendingHasATask'
  <2>1. RowInv'
    BY <1>2, RowFrame DEF Rows
  <2>2. RequestsNameBranches'
    BY <1>2 DEF RequestsNameBranches, Branches
  <2>3. tasks'[g] = t /\ \A k \in GenerationId : k # g => tasks'[k] = tasks[k]
    BY <1>2 DEF TypeOK
  <2>4. TasksAreRunning'
    <3>1. ASSUME NEW k \in GenerationId, tasks'[k].phase \in {"streaming", "compensating"}
          PROVE  generations'[k].status = "running"
      BY <3>1, <1>2, <2>3 DEF TasksAreRunning, Live
    <3> QED BY <1>1, <1>2, <3>1 DEF TasksAreRunning, Live
  <2>5. PendingHasATask'
    <3>1. \A k \in GenerationId : tasks[k].phase # "none" => tasks'[k].phase # "none"
      BY <1>2, <2>3
    <3> QED BY <1>1, <1>2, <3>1 DEF PendingHasATask, Pending
  <2> QED BY <2>1, <2>2, <2>4, <2>5
<1>3. tasks[g].phase = "streaming" => generations[g].status = "running"
  BY DEF TasksAreRunning, Live
<1>4. CASE Stream(g)
  <2>1. /\ tasks' = [tasks EXCEPT ![g] = [tasks[g] EXCEPT !.streamed = @ + 1]]
        /\ [tasks[g] EXCEPT !.streamed = @ + 1].phase = "streaming"
    BY <1>4 DEF Stream, TypeOK, Task
  <2> QED BY <1>2, <1>3, <1>4, <2>1 DEF Stream
<1>5. CASE CheckpointPendingAssistant(g)
  <2>1. RowInv'
    BY <1>5, CheckpointRowInv
  <2>2. RequestsNameBranches' /\ TasksAreRunning'
    BY <1>5 DEF CheckpointPendingAssistant, RequestsNameBranches, TasksAreRunning,
                Branches, Live
  <2>3. \A m \in MessageId : messages'[m].status = messages[m].status
    BY <1>5 DEF CheckpointPendingAssistant, TypeOK, Message
  <2>4. PendingHasATask'
    BY <1>5, <2>3 DEF CheckpointPendingAssistant, PendingHasATask, Pending
  <2> QED BY <2>1, <2>2, <2>4
<1>6. ASSUME NEW status \in Terminal, FinalizeGeneration(g, status)
      PROVE  RowInv' /\ RequestsNameBranches' /\ TasksAreRunning' /\ PendingHasATask'
  <2>1. KeepAssistant(g, status) \/ DropAssistant(g, status)
    BY <1>6 DEF FinalizeGeneration
  <2>2. DropAssistant(g, status) /\ ~KeepAssistant(g, status) => status # "complete"
    BY <1>6 DEF FinalizeGeneration, Keep
  <2> QED BY <1>1, <1>6, <2>1, <2>2, EndStep DEF FinalizeGeneration
<1>7. ASSUME NEW status \in Terminal, FinalizeFails(g, status)
      PROVE  RowInv' /\ RequestsNameBranches' /\ TasksAreRunning' /\ PendingHasATask'
  <2> DEFINE t == [tasks[g] EXCEPT !.phase = "compensating", !.status = status]
  <2>1. tasks' = [tasks EXCEPT ![g] = t] /\ t.phase = "compensating"
    BY <1>7 DEF FinalizeFails, TypeOK, Task
  <2> HIDE DEF t
  <2> QED BY <1>2, <1>3, <1>7, <2>1 DEF FinalizeFails
<1>8. CASE CompensateGeneration(g)
  <2>1. KeepAssistant(g, "failed") \/ DropAssistant(g, "failed")
    BY <1>8 DEF CompensateGeneration
  <2>2. "failed" \in Terminal
    BY DEF Terminal
  <2> QED BY <1>1, <1>8, <2>1, <2>2, EndStep DEF CompensateGeneration
<1>9. CASE CompensationFails(g)
  <2>1. Over.phase = "over"
    BY DEF Over
  <2> QED BY <1>2, <1>9, <2>1 DEF CompensationFails
<1> QED BY <1>4, <1>5, <1>6, <1>7, <1>8, <1>9 DEF TaskStep

(* Every step keeps the invariant. *)
LEMMA IndInvNext == IndInv /\ [Next]_vars => IndInv'
<1> SUFFICES ASSUME IndInv, [Next]_vars PROVE IndInv'
  OBVIOUS
<1>1. TypeOK'
  BY TypeOKNext, IndInvParts
<1>2. RowInv' /\ RequestsNameBranches' /\ TasksAreRunning' /\ PendingHasATask'
  <2>1. CASE \E c \in Clients : ClientStep(c)
    BY <2>1, ClientStepRowInv
  <2>2. CASE RoomStep
    BY <2>2, RoomStepRowInv
  <2>3. CASE \E g \in GenerationId : TaskStep(g)
    BY <2>3, TaskStepRowInv
  <2>4. CASE Crash
    <3>1. RowInv'
      BY <2>4, IndInvParts, RowFrame DEF Crash, store, Rows
    <3>2. RequestsNameBranches'
      BY <2>4 DEF Crash, RequestsNameBranches, Idle
    <3>3. TasksAreRunning'
      BY <2>4 DEF Crash, TasksAreRunning, NoTask, Live
    <3>4. PendingHasATask'
      BY <2>4, IndInvParts DEF Crash, store, PendingHasATask, Pending
    <3> QED BY <3>1, <3>2, <3>3, <3>4
  <2>5. CASE Recover
    <3>1. /\ RecoverPreserving \/ RecoverDropping
          /\ UNCHANGED <<branchCount, generationCount, requests, tasks>>
          /\ ~up /\ up'
      BY <2>5 DEF Recover
    <3>2. RowInv'
      BY <3>1, IndInvParts, RecoverRowInv
    <3>3. RequestsNameBranches'
      BY <3>1, IndInvParts DEF RequestsNameBranches, Branches
    <3>4. TasksAreRunning'
      BY <3>1, IndInvParts DEF TasksAreRunning, NoTask, Live
    <3>5. PendingHasATask'
      <4>1. \A m \in MessageId : ~PendingNext(m)
        BY <3>1, IndInvParts, RecoverFacts
      <4> QED BY <4>1 DEF PendingHasATask, Pending, PendingNext
    <3> QED BY <3>2, <3>3, <3>4, <3>5
  <2>6. CASE UNCHANGED vars
    <3>1. RowInv'
      BY <2>6, IndInvParts, RowFrame DEF vars, Rows
    <3> QED BY <2>6, <3>1, IndInvParts
            DEF vars, RequestsNameBranches, Branches, TasksAreRunning, Live,
                PendingHasATask, Pending
  <2> QED BY <2>1, <2>2, <2>3, <2>4, <2>5, <2>6 DEF Next
<1>3. (TypeOK /\ RowInv /\ RequestsNameBranches /\ TasksAreRunning /\ PendingHasATask)'
  BY <1>1, <1>2
<1> QED BY <1>3 DEF IndInv, RowInv

-----------------------------------------------------------------------------
(* One step leaves every finished message as it is: an insert uses ids     *)
(* that were free, and every update or delete is of a pending row.         *)
LEMMA HistoryStep ==
    ASSUME IndInv, [Next]_vars, NEW m \in MessageId, messages[m].status \in Terminal
    PROVE  messages'[m] = messages[m]
<1> USE IndInvParts
<1>1. messages[m].status # "pending" /\ messages[m] # NoMessage
  BY DEF Terminal, NoMessage
<1>2. ASSUME NEW r, NEW b, InsertGeneration(r, b) PROVE messages'[m] = messages[m]
  <2>1. generationCount \in 0..MaxGenerations /\ generationCount < MaxGenerations
    BY <1>2 DEF InsertGeneration, TypeOK
  <2>2. NewUser > 2 * generationCount /\ NewAssistant > 2 * generationCount
    BY <2>1, BoundsAssumption DEF NewUser, NewAssistant
  <2>3. m # NewUser /\ m # NewAssistant
    BY <1>1, <2>2 DEF RowInv, IdsInOrder
  <2> QED BY <1>2, <2>3 DEF InsertGeneration, TypeOK
<1>3. ASSUME NEW c \in Clients, ClientStep(c) PROVE messages'[m] = messages[m]
  <2>1. CASE AppendGeneration(c)
    BY <1>2, <2>1 DEF AppendGeneration
  <2>2. CASE AppendAction(c)
    BY <1>2, <2>2 DEF AppendAction
  <2> QED BY <1>3, <2>1, <2>2 DEF ClientStep, BeginSend, BeginAction, AppendRefused
<1>4. CASE RoomStep
  BY <1>4 DEF RoomStep, RemoveMessage, CreateBranch, SelectBranch, SaveSettings
<1>5. ASSUME NEW g \in GenerationId, TaskStep(g) PROVE messages'[m] = messages[m]
  <2>1. CASE CheckpointPendingAssistant(g)
    BY <1>1, <2>1 DEF CheckpointPendingAssistant, Pending, TypeOK
  <2>2. ASSUME NEW status, KeepAssistant(g, status) PROVE messages'[m] = messages[m]
    BY <1>1, <2>2 DEF KeepAssistant, Pending, TypeOK
  <2>3. ASSUME NEW status, generations[g].status = "running", DropAssistant(g, status)
        PROVE  messages'[m] = messages[m]
    <3>1. m # generations[g].assistant
      BY <1>1, <2>3, AssistantIsOwned DEF Pending
    <3> QED BY <2>3, <3>1 DEF DropAssistant, TypeOK
  <2>4. ASSUME NEW status \in Terminal, FinalizeGeneration(g, status)
        PROVE  messages'[m] = messages[m]
    BY <2>2, <2>3, <2>4 DEF FinalizeGeneration
  <2>5. CASE CompensateGeneration(g)
    BY <2>2, <2>3, <2>5 DEF CompensateGeneration
  <2> QED BY <1>5, <2>1, <2>4, <2>5
          DEF TaskStep, Stream, FinalizeFails, CompensationFails
<1>6. CASE Recover
  BY <1>1, <1>6, RecoverFacts DEF Recover
<1>7. CASE Crash \/ UNCHANGED vars
  BY <1>7 DEF Crash, store, vars
<1> QED BY <1>3, <1>4, <1>5, <1>6, <1>7 DEF Next

(* While the process runs, one step moves the head of one branch, or none. *)
LEMMA OneHeadStep ==
    ASSUME IndInv, [Next]_vars, up,
           NEW b \in BranchId, NEW d \in BranchId,
           b \in Branches, d \in Branches,
           branches'[b] # branches[b], branches'[d] # branches[d]
    PROVE  b = d
<1> USE IndInvParts
<1>1. ASSUME NEW e, NEW h, branches' = MoveHead(e, h) PROVE b = d
  BY <1>1 DEF MoveHead, TypeOK
<1>2. ASSUME NEW t, branches' = [branches EXCEPT ![branchCount + 1] = t] PROVE b = d
  <2>1. b # branchCount + 1
    BY BoundsAssumption DEF Branches, TypeOK
  <2> QED BY <1>2, <2>1 DEF TypeOK
<1>3. ASSUME NEW c \in Clients, ClientStep(c) PROVE b = d
  <2>1. CASE AppendGeneration(c)
    BY <1>1, <2>1 DEF AppendGeneration
  <2>2. CASE AppendAction(c)
    BY <1>2, <2>2 DEF AppendAction
  <2> QED BY <1>3, <2>1, <2>2 DEF ClientStep, BeginSend, BeginAction, AppendRefused
<1>4. CASE RoomStep
  <2>1. ASSUME NEW e \in Branches, NEW target \in 1..(2 * generationCount),
               RemoveMessage(e, target)
        PROVE  b = d
    BY <1>1, <2>1 DEF RemoveMessage
  <2>2. ASSUME NEW from \in 0..(2 * generationCount), CreateBranch(from) PROVE b = d
    BY <1>2, <2>2 DEF CreateBranch
  <2> QED BY <1>4, <2>1, <2>2 DEF RoomStep, SelectBranch, SaveSettings
<1>5. ASSUME NEW g \in GenerationId, TaskStep(g) PROVE b = d
  <2>1. ASSUME NEW status, KeepAssistant(g, status) PROVE b = d
    BY <2>1 DEF KeepAssistant
  <2>2. ASSUME NEW status, DropAssistant(g, status) PROVE b = d
    BY <1>1, <2>2 DEF DropAssistant
  <2>3. ASSUME NEW status \in Terminal, FinalizeGeneration(g, status) PROVE b = d
    BY <2>1, <2>2, <2>3 DEF FinalizeGeneration
  <2>4. CASE CompensateGeneration(g)
    BY <2>1, <2>2, <2>4 DEF CompensateGeneration
  <2> QED BY <1>5, <2>3, <2>4
          DEF TaskStep, Stream, CheckpointPendingAssistant, FinalizeFails, CompensationFails
<1>6. CASE Crash \/ Recover \/ UNCHANGED vars
  BY <1>6 DEF Crash, Recover, store, vars
<1> QED BY <1>3, <1>4, <1>5, <1>6 DEF Next

-----------------------------------------------------------------------------
(* A non-empty set of natural numbers has a least member.  With it an      *)
(* induction is a statement about a set, which the provers can use.        *)
LEMMA LeastNumber ==
    ASSUME NEW T, T \subseteq Nat, T # {}
    PROVE  \E x \in T : \A y \in T : x <= y
<1> DEFINE R == OpToRel(<, Nat)
<1>1. IsWellFoundedOn(R, Nat)
  BY NatLessThanWellFounded
<1> HIDE DEF R
<1>2. \E x \in T : \A y \in T : ~ (<<y, x>> \in R)
  BY <1>1, WFMin
<1>3. \A x, y \in Nat : y < x => <<y, x>> \in R
  BY DEF R, OpToRel
<1>4. PICK x \in T : \A y \in T : ~ (<<y, x>> \in R)
  BY <1>2
<1>5. ASSUME NEW y \in T PROVE x <= y
  <2>1. x \in Nat /\ y \in Nat /\ ~ (<<y, x>> \in R)
    BY <1>4
  <2>2. ~ (y < x)
    BY <2>1, <1>3
  <2> QED
    BY <2>1, <2>2
<1> QED
  BY <1>5

(* Induction over the natural numbers, for a set instead of a predicate.   *)
LEMMA SetInduction ==
    ASSUME NEW S, 0 \in S, \A n \in Nat : n \in S => n + 1 \in S
    PROVE  \A n \in Nat : n \in S
<1> DEFINE T == Nat \ S
<1>1. SUFFICES ASSUME T # {} PROVE FALSE
  OBVIOUS
<1>2. PICK x \in T : \A y \in T : x <= y
  BY <1>1, LeastNumber
<1>3. x \in Nat /\ x # 0 /\ x - 1 \in Nat /\ x - 1 \notin T
  BY <1>2
<1> QED
  BY <1>2, <1>3

-----------------------------------------------------------------------------
(* Parents are older rows: a chain of parents ends. *)
Ordered(rows) ==
    \A m \in MessageId :
        rows[m].parent \in MessageId \cup {None} /\ rows[m].parent < m

(* Ids and "no message" are the numbers up to the bound. *)
LEMMA Chains ==
    /\ 2 * MaxGenerations \in Nat
    /\ MessageId \cup {None} = 0..(2 * MaxGenerations)
    /\ MessageId = 1..(2 * MaxGenerations)
    /\ None = 0
  BY BoundsAssumption DEF MessageId, None

(* The chains of the first n rows. *)
IsChain(rows, n, f) ==
    /\ f \in [0..n -> SUBSET MessageId]
    /\ f[0] = {}
    /\ \A m \in 1..n : f[m] = {m} \cup f[rows[m].parent]

(* Rows whose parents are older have chains. *)
LEMMA ChainExists ==
    ASSUME NEW rows, Ordered(rows)
    PROVE  \E f : IsChain(rows, 2 * MaxGenerations, f)
<1> DEFINE N == 2 * MaxGenerations
           S == {n \in Nat : n <= N => \E f : IsChain(rows, n, f)}
<1>0. N \in Nat /\ MessageId = 1..N /\ None = 0
  BY Chains
<1> HIDE DEF N
<1>1. 0 \in S
  <2>1. IsChain(rows, 0, [i \in 0..0 |-> {}])
    BY DEF IsChain
  <2> QED
    BY <2>1
<1>2. ASSUME NEW n \in Nat, n \in S PROVE n + 1 \in S
  <2>1. SUFFICES ASSUME n + 1 <= N PROVE \E f : IsChain(rows, n + 1, f)
    OBVIOUS
  <2>2. PICK f : IsChain(rows, n, f)
    BY <1>0, <1>2, <2>1
  <2> DEFINE p == rows[n + 1].parent
             g == [i \in 0..(n + 1) |-> IF i <= n THEN f[i] ELSE {n + 1} \cup f[p]]
  <2>3. n + 1 \in MessageId /\ p \in 0..n
    BY <1>0, <2>1 DEF Ordered
  <2>4. f \in [0..n -> SUBSET MessageId] /\ f[p] \subseteq MessageId
    BY <2>2, <2>3 DEF IsChain
  <2>5. g \in [0..(n + 1) -> SUBSET MessageId]
    BY <2>3, <2>4
  <2>6. g[0] = {}
    BY <2>2 DEF IsChain
  <2>7. ASSUME NEW m \in 1..(n + 1) PROVE g[m] = {m} \cup g[rows[m].parent]
    <3>1. m \in MessageId /\ rows[m].parent \in 0..(m - 1)
      BY <1>0, <2>1 DEF Ordered
    <3>2. rows[m].parent \in 0..n /\ g[rows[m].parent] = f[rows[m].parent]
      BY <3>1
    <3>3. CASE m <= n
      <4>1. g[m] = f[m] /\ f[m] = {m} \cup f[rows[m].parent]
        BY <2>2, <3>3 DEF IsChain
      <4> QED
        BY <3>2, <4>1
    <3>4. CASE m = n + 1
      BY <3>2, <3>4
    <3> QED
      BY <3>3, <3>4
  <2>8. IsChain(rows, n + 1, g)
    BY <2>5, <2>6, <2>7 DEF IsChain
  <2> QED
    BY <2>8
<1> HIDE DEF S
<1>3. \A n \in Nat : n \in S
  BY <1>1, <1>2, SetInduction
<1>4. N \in S
  BY <1>0, <1>3
<1> QED
  BY <1>0, <1>4 DEF S, N

(* So the recursive definition of Lineage means what it says. *)
LEMMA LineageIs ==
    ASSUME NEW rows, Ordered(rows)
    PROVE  /\ Lineage(rows, None) = {}
           /\ \A m \in MessageId :
                 Lineage(rows, m) = {m} \cup Lineage(rows, rows[m].parent)
<1> DEFINE Ids == MessageId \cup {None}
           Body(h) == [m \in Ids |->
                          IF m = None THEN {} ELSE {m} \cup h[rows[m].parent]]
           g == CHOOSE h : h = Body(h)
<1>0. /\ Ids = 0..(2 * MaxGenerations) /\ MessageId = 1..(2 * MaxGenerations)
      /\ None = 0 /\ 2 * MaxGenerations \in Nat
  BY Chains
<1>1. \A h : Lineage(rows, h) = g[h]
  BY DEF Lineage
<1>2. PICK f : IsChain(rows, 2 * MaxGenerations, f)
  BY ChainExists
<1>3. f = Body(f)
  <2>1. f \in [Ids -> SUBSET MessageId]
    BY <1>0, <1>2 DEF IsChain
  <2>2. ASSUME NEW m \in Ids PROVE f[m] = Body(f)[m]
    BY <1>0, <1>2 DEF IsChain
  <2> QED
    BY <2>1, <2>2
<1>4. g = Body(g)
  BY <1>3
<1> HIDE DEF g
<1>5. g[None] = {}
  BY <1>4
<1>6. ASSUME NEW m \in MessageId PROVE g[m] = {m} \cup g[rows[m].parent]
  <2>1. m \in Ids /\ m # None
    BY <1>0
  <2>2. Body(g)[m] = {m} \cup g[rows[m].parent]
    BY <2>1
  <2> QED
    BY <1>4, <2>2
<1> QED
  BY <1>1, <1>5, <1>6

(* Induction along the chains: what holds of None and passes from a parent *)
(* to its child holds of every message.                                    *)
LEMMA ChainInduction ==
    ASSUME NEW rows, Ordered(rows), NEW T,
           None \in T, \A m \in MessageId : rows[m].parent \in T => m \in T
    PROVE  \A h \in MessageId \cup {None} : h \in T
<1> DEFINE S == {n \in Nat : \A h \in 0..n : h \in MessageId \cup {None} => h \in T}
<1>0. MessageId \cup {None} \subseteq Nat /\ MessageId \subseteq Nat /\ None = 0
  BY Chains
<1>1. 0 \in S
  BY <1>0
<1>2. ASSUME NEW n \in Nat, n \in S PROVE n + 1 \in S
  <2>1. SUFFICES ASSUME n + 1 \in MessageId PROVE n + 1 \in T
    BY <1>0, <1>2
  <2>2. rows[n + 1].parent \in MessageId \cup {None} /\ rows[n + 1].parent \in 0..n
    <3>1. rows[n + 1].parent \in MessageId \cup {None} /\ rows[n + 1].parent < n + 1
      BY <2>1 DEF Ordered
    <3>2. rows[n + 1].parent \in Nat
      BY <1>0, <3>1
    <3> QED
      BY <3>1, <3>2
  <2>3. rows[n + 1].parent \in T
    BY <1>2, <2>2
  <2> QED
    BY <2>1, <2>3
<1> HIDE DEF S
<1>3. \A n \in Nat : n \in S
  BY <1>1, <1>2, SetInduction
<1>4. ASSUME NEW h \in MessageId \cup {None} PROVE h \in T
  <2>1. h \in Nat /\ h \in 0..h
    BY <1>0
  <2>2. h \in S
    BY <1>3, <2>1
  <2> QED
    BY <2>1, <2>2 DEF S
<1> QED
  BY <1>4

(* A lineage holds messages, its head, and with a message its parent. *)
LEMMA LineageClosed ==
    ASSUME NEW rows, Ordered(rows), NEW h \in MessageId \cup {None}
    PROVE  /\ Lineage(rows, h) \subseteq MessageId
           /\ h # None => h \in Lineage(rows, h)
           /\ \A m \in Lineage(rows, h) :
                 rows[m].parent \in Lineage(rows, h) \cup {None}
<1> DEFINE T == {x \in MessageId \cup {None} :
                   /\ Lineage(rows, x) \subseteq MessageId
                   /\ x # None => x \in Lineage(rows, x)
                   /\ \A m \in Lineage(rows, x) :
                         rows[m].parent \in Lineage(rows, x) \cup {None}}
<1>1. None \in T
  BY LineageIs
<1>2. ASSUME NEW m \in MessageId, rows[m].parent \in T PROVE m \in T
  <2> DEFINE p == rows[m].parent
  <2>1. /\ Lineage(rows, m) = {m} \cup Lineage(rows, p)
        /\ Lineage(rows, p) \subseteq MessageId
        /\ p # None => p \in Lineage(rows, p)
        /\ \A x \in Lineage(rows, p) : rows[x].parent \in Lineage(rows, p) \cup {None}
    BY <1>2, LineageIs
  <2> QED
    BY <2>1
<1> HIDE DEF T
<1>3. \A x \in MessageId \cup {None} : x \in T
  BY <1>1, <1>2, ChainInduction
<1>4. h \in T
  BY <1>3
<1> QED
  BY <1>4 DEF T

(* Tables that agree on the rows of a lineage have the same lineage. *)
LEMMA LineageSame ==
    ASSUME NEW rows, Ordered(rows), NEW others, Ordered(others),
           NEW h \in MessageId \cup {None},
           \A m \in Lineage(rows, h) : others[m] = rows[m]
    PROVE  Lineage(others, h) = Lineage(rows, h)
<1> DEFINE T == {x \in MessageId \cup {None} :
                   (\A m \in Lineage(rows, x) : others[m] = rows[m]) =>
                      Lineage(others, x) = Lineage(rows, x)}
<1>1. None \in T
  BY LineageIs
<1>2. ASSUME NEW m \in MessageId, rows[m].parent \in T PROVE m \in T
  <2>1. SUFFICES ASSUME \A x \in Lineage(rows, m) : others[x] = rows[x]
                 PROVE  Lineage(others, m) = Lineage(rows, m)
    BY <1>2
  <2>2. Lineage(rows, m) = {m} \cup Lineage(rows, rows[m].parent)
    BY LineageIs
  <2>3. others[m] = rows[m] /\ \A x \in Lineage(rows, rows[m].parent) : others[x] = rows[x]
    BY <2>1, <2>2
  <2>4. Lineage(others, rows[m].parent) = Lineage(rows, rows[m].parent)
    BY <1>2, <2>3
  <2>5. Lineage(others, m) = {m} \cup Lineage(others, others[m].parent)
    BY LineageIs
  <2> QED
    BY <2>2, <2>3, <2>4, <2>5
<1> HIDE DEF T
<1>3. \A x \in MessageId \cup {None} : x \in T
  BY <1>1, <1>2, ChainInduction
<1>4. h \in T
  BY <1>3
<1> QED
  BY <1>4 DEF T

-----------------------------------------------------------------------------
(* Rows that name older parents only are ordered. *)
LEMMA RowsOrdered ==
    ASSUME NEW rows, rows \in [MessageId -> Message],
           \A m \in MessageId : rows[m].parent # None => rows[m].parent < m
    PROVE  Ordered(rows)
<1>1. ASSUME NEW m \in MessageId
      PROVE  rows[m].parent \in MessageId \cup {None} /\ rows[m].parent < m
  <2>1. rows[m].parent \in MessageId \cup {None}
    BY DEF Message
  <2>2. m \in Nat \ {0} /\ None = 0
    BY Domains DEF None
  <2>3. rows[m].parent = None => rows[m].parent < m
    BY <2>2
  <2> QED
    BY <2>1, <2>3
<1> QED
  BY <1>1 DEF Ordered

(* So the rows of the store are ordered. *)
LEMMA StoreOrdered ==
    ASSUME IndInv
    PROVE  Ordered(messages)
  BY RowsOrdered DEF IndInv, TypeOK, ReferencesResolve

(* And those of the next state. *)
LEMMA StoreStaysOrdered ==
    ASSUME IndInv'
    PROVE  Ordered(messages')
  BY RowsOrdered DEF IndInv, TypeOK, ReferencesResolve

(* What a finished message hangs on is finished. *)
LEMMA FinishedLineage ==
    ASSUME IndInv, NEW h \in MessageId \cup {None},
           h # None => messages[h].status \in Terminal
    PROVE  \A m \in Lineage(messages, h) : messages[m].status \in Terminal
<1> DEFINE T == {x \in MessageId \cup {None} :
                   (x # None => messages[x].status \in Terminal) =>
                      \A m \in Lineage(messages, x) : messages[m].status \in Terminal}
<1>0. Ordered(messages)
  BY StoreOrdered
<1>1. None \in T
  BY <1>0, LineageIs
<1>2. ASSUME NEW m \in MessageId, messages[m].parent \in T PROVE m \in T
  <2> DEFINE p == messages[m].parent
  <2>1. Lineage(messages, m) = {m} \cup Lineage(messages, p)
    BY <1>0, LineageIs
  <2>2. p \in MessageId \cup {None}
    BY <1>0 DEF Ordered
  <2>3. p # None => messages[p].status # "absent" /\ messages[p].status # "pending"
    BY DEF IndInv, ReferencesResolve, NothingBuiltOnPending, Exists, Pending
  <2>4. p # None => messages[p].status \in Terminal
    BY <2>2, <2>3 DEF IndInv, TypeOK, Message
  <2>5. \A x \in Lineage(messages, p) : messages[x].status \in Terminal
    BY <1>2, <2>4
  <2> QED
    BY <2>1, <2>5, Domains DEF None
<1> HIDE DEF T
<1>3. \A x \in MessageId \cup {None} : x \in T
  BY <1>0, <1>1, <1>2, ChainInduction
<1>4. h \in T
  BY <1>3
<1> QED
  BY <1>4 DEF T

(* A step leaves the lineage of a finished message as it is, and what may  *)
(* be quoted of it.                                                        *)
LEMMA FinishedStays ==
    ASSUME IndInv, [Next]_vars, NEW h \in MessageId \cup {None},
           h # None => messages[h].status \in Terminal
    PROVE  /\ h # None => messages'[h].status \in Terminal
           /\ Lineage(messages', h) = Lineage(messages, h)
           /\ Quotable(messages', h) = Quotable(messages, h)
<1>1. IndInv'
  BY IndInvNext
<1>2. Ordered(messages) /\ Ordered(messages')
  BY <1>1, StoreOrdered, StoreStaysOrdered
<1>3. Lineage(messages, h) \subseteq MessageId
  BY <1>2, LineageClosed
<1>4. \A m \in Lineage(messages, h) : messages'[m] = messages[m]
  BY <1>3, FinishedLineage, HistoryStep
<1>5. Lineage(messages', h) = Lineage(messages, h)
  BY <1>2, <1>4, LineageSame
<1>6. h # None => messages'[h].status \in Terminal
  BY HistoryStep
<1>7. ASSUME NEW m \in MessageId
      PROVE  m \in Quotable(messages', h) <=> m \in Quotable(messages, h)
  BY <1>4, <1>5 DEF Quotable
<1>8. Quotable(messages', h) = Quotable(messages, h)
  BY <1>7 DEF Quotable
<1> QED
  BY <1>5, <1>6, <1>8

-----------------------------------------------------------------------------
(* What the prompt follows.  A request read in time holds the quotable     *)
(* rows of its fork point, which is finished; a task that was started with *)
(* them holds those of its user message's parent.                          *)
Follows(prompt, h) ==
    /\ h # None => messages[h].status \in Terminal
    /\ prompt = Quotable(messages, h)
RequestsFollow ==
    \A c \in Clients :
        requests[c].kind # "idle" /\ requests[c].fresh =>
            Follows(requests[c].prompt, requests[c].fork)
PromptInv == IndInv /\ RequestsFollow /\ PromptFollowsLineage

(* The user message of a live task, and what it hangs on, are finished. *)
LEMMA LiveUser ==
    ASSUME IndInv, NEW g \in GenerationId, Live(g)
    PROVE  /\ generations[g].status = "running"
           /\ generations[g].user \in MessageId
           /\ messages[generations[g].user].status \in Terminal
           /\ messages[generations[g].user].parent \in MessageId \cup {None}
           /\ messages[generations[g].user].parent # None =>
                 messages[messages[generations[g].user].parent].status \in Terminal
<1> DEFINE u == generations[g].user
           a == generations[g].assistant
<1>1. generations[g].status = "running"
  BY DEF IndInv, TasksAreRunning
<1>2. u # None /\ a # None /\ messages[a].parent = u /\ u \in MessageId /\ a \in MessageId
  BY <1>1 DEF IndInv, RunningOwnsItsBranch, TypeOK, Generation
<1>3. ASSUME NEW m \in MessageId, messages[m].parent # None
      PROVE  /\ messages[m].parent \in MessageId
             /\ messages[messages[m].parent].status \in Terminal
  <2>1. messages[m].parent \in MessageId
    BY <1>3 DEF IndInv, TypeOK, Message
  <2>2. /\ messages[messages[m].parent].status # "absent"
        /\ messages[messages[m].parent].status # "pending"
    BY <1>3 DEF IndInv, ReferencesResolve, NothingBuiltOnPending, Exists, Pending
  <2> QED
    BY <2>1, <2>2 DEF IndInv, TypeOK, Message
<1>4. messages[u].status \in Terminal
  BY <1>2, <1>3
<1>5. messages[u].parent \in MessageId \cup {None}
  BY <1>2 DEF IndInv, TypeOK, Message
<1> QED
  BY <1>1, <1>2, <1>3, <1>4, <1>5

(* A request that read in time and is not done keeps following. *)
LEMMA RequestKeepsFollowing ==
    ASSUME PromptInv, [Next]_vars, NEW c \in Clients,
           requests'[c] = requests[c], requests[c].kind # "idle", requests[c].fresh
    PROVE  Follows(requests[c].prompt, requests[c].fork)'
<1>1. IndInv /\ Follows(requests[c].prompt, requests[c].fork)
  BY DEF PromptInv, RequestsFollow
<1>2. requests[c].fork \in MessageId \cup {None}
  BY <1>1 DEF IndInv, TypeOK, Request
<1>3. /\ requests[c].fork # None => messages'[requests[c].fork].status \in Terminal
      /\ Quotable(messages', requests[c].fork) = Quotable(messages, requests[c].fork)
  BY <1>1, <1>2, FinishedStays DEF Follows
<1> QED
  BY <1>1, <1>3 DEF Follows

(* A task that goes on follows what it followed. *)
LEMMA TaskKeepsFollowing ==
    ASSUME PromptInv, [Next]_vars, NEW g \in GenerationId, Live(g), tasks[g].fresh,
           generations'[g].user = generations[g].user
    PROVE  tasks[g].prompt = Quotable(messages', messages'[generations'[g].user].parent)
<1> DEFINE u == generations[g].user
           p == messages[u].parent
<1>1. IndInv /\ tasks[g].prompt = Quotable(messages, p)
  BY DEF PromptInv, PromptFollowsLineage
<1>2. /\ u \in MessageId /\ messages[u].status \in Terminal
      /\ p \in MessageId \cup {None}
      /\ p # None => messages[p].status \in Terminal
  BY <1>1, LiveUser
<1>3. messages'[u] = messages[u]
  BY <1>1, <1>2, HistoryStep
<1>4. Quotable(messages', p) = Quotable(messages, p)
  BY <1>1, <1>2, FinishedStays
<1> QED
  BY <1>1, <1>3, <1>4

(* A request after a step: the one before, none, or one that was just      *)
(* begun, and a fresh one of those follows its fork point.                 *)
LEMMA RequestsFollowNext ==
    ASSUME PromptInv, [Next]_vars
    PROVE  RequestsFollow'
<1> USE IndInvParts
<1>0. IndInv /\ TypeOK /\ RowInv
  BY DEF PromptInv
<1>1. SUFFICES ASSUME NEW c \in Clients, requests'[c].kind # "idle", requests'[c].fresh
               PROVE  Follows(requests[c].prompt, requests[c].fork)'
  BY DEF RequestsFollow
<1>2. ASSUME NEW d \in Clients, ClientStep(d), d # c PROVE requests'[c] = requests[c]
  BY <1>0, <1>2 DEF ClientStep, BeginSend, BeginAction, AppendGeneration, AppendAction,
                    AppendRefused, TypeOK
<1>3. ASSUME requests'[c] = requests[c] PROVE Follows(requests[c].prompt, requests[c].fork)'
  BY <1>1, <1>3, RequestKeepsFollowing
<1>4. Idle.kind = "idle"
  BY DEF Idle
<1>5. CASE ClientStep(c)
  <2>1. ASSUME NEW b \in Branches, NEW expected \in 0..(2 * generationCount),
               NEW text \in Texts, BeginSend(c, b, expected, text)
        PROVE  Follows(requests[c].prompt, requests[c].fork)'
    <3>1. /\ requests'[c].prompt = Quotable(messages, branches[b].head)
          /\ requests'[c].fork = expected
          /\ requests'[c].fresh = (branches[b].head = expected /\ ~Pending(expected))
          /\ messages' = messages
      BY <1>0, <2>1 DEF BeginSend, SendHistory, TypeOK
    <3>2. branches[b].head = expected /\ ~Pending(expected)
      BY <1>1, <3>1
    <3>3. b \in BranchId
      BY <1>0, BoundsAssumption DEF Branches, BranchId, TypeOK
    <3>4. expected # None => expected \in MessageId /\ Exists(expected)
      BY <1>0, <3>2, <3>3 DEF RowInv, ReferencesResolve, TypeOK, Branch
    <3>5. expected # None => messages[expected].status \in Terminal
      BY <1>0, <3>2, <3>4 DEF Exists, Pending, TypeOK, Message
    <3> QED
      BY <3>1, <3>2, <3>5 DEF Follows
  <2>2. ASSUME NEW kind \in {"edit", "regenerate"}, NEW b \in Branches,
               NEW target \in 1..(2 * generationCount), NEW text \in Texts,
               BeginAction(c, kind, b, target, text)
        PROVE  Follows(requests[c].prompt, requests[c].fork)'
    <3> DEFINE fork == ActionFork(kind, target)
    <3>1. /\ requests'[c].prompt = Quotable(messages, fork)
          /\ requests'[c].fork = fork /\ messages' = messages
          /\ ActionAllowed(kind, target)
      BY <1>0, <2>2 DEF BeginAction, ActionHistory, TypeOK
    <3>2. target \in MessageId
      BY <1>0, BoundsAssumption DEF TypeOK, MessageId
    <3>3. fork # None => fork \in MessageId /\ Exists(fork) /\ ~Pending(fork)
      BY <1>0, <3>1, <3>2, ForkReady
    <3>4. fork # None => messages[fork].status \in Terminal
      BY <1>0, <3>3 DEF Exists, Pending, TypeOK, Message
    <3> QED
      BY <3>1, <3>4 DEF Follows
  <2>3. CASE AppendGeneration(c) \/ AppendAction(c) \/ AppendRefused(c)
    <3>1. requests'[c] = Idle
      BY <1>0, <2>3 DEF AppendGeneration, AppendAction, AppendRefused, TypeOK
    <3> QED
      BY <1>1, <1>4, <3>1
  <2> QED
    BY <1>5, <2>1, <2>2, <2>3 DEF ClientStep
<1>6. CASE RoomStep
  BY <1>3, <1>6 DEF RoomStep, RemoveMessage, CreateBranch, SelectBranch, SaveSettings
<1>7. CASE \E g \in GenerationId : TaskStep(g)
  <2>1. requests' = requests
    BY <1>7 DEF TaskStep, Stream, CheckpointPendingAssistant, FinalizeGeneration,
                FinalizeFails, CompensateGeneration, CompensationFails
  <2> QED
    BY <1>3, <2>1
<1>8. CASE Crash
  BY <1>1, <1>4, <1>8 DEF Crash
<1>9. CASE Recover \/ UNCHANGED vars
  BY <1>3, <1>9 DEF Recover, vars
<1> QED
  BY <1>2, <1>3, <1>5, <1>6, <1>7, <1>8, <1>9 DEF Next

(* The task of an append follows what the request followed. *)
LEMMA InsertFollows ==
    ASSUME PromptInv, [Next]_vars, NEW c \in Clients, NEW b,
           requests[c].kind # "idle", InsertGeneration(requests[c], b),
           NEW g \in GenerationId, Live(g)', tasks'[g].fresh
    PROVE  tasks'[g].prompt = Quotable(messages', messages'[generations'[g].user].parent)
<1> DEFINE r == requests[c]
<1>0. IndInv /\ TypeOK /\ RequestsFollow
  BY DEF PromptInv, IndInv
<1>1. generationCount \in 0..MaxGenerations /\ generationCount < MaxGenerations
  BY <1>0 DEF InsertGeneration, TypeOK
<1>2. /\ NewUser \in MessageId /\ NewAssistant \in MessageId
      /\ NewGeneration \in GenerationId /\ NewUser # NewAssistant
  BY <1>1, NewIds
<1>3. CASE g = NewGeneration
  <2>1. /\ tasks'[g].prompt = r.prompt /\ tasks'[g].fresh = r.fresh
        /\ generations'[g].user = NewUser /\ messages'[NewUser].parent = r.fork
    BY <1>0, <1>2, <1>3 DEF InsertGeneration, TypeOK
  <2>2. Follows(r.prompt, r.fork) /\ r.fork \in MessageId \cup {None}
    BY <1>0, <2>1 DEF RequestsFollow, TypeOK, Request
  <2>3. Quotable(messages', r.fork) = Quotable(messages, r.fork)
    BY <1>0, <2>2, FinishedStays DEF Follows
  <2> QED
    BY <2>1, <2>2, <2>3 DEF Follows
<1>4. CASE g # NewGeneration
  <2>1. tasks'[g] = tasks[g] /\ generations'[g] = generations[g]
    BY <1>0, <1>4 DEF InsertGeneration, TypeOK
  <2>2. Live(g)
    BY <2>1 DEF Live
  <2> QED
    BY <2>1, <2>2, TaskKeepsFollowing
<1> QED
  BY <1>3, <1>4

(* Every live task follows its user message's parent. *)
LEMMA PromptFollowsNext ==
    ASSUME PromptInv, [Next]_vars
    PROVE  PromptFollowsLineage'
<1> USE IndInvParts
<1>0. IndInv /\ TypeOK
  BY DEF PromptInv
<1>1. SUFFICES ASSUME NEW g \in GenerationId, Live(g)', tasks'[g].fresh
               PROVE  tasks'[g].prompt =
                         Quotable(messages', messages'[generations'[g].user].parent)
  BY DEF PromptFollowsLineage
<1> DEFINE Goal == tasks'[g].prompt =
                      Quotable(messages', messages'[generations'[g].user].parent)
<1>2. ASSUME Live(g), tasks'[g].prompt = tasks[g].prompt, tasks'[g].fresh = tasks[g].fresh,
             generations'[g].user = generations[g].user
      PROVE  Goal
  BY <1>1, <1>2, TaskKeepsFollowing
<1>3. ASSUME tasks'[g] = tasks[g], generations'[g].user = generations[g].user PROVE Goal
  BY <1>1, <1>2, <1>3 DEF Live
<1>4. ASSUME NEW c \in Clients, ClientStep(c) PROVE Goal
  <2>1. CASE AppendGeneration(c)
    BY <1>1, <2>1, InsertFollows DEF AppendGeneration
  <2>2. CASE AppendAction(c)
    BY <1>1, <2>2, InsertFollows DEF AppendAction
  <2> QED
    BY <1>3, <1>4, <2>1, <2>2 DEF ClientStep, BeginSend, BeginAction, AppendRefused
<1>5. CASE RoomStep
  BY <1>3, <1>5 DEF RoomStep, RemoveMessage, CreateBranch, SelectBranch, SaveSettings
<1>6. ASSUME NEW k \in GenerationId, TaskStep(k) PROVE Goal
  <2>1. generations'[g].user = generations[g].user
    <3>1. ASSUME NEW status, KeepAssistant(k, status) \/ DropAssistant(k, status)
          PROVE  generations'[g].user = generations[g].user
      BY <1>0, <3>1 DEF KeepAssistant, DropAssistant, TypeOK, Generation
    <3>2. CASE \E status \in Terminal : FinalizeGeneration(k, status)
      BY <3>1, <3>2 DEF FinalizeGeneration
    <3>3. CASE CompensateGeneration(k)
      BY <3>1, <3>3 DEF CompensateGeneration
    <3> QED
      BY <1>6, <3>2, <3>3 DEF TaskStep, Stream, CheckpointPendingAssistant, FinalizeFails,
                              CompensationFails
  <2>2. CASE k # g
    <3>1. tasks'[g] = tasks[g]
      BY <1>0, <1>6, <2>2 DEF TaskStep, Stream, CheckpointPendingAssistant,
         FinalizeGeneration, FinalizeFails, CompensateGeneration, CompensationFails, TypeOK
    <3> QED
      BY <1>3, <2>1, <3>1
  <2>3. CASE k = g
    <3>1. Live(g)
      BY <1>6, <2>3 DEF TaskStep, Stream, CheckpointPendingAssistant, FinalizeGeneration,
             FinalizeFails, CompensateGeneration, CompensationFails, Live
    <3>2. \/ tasks'[g] = Over
          \/ tasks'[g].prompt = tasks[g].prompt /\ tasks'[g].fresh = tasks[g].fresh
      BY <1>0, <1>6, <2>3 DEF TaskStep, Stream, CheckpointPendingAssistant,
         FinalizeGeneration, FinalizeFails, CompensateGeneration, CompensationFails,
         TypeOK, Task
    <3>3. tasks'[g] # Over
      BY <1>1 DEF Live, Over
    <3> QED
      BY <1>2, <2>1, <3>1, <3>2, <3>3
  <2> QED
    BY <2>2, <2>3
<1>7. CASE Crash
  BY <1>1, <1>7 DEF Crash, Live, NoTask
<1>8. CASE Recover
  <2>1. ~up /\ tasks' = tasks
    BY <1>8 DEF Recover
  <2>2. tasks'[g] = NoTask
    BY <1>0, <2>1 DEF TasksAreRunning
  <2> QED
    BY <1>1, <2>2 DEF Live, NoTask
<1>9. CASE UNCHANGED vars
  BY <1>3, <1>9 DEF vars
<1> QED
  BY <1>4, <1>5, <1>6, <1>7, <1>8, <1>9 DEF Next

-----------------------------------------------------------------------------
(* One step moves a head along its lineage or leaves it. *)
LEMMA HeadStep ==
    ASSUME IndInv, [Next]_vars, NEW b \in BranchId, b \in Branches
    PROVE  \/ branches[b].head \in Lineage(messages', branches'[b].head) \cup {None}
           \/ branches'[b].head \in Lineage(messages, branches[b].head) \cup {None}
<1> USE IndInvParts
<1> DEFINE old == branches[b].head
           new == branches'[b].head
           Goal == old \in Lineage(messages', new) \cup {None}
                      \/ new \in Lineage(messages, old) \cup {None}
<1>1. IndInv' /\ TypeOK'
  BY IndInvNext DEF IndInv
<1>2. Ordered(messages) /\ Ordered(messages')
  BY <1>1, StoreOrdered, StoreStaysOrdered
<1>3. old \in MessageId \cup {None} /\ new \in MessageId \cup {None}
  BY <1>1 DEF TypeOK, Branch
<1>4. old # None => old \in Lineage(messages, old)
  BY <1>2, <1>3, LineageClosed
<1>5. ASSUME new = old PROVE Goal
  BY <1>4, <1>5
<1>6. ASSUME old # None, new = messages[old].parent PROVE Goal
  BY <1>2, <1>3, <1>4, <1>6, LineageClosed
<1>7. b # branchCount + 1
  BY BoundsAssumption DEF Branches, TypeOK
<1>8. ASSUME NEW c \in Clients, ClientStep(c) PROVE Goal
  <2>1. CASE AppendGeneration(c)
    <3> DEFINE r == requests[c]
    <3>1. /\ r.kind = "send" /\ branches[r.branch].head = r.expected
          /\ InsertGeneration(r, r.branch)
          /\ branches' = [branches EXCEPT ![r.branch].head = NewAssistant]
      BY <2>1 DEF AppendGeneration, HeadMatches, MoveHead
    <3>2. r.branch \in BranchId /\ r.fork = r.expected
      BY <3>1, BoundsAssumption DEF RequestsNameBranches, Branches, BranchId, TypeOK
    <3>3. CASE b # r.branch
      BY <1>5, <3>1, <3>3 DEF TypeOK
    <3>4. CASE b = r.branch
      <4>1. new = NewAssistant /\ old = r.fork
        BY <3>1, <3>2, <3>4 DEF TypeOK, Branch
      <4>2. generationCount \in 0..MaxGenerations /\ generationCount < MaxGenerations
        BY <3>1 DEF InsertGeneration, TypeOK
      <4>3. NewUser \in MessageId /\ NewAssistant \in MessageId /\ NewUser # NewAssistant
        BY <4>2, NewIds
      <4>4. messages'[NewAssistant].parent = NewUser /\ messages'[NewUser].parent = old
        BY <3>1, <4>1, <4>3 DEF InsertGeneration, TypeOK
      <4>5. /\ Lineage(messages', NewAssistant) = {NewAssistant} \cup Lineage(messages', NewUser)
            /\ Lineage(messages', NewUser) = {NewUser} \cup Lineage(messages', old)
        BY <1>2, <4>3, <4>4, LineageIs
      <4>6. old # None => old \in Lineage(messages', old)
        BY <1>2, <1>3, LineageClosed
      <4> QED
        BY <4>1, <4>5, <4>6
    <3> QED
      BY <3>3, <3>4
  <2>2. CASE AppendAction(c)
    <3>1. branches'[b] = branches[b]
      BY <1>7, <2>2 DEF AppendAction, TypeOK
    <3> QED
      BY <1>5, <3>1
  <2> QED
    BY <1>5, <1>8, <2>1, <2>2 DEF ClientStep, BeginSend, BeginAction, AppendRefused
<1>9. CASE RoomStep
  <2>1. ASSUME NEW e \in Branches, NEW target \in 1..(2 * generationCount),
               RemoveMessage(e, target)
        PROVE  Goal
    <3>1. /\ target \in Lineage(messages, branches[e].head)
          /\ branches' = [branches EXCEPT ![e].head = messages[target].parent]
      BY <2>1 DEF RemoveMessage, ActionTarget, MoveHead
    <3>2. CASE e # b
      BY <1>5, <3>1, <3>2 DEF TypeOK
    <3>3. CASE e = b
      <4>1. new = messages[target].parent /\ target \in Lineage(messages, old)
        BY <3>1, <3>3 DEF TypeOK, Branch
      <4>2. new \in Lineage(messages, old) \cup {None}
        BY <1>2, <1>3, <4>1, LineageClosed
      <4> QED
        BY <4>2
    <3> QED
      BY <3>2, <3>3
  <2>2. ASSUME NEW from \in 0..(2 * generationCount), CreateBranch(from) PROVE Goal
    <3>1. branches'[b] = branches[b]
      BY <1>7, <2>2 DEF CreateBranch, TypeOK
    <3> QED
      BY <1>5, <3>1
  <2> QED
    BY <1>5, <1>9, <2>1, <2>2 DEF RoomStep, SelectBranch, SaveSettings
<1>10. ASSUME NEW g \in GenerationId, TaskStep(g) PROVE Goal
  <2>1. ASSUME NEW status, KeepAssistant(g, status) PROVE Goal
    BY <1>5, <2>1 DEF KeepAssistant
  <2>2. ASSUME NEW status, generations[g].status = "running", DropAssistant(g, status)
        PROVE  Goal
    <3> DEFINE a == generations[g].assistant
               d == generations[g].branch
    <3>1. /\ a # None /\ messages[a].parent = generations[g].user
          /\ branches[d].head = a /\ d \in BranchId
      BY <2>2, BoundsAssumption
         DEF RowInv, RunningOwnsItsBranch, Branches, BranchId, TypeOK
    <3>2. branches' = [branches EXCEPT ![d].head = generations[g].user]
      BY <2>2, <3>1 DEF DropAssistant, MoveHead
    <3>3. CASE b # d
      BY <1>5, <3>2, <3>3 DEF TypeOK
    <3>4. CASE b = d
      <4>1. old = a /\ new = generations[g].user
        BY <3>1, <3>2, <3>4 DEF TypeOK, Branch
      <4> QED
        BY <1>6, <3>1, <4>1
    <3> QED
      BY <3>3, <3>4
  <2>3. ASSUME NEW status \in Terminal, FinalizeGeneration(g, status) PROVE Goal
    BY <2>1, <2>2, <2>3 DEF FinalizeGeneration
  <2>4. CASE CompensateGeneration(g)
    BY <2>1, <2>2, <2>4 DEF CompensateGeneration
  <2> QED
    BY <1>5, <1>10, <2>3, <2>4
       DEF TaskStep, Stream, CheckpointPendingAssistant, FinalizeFails, CompensationFails
<1>11. CASE Recover
  <2>1. CASE RecoverPreserving
    BY <1>5, <2>1 DEF RecoverPreserving
  <2>2. CASE RecoverDropping
    <3>1. new = OffPending(old)
      BY <2>2 DEF RecoverDropping
    <3>2. CASE old \in PendingAssistants
      <4>1. old # None /\ new = messages[old].parent
        BY <3>1, <3>2, Domains DEF OffPending, PendingAssistants, None
      <4> QED
        BY <1>6, <4>1
    <3>3. CASE old \notin PendingAssistants
      BY <1>5, <3>1, <3>3 DEF OffPending
    <3> QED
      BY <3>2, <3>3
  <2> QED
    BY <1>11, <2>1, <2>2 DEF Recover
<1>12. CASE Crash \/ UNCHANGED vars
  BY <1>5, <1>12 DEF Crash, store, vars
<1> QED
  BY <1>8, <1>9, <1>10, <1>11, <1>12 DEF Next

-----------------------------------------------------------------------------
(* The inductive invariant holds in every reachable state. *)
THEOREM Invariance == Spec => []IndInv
BY IndInvInit, IndInvNext, PTL DEF Spec

(* Every table of the store and every in-memory record keeps its type,     *)
(* whatever clients, generation tasks, crashes and recovery do.            *)
THEOREM TypeCorrect == Spec => []TypeOK
<1>1. IndInv => TypeOK
  BY DEF IndInv
<1> QED BY <1>1, Invariance, PTL

(* No statement of database.rs leaves a dangling reference, so no          *)
(* transaction is refused by a foreign key.                                *)
THEOREM NoDanglingReference == Spec => []ReferencesResolve
<1>1. IndInv => ReferencesResolve
  BY DEF IndInv
<1> QED BY <1>1, Invariance, PTL

(* The compare-and-set of append_generation and the pending-head checks of *)
(* the other writers give a running generation its branch for itself.      *)
THEOREM OneGenerationPerBranch == Spec => []RunningOwnsItsBranch
<1>1. IndInv => RunningOwnsItsBranch
  BY DEF IndInv
<1> QED BY <1>1, Invariance, PTL

(* No append, branch creation or removal builds on an unfinished message.  *)
THEOREM OnlyFinishedIsBuiltOn == Spec => []NothingBuiltOnPending
<1>1. IndInv => NothingBuiltOnPending
  BY DEF IndInv
<1> QED BY <1>1, Invariance, PTL

(* After a restart's recovery no pending message is left without a task in *)
(* the new process.                                                        *)
THEOREM NothingLeftPending == Spec => []PendingHasATask
<1>1. IndInv => PendingHasATask
  BY DEF IndInv
<1> QED BY <1>1, Invariance, PTL

(* Finalization, its compensation and recovery write one outcome to both   *)
(* the generation and the message.                                         *)
THEOREM OneOutcome == Spec => []OutcomesAgree
<1>1. IndInv => OutcomesAgree
  BY DEF IndInv
<1> QED BY <1>1, Invariance, PTL

(* The four together: the soundness of the store that the run checks.      *)
THEOREM SoundStore == Spec => []StoreIsSound
<1>1. IndInv => StoreIsSound
  BY DEF IndInv, StoreIsSound
<1> QED BY <1>1, Invariance, PTL

(* A finished message is never rewritten or deleted: edit and regenerate   *)
(* branch, remove rewinds a head, and recovery touches pending rows only.  *)
THEOREM History == Spec => HistoryIsImmutable
<1>1. IndInv /\ [Next]_vars =>
         [\A m \in MessageId :
             messages[m].status \in Terminal => messages'[m] = messages[m]]_vars
  BY HistoryStep
<1> QED BY <1>1, Invariance, PTL DEF Spec, HistoryIsImmutable

(* Between restarts a step moves one existing head at most, so an edit or  *)
(* a regeneration leaves the branch it started from as it was.             *)
THEOREM OneHead == Spec => OneHeadMovesAtATime
<1>1. IndInv /\ [Next]_vars =>
         [up => \A b, d \in BranchId :
             /\ b \in Branches /\ branches'[b] # branches[b]
             /\ d \in Branches /\ branches'[d] # branches[d]
             => b = d]_vars
  BY OneHeadStep
<1> QED BY <1>1, Invariance, PTL DEF Spec, OneHeadMovesAtATime

(* A generation is sent exactly the quotable rows of its user message's    *)
(* parent chain, for any number of clients, generations and branches:      *)
(* although the history was read before the append that checks the head,   *)
(* nothing a client, task, crash or recovery does in between changes it.   *)
THEOREM PromptIsLineage == Spec => []PromptFollowsLineage
<1>1. Init => PromptInv
  <2>1. SUFFICES ASSUME Init PROVE PromptInv
    OBVIOUS
  <2>2. /\ \A g \in GenerationId : tasks[g] = NoTask
        /\ \A c \in Clients : requests[c] = Idle
    BY <2>1 DEF Init
  <2>3. RequestsFollow
    BY <2>2 DEF RequestsFollow, Idle
  <2>4. PromptFollowsLineage
    BY <2>2 DEF PromptFollowsLineage, Live, NoTask
  <2> QED
    BY <2>1, <2>3, <2>4, IndInvInit DEF PromptInv
<1>2. PromptInv /\ [Next]_vars => PromptInv'
  <2>1. SUFFICES ASSUME PromptInv, [Next]_vars PROVE PromptInv'
    OBVIOUS
  <2>2. IndInv'
    BY <2>1, IndInvNext DEF PromptInv
  <2> QED
    BY <2>1, <2>2, RequestsFollowNext, PromptFollowsNext DEF PromptInv
<1>3. PromptInv => PromptFollowsLineage
  BY DEF PromptInv
<1> QED
  BY <1>1, <1>2, <1>3, PTL DEF Spec

(* No step splices another history into a branch: a head grows on top of   *)
(* the old one or rewinds to an ancestor of it.                            *)
THEOREM HeadAlongLineage == Spec => HeadMovesAlongLineage
<1>1. IndInv /\ [Next]_vars =>
         [\A b \in BranchId :
             b \in Branches =>
                LET old == branches[b].head
                    new == branches'[b].head
                IN  \/ old \in Lineage(messages', new) \cup {None}
                    \/ new \in Lineage(messages, old) \cup {None}]_vars
  BY HeadStep
<1> QED
  BY <1>1, Invariance, PTL DEF Spec, HeadMovesAlongLineage
=============================================================================
