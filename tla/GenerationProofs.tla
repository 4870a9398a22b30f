-------------------------- MODULE GenerationProofs --------------------------
(***************************************************************************)
(* Proofs about Generation, for any tools, provider inputs, event limit    *)
(* and channel capacities.                                                 *)
(*                                                                         *)
(* The two checked invariants and the refinement of GenerationContract     *)
(* rest on one inductive invariant, IInv.  It speaks of Sent, everything   *)
(* the runner has sent whether it was published or still waits in the      *)
(* channel: a forwarder that fails cuts Sent short and a forwarder that    *)
(* publishes leaves it as it is, so order, pairing and the text sum of the *)
(* published events follow from those of Sent.  Settled says what the      *)
(* verdict, the two records and the terminal event agree on at each point  *)
(* of the way from the join to the end, through transactions that are      *)
(* lost or take effect without a report.                                   *)
(*                                                                         *)
(* The text of a stream is a recursive function, so what one event more or *)
(* less does to it needs an induction; SetInduction states one over a set. *)
(***************************************************************************)
EXTENDS Generation, WellFoundedInduction, TLAPS

(* Everything sent to subscribers so far, delivered or not: what the bus   *)
(* has and what still waits in the channel.                                *)
Sent == bus \o channel

(* s is how t begins. *)
Prefix(s, t) == Len(s) <= Len(t) /\ \A i \in 1..Len(s) : s[i] = t[i]

(* s has an event of this kind about this call. *)
Has(s, kind, id) == \E i \in 1..Len(s) : s[i].kind = kind /\ s[i].about = id
(* s has no event of these kinds. *)
NoKind(s, kinds) == \A i \in 1..Len(s) : s[i].kind \notin kinds

(* EventsInOrder, of any sequence of events. *)
InOrder(s) ==
    \A j \in 1..Len(s) : \A i \in 1..(j - 1) :
        /\ s[i].seq < s[j].seq
        /\ s[i].kind \notin TerminalKinds

(* The first part of ToolCallsPaired, of any sequence of events, in a form *)
(* that looks at the events before each one.                               *)
Before(s, j, kind, id) == \E i \in 1..(j - 1) : s[i].kind = kind /\ s[i].about = id
Paired(s) ==
    \A j \in 1..Len(s) : s[j].about \in Tools =>
        /\ s[j].kind = "toolStart" => ~Before(s, j, "toolStart", s[j].about)
        /\ s[j].kind \in {"toolArgs", "toolEnd"} =>
              /\ Before(s, j, "toolStart", s[j].about)
              /\ ~Before(s, j, "toolEnd", s[j].about)

(* An event that continues a paired sequence. *)
Fits(s, e) ==
    e.about \in Tools =>
        /\ e.kind = "toolStart" => ~Has(s, "toolStart", e.about)
        /\ e.kind \in {"toolArgs", "toolEnd"} =>
              Has(s, "toolStart", e.about) /\ ~Has(s, "toolEnd", e.about)

(* Every call that was started was ended. *)
AllEnded(s) == \A id \in Tools : Has(s, "toolStart", id) => Has(s, "toolEnd", id)

-----------------------------------------------------------------------------
(* The phases before and after the join, and after the end was told. *)
Unstarted == {"launching", "refused"}
Decided == {"finalize", "compensate", "verify", "commit", "announce"}
Told == {"retire", "over"}
(* The runner is about to send an event of this kind about this call. *)
Outgoing(kind, id) ==
    outbox # <<>> /\ Head(outbox).kind = kind /\ Head(outbox).about = id

(* Where the task is fixes where its parts are. *)
Positions ==
    /\ registered <=> phase \notin {"refused", "over", "crashed", "recovered"}
    /\ phase \in Unstarted =>
          /\ bus = <<>> /\ row = NoRow /\ generation = "absent"
          /\ runner = NewRunner /\ forwarder = NewForwarder
          /\ active = {} /\ completed = <<>>
    /\ phase # "running" => channel = <<>> /\ outbox = <<>>
    /\ phase \in Decided \cup Told => forwarder.pc # "running"
    /\ forwarder.pc # "running" => channel = <<>>
    /\ forwarder.pc = "ok" => runner.pc = "done"
    /\ forwarder.dirty => launch.preserve

(* A runner that is done sends nothing more, one that is not has room for  *)
(* the event it may reject, and neither sends what only the task may say.  *)
RunnerSpeaks ==
    /\ runner.pc = "start" => runner.seq = 0
    /\ runner.pc \in {"start", "done"} => outbox = <<>>
    /\ runner.pc # "done" => runner.count <= MaxEvents
    /\ outbox # <<>> => Head(outbox).kind \notin TerminalKinds \cup {"committed"}

(* The numbering the three writers share, and the one end. *)
Numbered ==
    /\ InOrder(Sent)
    /\ phase = "running" => \A i \in 1..Len(Sent) : Sent[i].seq <= runner.seq
    /\ phase \in Decided => \A i \in 1..Len(Sent) : Sent[i].seq < verdict.seq
    /\ phase \in {"running"} \cup Decided => NoKind(Sent, TerminalKinds)
    /\ phase \in {"running"} \cup (Decided \ {"announce"}) => NoKind(Sent, {"committed"})

(* The calls the runner knows are the calls that subscribers have seen, as *)
(* long as nothing it sends is lost.                                       *)
CallsTracked ==
    /\ \A i, j \in 1..Len(completed) : completed[i] = completed[j] => i = j
    /\ \A id \in active : ~IsCompleted(id)
    /\ runner.pc \in {"flush", "last"} \/ (runner.pc = "done" /\ runner.result = "ok")
          => active = {}
    /\ runner.pc = "last" \/ (runner.pc = "done" /\ runner.result = "ok")
          => completed = <<>>
(* What the runner knows of one call against what was sent of it. *)
CallSeen(id) ==
    /\ Outgoing("toolStart", id) => id \in active
    /\ Outgoing("toolArgs", id) => id \in active \/ IsCompleted(id)
    /\ Outgoing("toolEnd", id) =>
          id \notin active /\ ~IsCompleted(id) /\ runner.pc = "flush"
    /\ id \in active \/ IsCompleted(id) =>
          Has(Sent, "toolStart", id) \/ Outgoing("toolStart", id)
    /\ Has(Sent, "toolStart", id) =>
          \/ id \in active \/ IsCompleted(id)
          \/ Has(Sent, "toolEnd", id) \/ Outgoing("toolEnd", id)
    /\ Has(Sent, "toolEnd", id) =>
          /\ id \notin active /\ ~IsCompleted(id)
          /\ runner.pc \in {"flush", "last", "done"}
(* So for every call, while nothing sent is lost, and the event that waits *)
(* to be sent continues the stream.                                        *)
CallsSeen ==
    phase = "running" /\ forwarder.pc # "failed" =>
        /\ outbox # <<>> => Fits(Sent, Head(outbox))
        /\ \A id \in Tools : CallSeen(id)
(* A success leaves no call open. *)
FinishedIsEnded ==
    /\ phase \in Decided /\ verdict.kind = "finished" => AllEnded(Sent)
    /\ (\E i \in 1..Len(Sent) : Sent[i].kind = "finished") => AllEnded(Sent)

(* Text accepted by the runner and not yet sent; a flush counts when sent. *)
Owed == IF outbox # <<>> /\ runner.pc # "flush" THEN TextOf(Head(outbox)) ELSE 0
(* The text the runner counts, sends and has published, and the checkpoint *)
(* text of the forwarder.                                                  *)
TextCounted ==
    phase = "running" =>
        /\ forwarder.pc # "failed" => runner.text = TextSum(Sent) + Owed
        /\ runner.text >= Shown
        /\ launch.preserve => forwarder.seen = Shown

(* What the verdict says of the records, at each point of its way. *)
Settled ==
    phase \in Decided \cup Told =>
        /\ verdict.original \in Terminal
        /\ verdict.content >= Shown
        /\ verdict.original = "complete" => verdict.keep /\ verdict.content = Shown
        /\ \/ generation = "running"
           \/ /\ generation \in {verdict.original, "failed"}
              /\ row = IF verdict.keep
                       THEN [status |-> generation, content |-> verdict.content]
                       ELSE NoRow
        /\ phase \in {"finalize", "compensate"} => verdict.status = verdict.original
        /\ phase \in {"finalize", "compensate", "verify"} =>
              verdict.kind = TerminalKind(verdict.original)
        /\ phase = "finalize" => generation = "running"
        /\ phase = "commit" => verdict.keep /\ generation = verdict.status
                                 /\ generation # "running"
        /\ phase \in {"commit", "announce"} \cup Told =>
              \/ verdict.kind = "failed"
              \/ /\ verdict.kind = TerminalKind(verdict.original)
                 /\ generation = verdict.original
        /\ phase \in Told => bus # <<>> /\ bus[Len(bus)].kind = verdict.kind

(* The two records agree that the answer is open, and it is while the      *)
(* runner works.                                                           *)
RecordsAgree ==
    /\ generation = "running" <=> row.status = "pending"
    /\ phase = "running" => generation = "running"

(* MessageCommitted names an outcome. *)
CommittedIsTerminal ==
    \A i \in 1..Len(bus) : bus[i].kind = "committed" => bus[i].about \in Terminal

(* The invariant, in the three parts the steps disturb: the runner, the    *)
(* stream of events, the store.                                            *)
RunnerInv == TypeOK /\ RunnerSpeaks /\ CallsTracked /\ CallsSeen /\ TextCounted
StreamInv == Numbered /\ Paired(Sent) /\ FinishedIsEnded
StoreInv ==
    Settled /\ RecordsAgree /\ CommittedIsTerminal /\ AnnouncedIsDurable /\ ShownIsStored

IInv == Positions /\ RunnerInv /\ StreamInv /\ StoreInv
-----------------------------------------------------------------------------
(* A non-empty set of natural numbers has a least member.  With it an      *)
(* induction is a statement about a set, which the provers can use.        *)
LEMMA LeastNumber ==
    ASSUME NEW T, T \subseteq Nat, T # {}
    PROVE  \E x \in T : \A y \in T : x <= y
<1> DEFINE R == OpToRel(<, Nat)
<1>1. IsWellFoundedOn(R, Nat)
  BY NatLessThanWellFounded
<1> HIDE DEF R
<1>2. \E x \in T : \A y \in T : ~ (<<y, x>> \in R)
  BY <1>1, WFMin
<1>3. \A x, y \in Nat : y < x => <<y, x>> \in R
  BY DEF R, OpToRel
<1>4. PICK x \in T : \A y \in T : ~ (<<y, x>> \in R)
  BY <1>2
<1>5. ASSUME NEW y \in T PROVE x <= y
  <2>1. x \in Nat /\ y \in Nat /\ ~ (<<y, x>> \in R)
    BY <1>4
  <2>2. ~ (y < x)
    BY <2>1, <1>3
  <2> QED
    BY <2>1, <2>2
<1> QED
  BY <1>5

(* Induction over the natural numbers, for a set instead of a predicate.   *)
LEMMA SetInduction ==
    ASSUME NEW S, 0 \in S, \A n \in Nat : n \in S => n + 1 \in S
    PROVE  \A n \in Nat : n \in S
<1> DEFINE T == Nat \ S
<1>1. SUFFICES ASSUME T # {} PROVE FALSE
  OBVIOUS
<1>2. PICK x \in T : \A y \in T : x <= y
  BY <1>1, LeastNumber
<1>3. x \in Nat /\ x # 0 /\ x - 1 \in Nat /\ x - 1 \notin T
  BY <1>2
<1> QED
  BY <1>2, <1>3

-----------------------------------------------------------------------------
(* The running sums of the text in the first n events of s. *)
IsSum(s, n, f) ==
    /\ f \in [0..n -> Nat]
    /\ f[0] = 0
    /\ \A i \in 1..n : f[i] = f[i - 1] + TextOf(s[i])

(* The text of an event is a number. *)
LEMMA TextOfType == \A e \in Event : TextOf(e) \in Nat
  BY DEF TextOf, Event

(* Every sequence of events has running sums. *)
LEMMA SumExists ==
    ASSUME NEW s \in Seq(Event)
    PROVE  \E f : IsSum(s, Len(s), f)
<1> DEFINE S == {n \in Nat : n <= Len(s) => \E f : IsSum(s, n, f)}
<1>0. Len(s) \in Nat /\ \A i \in 1..Len(s) : TextOf(s[i]) \in Nat
  BY TextOfType
<1>1. 0 \in S
  <2>1. IsSum(s, 0, [i \in 0..0 |-> 0])
    BY DEF IsSum
  <2> QED
    BY <2>1
<1>2. ASSUME NEW n \in Nat, n \in S PROVE n + 1 \in S
  <2>1. SUFFICES ASSUME n + 1 <= Len(s) PROVE \E f : IsSum(s, n + 1, f)
    OBVIOUS
  <2>2. PICK f : IsSum(s, n, f)
    BY <1>2, <2>1, <1>0
  <2> DEFINE g == [i \in 0..(n + 1) |-> IF i <= n THEN f[i] ELSE f[n] + TextOf(s[n + 1])]
  <2>3. f \in [0..n -> Nat] /\ TextOf(s[n + 1]) \in Nat /\ f[n] \in Nat
    BY <2>1, <2>2, <1>0 DEF IsSum
  <2>4. g \in [0..(n + 1) -> Nat]
    BY <2>3
  <2>5. g[0] = 0
    BY <2>2 DEF IsSum
  <2>6. ASSUME NEW i \in 1..(n + 1) PROVE g[i] = g[i - 1] + TextOf(s[i])
    <3>1. CASE i <= n
      BY <3>1, <2>2 DEF IsSum
    <3>2. CASE i = n + 1
      BY <3>2, <2>3
    <3> QED
      BY <3>1, <3>2
  <2>7. IsSum(s, n + 1, g)
    BY <2>4, <2>5, <2>6 DEF IsSum
  <2> QED
    BY <2>7
<1> HIDE DEF S
<1>3. \A n \in Nat : n \in S
  BY <1>1, <1>2, SetInduction
<1>4. Len(s) \in S
  BY <1>3, <1>0
<1> QED
  BY <1>4, <1>0 DEF S

(* TextSum is the last of them, whatever the CHOOSE behind its recursive   *)
(* function picks.                                                         *)
LEMMA TextSumIs ==
    ASSUME NEW s \in Seq(Event), NEW f, IsSum(s, Len(s), f)
    PROVE  TextSum(s) = f[Len(s)]
<1> DEFINE Body(h) == [n \in 0..Len(s) |-> IF n = 0 THEN 0 ELSE h[n - 1] + TextOf(s[n])]
           g == CHOOSE h : h = Body(h)
<1>0. Len(s) \in Nat
  OBVIOUS
<1>1. TextSum(s) = g[Len(s)]
  BY DEF TextSum
<1>2. f = Body(f)
  <2>1. f \in [0..Len(s) -> Nat]
    BY DEF IsSum
  <2>2. ASSUME NEW n \in 0..Len(s) PROVE f[n] = Body(f)[n]
    BY <1>0 DEF IsSum
  <2> QED
    BY <2>1, <2>2
<1>3. g = Body(g)
  BY <1>2
<1> HIDE DEF g
<1> DEFINE S == {n \in Nat : n <= Len(s) => g[n] = f[n]}
<1>4. 0 \in S
  <2>1. g[0] = 0
    BY <1>3, <1>0
  <2> QED
    BY <2>1 DEF IsSum
<1>5. ASSUME NEW n \in Nat, n \in S PROVE n + 1 \in S
  <2>1. SUFFICES ASSUME n + 1 <= Len(s) PROVE g[n + 1] = f[n + 1]
    OBVIOUS
  <2>2. g[n] = f[n]
    BY <1>5, <2>1, <1>0
  <2>3. g[n + 1] = g[n] + TextOf(s[n + 1])
    BY <1>3, <2>1, <1>0
  <2>4. f[n + 1] = f[n] + TextOf(s[n + 1])
    BY <2>1, <1>0 DEF IsSum
  <2> QED
    BY <2>2, <2>3, <2>4
<1> HIDE DEF S
<1>6. \A n \in Nat : n \in S
  BY <1>4, <1>5, SetInduction
<1>7. Len(s) \in S
  BY <1>6, <1>0
<1> QED
  BY <1>7, <1>1, <1>0 DEF S

(* The text of nothing, of one event more, and of the first events. *)
LEMMA TextSumEmpty == TextSum(<<>>) = 0
<1> DEFINE e == <<>>
<1>1. e \in Seq(Event) /\ Len(e) = 0
  OBVIOUS
<1>2. PICK f : IsSum(e, Len(e), f)
  BY <1>1, SumExists
<1>3. TextSum(e) = f[Len(e)]
  BY <1>1, <1>2, TextSumIs
<1> QED
  BY <1>1, <1>2, <1>3 DEF IsSum

(* A text sum is a number. *)
LEMMA TextSumType ==
    ASSUME NEW s \in Seq(Event)
    PROVE  TextSum(s) \in Nat
<1>1. PICK f : IsSum(s, Len(s), f)
  BY SumExists
<1>2. TextSum(s) = f[Len(s)] /\ Len(s) \in Nat
  BY <1>1, TextSumIs
<1> QED
  BY <1>1, <1>2 DEF IsSum

(* One event more adds its text. *)
LEMMA TextSumAppend ==
    ASSUME NEW s \in Seq(Event), NEW e \in Event
    PROVE  /\ TextSum(s) \in Nat
           /\ TextSum(Append(s, e)) = TextSum(s) + TextOf(e)
<1> DEFINE t == Append(s, e)
<1>1. /\ t \in Seq(Event) /\ Len(s) \in Nat /\ Len(t) = Len(s) + 1
      /\ t[Len(s) + 1] = e
      /\ \A i \in 1..Len(s) : t[i] = s[i]
  OBVIOUS
<1> HIDE DEF t
<1>2. PICK f : IsSum(t, Len(t), f)
  BY <1>1, SumExists
<1> DEFINE g == [i \in 0..Len(s) |-> f[i]]
<1>3. IsSum(s, Len(s), g)
  <2>1. g \in [0..Len(s) -> Nat] /\ g[0] = 0
    BY <1>1, <1>2 DEF IsSum
  <2>2. ASSUME NEW i \in 1..Len(s) PROVE g[i] = g[i - 1] + TextOf(s[i])
    BY <1>1, <1>2 DEF IsSum
  <2> QED
    BY <2>1, <2>2 DEF IsSum
<1>4. TextSum(t) = f[Len(t)] /\ TextSum(s) = g[Len(s)]
  BY <1>1, <1>2, <1>3, TextSumIs
<1>5. f[Len(t)] = f[Len(s)] + TextOf(e) /\ f[Len(s)] \in Nat /\ g[Len(s)] = f[Len(s)]
  BY <1>1, <1>2 DEF IsSum
<1> QED
  BY <1>4, <1>5 DEF t

(* The first events hold no more text than all of them. *)
LEMMA TextSumPrefix ==
    ASSUME NEW s \in Seq(Event), NEW t \in Seq(Event), Prefix(s, t)
    PROVE  TextSum(s) <= TextSum(t)
<1>1. Len(s) \in Nat /\ Len(t) \in Nat /\ Len(s) <= Len(t)
  BY DEF Prefix
<1>2. PICK f : IsSum(t, Len(t), f)
  BY SumExists
<1> DEFINE g == [i \in 0..Len(s) |-> f[i]]
<1>3. IsSum(s, Len(s), g)
  <2>1. g \in [0..Len(s) -> Nat] /\ g[0] = 0
    BY <1>1, <1>2 DEF IsSum
  <2>2. ASSUME NEW i \in 1..Len(s) PROVE g[i] = g[i - 1] + TextOf(s[i])
    BY <1>1, <1>2 DEF IsSum, Prefix
  <2> QED
    BY <2>1, <2>2 DEF IsSum
<1>4. TextSum(t) = f[Len(t)] /\ TextSum(s) = g[Len(s)]
  BY <1>2, <1>3, TextSumIs
<1> DEFINE S == {n \in Nat : Len(s) + n <= Len(t) => f[Len(s)] <= f[Len(s) + n]}
<1>5. 0 \in S
  BY <1>1, <1>2 DEF IsSum
<1>6. ASSUME NEW n \in Nat, n \in S PROVE n + 1 \in S
  <2>1. SUFFICES ASSUME Len(s) + n + 1 <= Len(t) PROVE f[Len(s)] <= f[Len(s) + (n + 1)]
    BY <1>1
  <2> DEFINE m == Len(s) + n
  <2>2. m \in Nat /\ m + 1 \in 1..Len(t) /\ m \in 0..Len(t) /\ Len(s) \in 0..Len(t)
    BY <1>1, <2>1
  <2>3. f[Len(s)] <= f[m]
    BY <1>6, <2>2
  <2>4. f[m + 1] = f[m] + TextOf(t[m + 1]) /\ f[m] \in Nat /\ f[Len(s)] \in Nat
    BY <1>2, <2>2 DEF IsSum
  <2>5. TextOf(t[m + 1]) \in Nat
    BY <2>2, TextOfType
  <2>6. f[Len(s)] <= f[m + 1]
    BY <2>3, <2>4, <2>5
  <2> QED
    BY <2>6, <1>1
<1> HIDE DEF S
<1>7. \A n \in Nat : n \in S
  BY <1>5, <1>6, SetInduction
<1>8. Len(t) - Len(s) \in S
  BY <1>7, <1>1
<1> QED
  BY <1>1, <1>4, <1>8 DEF S
-----------------------------------------------------------------------------
(* What a move from the channel to the bus, a send and a loss do to Sent.  *)
LEMMA ConcatIs ==
    ASSUME NEW b \in Seq(Event), NEW c \in Seq(Event)
    PROVE  /\ b \o c \in Seq(Event) /\ Len(b \o c) = Len(b) + Len(c)
           /\ \A i \in 1..Len(b) : (b \o c)[i] = b[i]
           /\ \A i \in 1..Len(c) : (b \o c)[Len(b) + i] = c[i]
  OBVIOUS

(* Sequences of the same length with the same events are the same. *)
LEMMA SameEvents ==
    ASSUME NEW s \in Seq(Event), NEW t \in Seq(Event), Len(s) = Len(t),
           \A i \in 1..Len(s) : s[i] = t[i]
    PROVE  s = t
  OBVIOUS

(* Publishing the first waiting event leaves what was sent as it is. *)
LEMMA MoveHead ==
    ASSUME NEW b \in Seq(Event), NEW c \in Seq(Event), c # <<>>
    PROVE  /\ Head(c) \in Event /\ Tail(c) \in Seq(Event) /\ Len(Tail(c)) = Len(c) - 1
           /\ Append(b, Head(c)) \o Tail(c) = b \o c
           /\ Prefix(Append(b, Head(c)), b \o c)
<1> DEFINE a == Append(b, Head(c))
           d == Tail(c)
<1>0. Len(b) \in Nat /\ Len(c) \in Nat \ {0}
  OBVIOUS
<1>1. /\ Head(c) = c[1] /\ Head(c) \in Event
      /\ d \in Seq(Event) /\ Len(d) = Len(c) - 1
      /\ \A i \in 1..Len(d) : d[i] = c[i + 1]
  OBVIOUS
<1>2. /\ a \in Seq(Event) /\ Len(a) = Len(b) + 1 /\ a[Len(b) + 1] = c[1]
      /\ \A i \in 1..Len(b) : a[i] = b[i]
  BY <1>1
<1> HIDE DEF a, d
<1>3. /\ a \o d \in Seq(Event) /\ b \o c \in Seq(Event)
      /\ Len(a \o d) = Len(b \o c) /\ Len(b \o c) = Len(b) + Len(c)
  <2>1. b \o c \in Seq(Event) /\ Len(b \o c) = Len(b) + Len(c)
    BY ConcatIs
  <2>2. a \o d \in Seq(Event) /\ Len(a \o d) = Len(a) + Len(d)
    BY <1>1, <1>2, ConcatIs
  <2> QED
    BY <2>1, <2>2, <1>0, <1>1, <1>2
<1>4. ASSUME NEW i \in 1..(Len(b) + Len(c)) PROVE (a \o d)[i] = (b \o c)[i]
  <2>1. CASE i <= Len(b)
    BY <2>1, <1>0, <1>2, <1>1, ConcatIs
  <2>2. CASE i = Len(b) + 1
    <3>1. (a \o d)[i] = c[1]
      BY <2>2, <1>0, <1>2, <1>1, ConcatIs
    <3>2. (b \o c)[Len(b) + 1] = c[1]
      BY <1>0, ConcatIs
    <3> QED
      BY <3>1, <3>2, <2>2
  <2>3. CASE i > Len(b) + 1
    <3> DEFINE k == i - (Len(b) + 1)
    <3>1. k \in 1..Len(d) /\ i = Len(a) + k /\ k + 1 \in 1..Len(c) /\ i = Len(b) + (k + 1)
      BY <2>3, <1>0, <1>1, <1>2, <1>3
    <3> HIDE DEF k
    <3>2. (a \o d)[Len(a) + k] = d[k]
      BY <3>1, <1>1, <1>2, ConcatIs
    <3>3. (b \o c)[Len(b) + (k + 1)] = c[k + 1]
      BY <3>1, ConcatIs
    <3> QED
      BY <3>1, <3>2, <3>3, <1>1
  <2>4. i <= Len(b) \/ i = Len(b) + 1 \/ i > Len(b) + 1
    BY <1>0
  <2> QED
    BY <2>1, <2>2, <2>3, <2>4, Zenon
<1>5. a \o d = b \o c
  BY <1>3, <1>4, SameEvents
<1>6. Prefix(a, b \o c)
  <2>1. \A i \in 1..Len(a) : (a \o d)[i] = a[i]
    BY <1>1, <1>2, ConcatIs
  <2> QED
    BY <2>1, <1>5, <1>2, <1>3, <1>0 DEF Prefix
<1> QED
  BY <1>1, <1>5, <1>6 DEF a, d

(* Sending an event appends it to what was sent. *)
LEMMA SendLast ==
    ASSUME NEW b \in Seq(Event), NEW c \in Seq(Event), NEW e \in Event
    PROVE  b \o Append(c, e) = Append(b \o c, e)
<1> DEFINE d == Append(c, e)
           s == b \o c
           t == Append(s, e)
<1>0. Len(b) \in Nat /\ Len(c) \in Nat
  OBVIOUS
<1>1. /\ d \in Seq(Event) /\ Len(d) = Len(c) + 1 /\ d[Len(c) + 1] = e
      /\ \A i \in 1..Len(c) : d[i] = c[i]
  OBVIOUS
<1>2. /\ s \in Seq(Event) /\ Len(s) = Len(b) + Len(c)
      /\ \A i \in 1..Len(b) : s[i] = b[i]
      /\ \A i \in 1..Len(c) : s[Len(b) + i] = c[i]
  BY ConcatIs
<1> HIDE DEF d, s
<1>3. /\ t \in Seq(Event) /\ Len(t) = Len(s) + 1 /\ t[Len(s) + 1] = e
      /\ \A i \in 1..Len(s) : t[i] = s[i]
  BY <1>2
<1> HIDE DEF t
<1>4. /\ b \o d \in Seq(Event) /\ Len(b \o d) = Len(b) + Len(d)
      /\ \A i \in 1..Len(b) : (b \o d)[i] = b[i]
      /\ \A i \in 1..Len(d) : (b \o d)[Len(b) + i] = d[i]
  BY <1>1, ConcatIs
<1>5. ASSUME NEW i \in 1..(Len(b) + Len(c) + 1) PROVE (b \o d)[i] = t[i]
  <2>1. CASE i <= Len(b)
    BY <2>1, <1>0, <1>2, <1>3, <1>4
  <2>2. CASE i > Len(b)
    <3> DEFINE k == i - Len(b)
    <3>1. k \in 1..Len(d) /\ i = Len(b) + k
      BY <2>2, <1>0, <1>1, <1>2, <1>3
    <3> HIDE DEF k
    <3>2. (b \o d)[i] = d[k]
      BY <3>1, <1>4
    <3>3. CASE k <= Len(c)
      BY <3>1, <3>2, <3>3, <1>0, <1>1, <1>2, <1>3
    <3>4. CASE k = Len(c) + 1
      BY <3>1, <3>2, <3>4, <1>0, <1>1, <1>2, <1>3
    <3> QED
      BY <3>1, <3>3, <3>4, <1>0, <1>1
  <2>3. i <= Len(b) \/ i > Len(b)
    BY <1>0
  <2> QED
    BY <2>1, <2>2, <2>3, Zenon
<1>6. Len(b \o d) = Len(t)
  BY <1>0, <1>1, <1>2, <1>3, <1>4
<1>7. b \o d = t
  BY <1>0, <1>1, <1>2, <1>3, <1>4, <1>5, <1>6, SameEvents
<1> QED
  BY <1>7 DEF d, s, t

(* With an empty channel what was sent is what was published. *)
LEMMA NothingWaits ==
    ASSUME NEW b \in Seq(Event)
    PROVE  b \o <<>> = b
  OBVIOUS

(* What was published is how what was sent begins. *)
LEMMA BusIsPrefix ==
    ASSUME NEW b \in Seq(Event), NEW c \in Seq(Event)
    PROVE  Prefix(b, b \o c)
  BY ConcatIs DEF Prefix

(* A sequence with one event more, position by position. *)
LEMMA AppendIs ==
    ASSUME NEW s \in Seq(Event), NEW e \in Event
    PROVE  /\ Append(s, e) \in Seq(Event) /\ Len(s) \in Nat
           /\ Len(Append(s, e)) = Len(s) + 1
           /\ Append(s, e)[Len(s) + 1] = e
           /\ \A i \in 1..Len(s) : Append(s, e)[i] = s[i]
  OBVIOUS

-----------------------------------------------------------------------------
(* The properties of a stream pass to its first events, and to one event   *)
(* more that continues it.                                                 *)
LEMMA InOrderPrefix ==
    ASSUME NEW s \in Seq(Event), NEW t \in Seq(Event), Prefix(s, t), InOrder(t)
    PROVE  InOrder(s)
<1> SUFFICES ASSUME NEW j \in 1..Len(s), NEW i \in 1..(j - 1)
             PROVE  s[i].seq < s[j].seq /\ s[i].kind \notin TerminalKinds
  BY DEF InOrder
<1>1. i \in 1..Len(s) /\ j \in 1..Len(t) /\ s[i] = t[i] /\ s[j] = t[j]
  BY DEF Prefix
<1> QED
  BY <1>1 DEF InOrder

(* A later event that follows no end continues the order. *)
LEMMA InOrderAppend ==
    ASSUME NEW s \in Seq(Event), NEW e \in Event, InOrder(s),
           NoKind(s, TerminalKinds), \A i \in 1..Len(s) : s[i].seq < e.seq
    PROVE  InOrder(Append(s, e))
<1> DEFINE t == Append(s, e)
<1>1. /\ Len(s) \in Nat /\ Len(t) = Len(s) + 1 /\ t[Len(s) + 1] = e
      /\ \A i \in 1..Len(s) : t[i] = s[i]
  BY AppendIs
<1> HIDE DEF t
<1>2. ASSUME NEW j \in 1..Len(t), NEW i \in 1..(j - 1)
      PROVE  t[i].seq < t[j].seq /\ t[i].kind \notin TerminalKinds
  <2>1. i \in 1..Len(s) /\ t[i] = s[i]
    BY <1>1
  <2>2. CASE j \in 1..Len(s)
    BY <2>1, <2>2, <1>1 DEF InOrder
  <2>3. CASE j = Len(s) + 1
    BY <2>1, <2>3, <1>1 DEF NoKind
  <2> QED
    BY <2>2, <2>3, <1>1
<1> QED
  BY <1>2 DEF InOrder, t

(* The first events of a paired stream are paired. *)
LEMMA PairedPrefix ==
    ASSUME NEW s \in Seq(Event), NEW t \in Seq(Event), Prefix(s, t), Paired(t)
    PROVE  Paired(s)
<1>1. ASSUME NEW j \in 1..Len(s), NEW kind, NEW id
      PROVE  Before(s, j, kind, id) <=> Before(t, j, kind, id)
  <2>1. \A i \in 1..(j - 1) : s[i] = t[i]
    BY DEF Prefix
  <2> QED
    BY <2>1 DEF Before
<1>2. \A j \in 1..Len(s) : j \in 1..Len(t) /\ s[j] = t[j]
  BY DEF Prefix
<1> QED
  BY <1>1, <1>2 DEF Paired

(* An event that fits continues a paired stream. *)
LEMMA PairedAppend ==
    ASSUME NEW s \in Seq(Event), NEW e \in Event, Paired(s), Fits(s, e)
    PROVE  Paired(Append(s, e))
<1> DEFINE t == Append(s, e)
<1>1. /\ Len(s) \in Nat /\ Len(t) = Len(s) + 1 /\ t[Len(s) + 1] = e
      /\ \A i \in 1..Len(s) : t[i] = s[i]
  BY AppendIs
<1> HIDE DEF t
<1>2. ASSUME NEW j \in 1..Len(s), NEW kind, NEW id
      PROVE  Before(s, j, kind, id) <=> Before(t, j, kind, id)
  BY <1>1 DEF Before
<1>3. ASSUME NEW kind, NEW id
      PROVE  Before(t, Len(s) + 1, kind, id) <=> Has(s, kind, id)
  BY <1>1 DEF Before, Has
<1>4. ASSUME NEW j \in 1..Len(t), t[j].about \in Tools
      PROVE  /\ t[j].kind = "toolStart" => ~Before(t, j, "toolStart", t[j].about)
             /\ t[j].kind \in {"toolArgs", "toolEnd"} =>
                   /\ Before(t, j, "toolStart", t[j].about)
                   /\ ~Before(t, j, "toolEnd", t[j].about)
  <2>1. CASE j \in 1..Len(s)
    BY <1>1, <1>2, <1>4, <2>1 DEF Paired
  <2>2. CASE j = Len(s) + 1
    BY <1>1, <1>3, <1>4, <2>2 DEF Fits
  <2> QED
    BY <2>1, <2>2, <1>1
<1> QED
  BY <1>4 DEF Paired, t

(* The events of a stream with one more. *)
LEMMA HasAppend ==
    ASSUME NEW s \in Seq(Event), NEW e \in Event, NEW kind, NEW id
    PROVE  Has(Append(s, e), kind, id) <=>
              Has(s, kind, id) \/ (e.kind = kind /\ e.about = id)
<1> DEFINE t == Append(s, e)
<1>1. /\ Len(s) \in Nat /\ Len(t) = Len(s) + 1 /\ t[Len(s) + 1] = e
      /\ \A i \in 1..Len(s) : t[i] = s[i]
  BY AppendIs
<1> HIDE DEF t
<1>2. Has(t, kind, id) => Has(s, kind, id) \/ (e.kind = kind /\ e.about = id)
  BY <1>1 DEF Has
<1>3. Has(s, kind, id) => Has(t, kind, id)
  BY <1>1 DEF Has
<1>4. e.kind = kind /\ e.about = id => Has(t, kind, id)
  <2>1. Len(s) + 1 \in 1..Len(t)
    BY <1>1
  <2> QED
    BY <2>1, <1>1 DEF Has
<1> QED
  BY <1>2, <1>3, <1>4 DEF t

(* One event of another kind adds none of these kinds. *)
LEMMA NoKindAppend ==
    ASSUME NEW s \in Seq(Event), NEW e \in Event, NEW kinds,
           NoKind(s, kinds), e.kind \notin kinds
    PROVE  NoKind(Append(s, e), kinds)
<1>1. ASSUME NEW i \in 1..(Len(s) + 1) PROVE Append(s, e)[i].kind \notin kinds
  <2>1. CASE i \in 1..Len(s)
    BY <2>1, AppendIs DEF NoKind
  <2>2. CASE i = Len(s) + 1
    BY <2>2, AppendIs
  <2> QED
    BY <2>1, <2>2, AppendIs
<1> QED
  BY <1>1, AppendIs DEF NoKind

(* What holds of the pairing is what the property says. *)
LEMMA PairedIsPaired ==
    ASSUME bus \in Seq(Event), Paired(bus),
           (\E i \in 1..Len(bus) : bus[i].kind = "finished") => AllEnded(bus)
    PROVE  ToolCallsPaired
<1>0. Len(bus) \in Nat
  OBVIOUS
<1>1. ASSUME NEW id \in Tools, NEW i \in 1..Len(bus), NEW j \in 1..Len(bus), i < j,
             bus[i].about = id, bus[j].about = id
      PROVE  /\ ~(bus[i].kind = "toolStart" /\ bus[j].kind = "toolStart")
             /\ ~(bus[i].kind = "toolEnd" /\ bus[j].kind = "toolEnd")
             /\ ~(bus[i].kind = "toolEnd" /\ bus[j].kind = "toolArgs")
  <2>1. i \in 1..(j - 1)
    BY <1>1, <1>0
  <2> QED
    BY <1>1, <2>1 DEF Paired, Before
<1>2. ASSUME NEW id \in Tools, NEW j \in 1..Len(bus), bus[j].about = id,
             bus[j].kind \in {"toolArgs", "toolEnd"}
      PROVE  \E i \in 1..(j - 1) : bus[i].kind = "toolStart" /\ bus[i].about = id
  BY <1>2 DEF Paired, Before
<1>3. ASSUME NEW id \in Tools, NEW i \in 1..Len(bus), NEW j \in 1..Len(bus),
             bus[i].about = id, bus[j].about = id
      PROVE  /\ bus[i].kind = "toolStart" /\ bus[j].kind = "toolStart" => i = j
             /\ bus[i].kind = "toolEnd" /\ bus[j].kind = "toolEnd" => i = j
             /\ bus[i].kind = "toolEnd" /\ bus[j].kind = "toolArgs" => j < i
  <2>1. CASE i < j
    BY <1>1, <1>3, <2>1
  <2>2. CASE j < i
    BY <1>1, <1>3, <2>2
  <2>3. CASE i = j
    BY <2>3
  <2> QED
    BY <2>1, <2>2, <2>3, <1>0
<1>4. ASSUME NEW id \in Tools,
             \E i \in 1..Len(bus) : bus[i].kind = "finished",
             \E i \in 1..Len(bus) : bus[i].kind = "toolStart" /\ bus[i].about = id
      PROVE  \E i \in 1..Len(bus) : bus[i].kind = "toolEnd" /\ bus[i].about = id
  BY <1>4 DEF AllEnded, Has
<1>5. ASSUME NEW id \in Tools, NEW i \in 1..Len(bus), NEW j \in 1..Len(bus)
      PROVE  LET At(kind, x, n) == bus[n].kind = kind /\ bus[n].about = x
             IN  /\ At("toolStart", id, i) /\ At("toolStart", id, j) => i = j
                 /\ At("toolEnd", id, i) /\ At("toolEnd", id, j) => i = j
                 /\ At("toolEnd", id, i) /\ At("toolArgs", id, j) => j < i
  BY <1>3, Zenon
<1>6. ASSUME NEW id \in Tools, NEW j \in 1..Len(bus)
      PROVE  LET At(kind, x, n) == bus[n].kind = kind /\ bus[n].about = x
             IN  At("toolArgs", id, j) \/ At("toolEnd", id, j) =>
                    \E i \in 1..(j - 1) : At("toolStart", id, i)
  BY <1>2
<1> QED
  BY <1>4, <1>5, <1>6, Zenon DEF ToolCallsPaired
-----------------------------------------------------------------------------
(* The runner.  What its steps keep, and what they leave alone. *)
RunnerMoves ==
    /\ phase = "running"
    /\ runner.pc # "done"
    /\ runner.seq <= runner'.seq
    /\ RunnerOnly

(* What a step of the runner alone leaves as it is. *)
LEMMA FrameOfRunner ==
    ASSUME RunnerOnly
    PROVE  /\ phase' = phase /\ registered' = registered /\ cancelled' = cancelled
           /\ launch' = launch /\ channel' = channel /\ forwarder' = forwarder
           /\ verdict' = verdict /\ row' = row /\ generation' = generation
           /\ bus' = bus /\ Sent' = Sent /\ Shown' = Shown
  BY DEF RunnerOnly, storeVars, Sent, Shown

(* The types of the rest follow. *)
LEMMA RestOfType ==
    ASSUME TypeOK, RunnerOnly,
           queue' \in Seq(AnyInput), Len(queue') <= QueueCap, runner' \in Runner,
           withheld' \in [Streams -> Nat], active' \subseteq Tools,
           completed' \in Seq(Tools), outbox' \in Seq(Event), Len(outbox') <= 1
    PROVE  TypeOK'
  BY FrameOfRunner DEF TypeOK

(* A note is an event with the parts it was given. *)
LEMMA NoteIs ==
    ASSUME NEW kind \in {"started", "text", "reasoning", "toolStart", "toolArgs",
                         "toolEnd", "usage", "committed"} \cup TerminalKinds,
           NEW about \in {"none"} \cup Tools \cup Terminal, NEW amount \in Nat
    PROVE  /\ Note(kind, about, amount) \in Event
           /\ Note(kind, about, amount).kind = kind
           /\ Note(kind, about, amount).about = about
           /\ Note(kind, about, amount).amount = amount
  BY DEF Note, Event

(* An outbox with one event. *)
LEMMA HeadOfOne ==
    ASSUME NEW e \in Event
    PROVE  /\ <<e>> \in Seq(Event) /\ Len(<<e>>) = 1 /\ <<e>> # <<>> /\ Head(<<e>>) = e
  OBVIOUS

(* A step that says nothing and touches no call. *)
LEMMA QuietStep ==
    ASSUME RunnerInv, RunnerOnly, phase = "running", outbox = <<>>, outbox' = <<>>,
           runner.pc # "done", runner' \in Runner,
           runner'.text = runner.text, runner.seq <= runner'.seq, runner'.pc # "start",
           runner'.pc # "done" => runner'.count <= MaxEvents,
           runner.pc \in {"flush", "last"} => runner'.pc \in {"flush", "last", "done"},
           runner'.pc \in {"flush", "last"} \/ (runner'.pc = "done" /\ runner'.result = "ok")
              => active = {},
           runner'.pc = "last" \/ (runner'.pc = "done" /\ runner'.result = "ok")
              => completed = <<>>,
           queue' \in Seq(AnyInput), Len(queue') <= QueueCap,
           withheld' \in [Streams -> Nat], active' = active, completed' = completed
    PROVE  RunnerInv' /\ RunnerMoves
<1>0. /\ phase' = phase /\ launch' = launch /\ forwarder' = forwarder
      /\ Sent' = Sent /\ Shown' = Shown
  BY FrameOfRunner
<1>1. TypeOK'
  BY RestOfType DEF RunnerInv, TypeOK
<1>2. RunnerSpeaks'
  BY DEF RunnerSpeaks
<1>3. CallsTracked'
  BY DEF RunnerInv, CallsTracked, IsCompleted
<1>4. CallsSeen'
  <2>1. SUFFICES ASSUME forwarder.pc # "failed", NEW id \in Tools PROVE CallSeen(id)'
    BY <1>0 DEF CallsSeen
  <2>2. CallSeen(id)
    BY <2>1 DEF RunnerInv, CallsSeen
  <2>3. IsCompleted(id)' <=> IsCompleted(id)
    BY DEF IsCompleted
  <2>4. runner.pc \in {"flush", "last", "done"} => runner'.pc \in {"flush", "last", "done"}
    OBVIOUS
  <2> QED
    BY <1>0, <2>2, <2>3, <2>4 DEF CallSeen, Outgoing
<1>5. TextCounted'
  BY <1>0 DEF RunnerInv, TextCounted, Owed
<1> QED
  BY <1>1, <1>2, <1>3, <1>4, <1>5 DEF RunnerInv, RunnerMoves
(* The steps that say nothing. *)
LEMMA RunnerRefusesKeeps ==
    ASSUME RunnerInv, RunnerRefuses
    PROVE  RunnerInv' /\ RunnerMoves
<1>1. runner \in Runner /\ queue \in Seq(AnyInput) /\ Len(queue) <= QueueCap
      /\ withheld \in [Streams -> Nat] /\ QueueCap \in Nat /\ MaxEvents \in Nat
      /\ RunnerSpeaks /\ CallsTracked
  BY GenerationAssumption DEF RunnerInv, TypeOK
<1>2. phase = "running" /\ outbox = <<>> /\ runner.pc # "done"
      /\ runner.seq \in Nat /\ runner.count \in 0..MaxEvents
      /\ runner.count + 1 \in 0..(MaxEvents + 1)
  BY <1>1 DEF RunnerRefuses, Awaits, RunnerSpeaks, Runner
<1>3. /\ RunnerOnly /\ outbox' = <<>> /\ withheld' = withheld
      /\ active' = active /\ completed' = completed
  BY <1>2 DEF RunnerRefuses, Awaits
<1>4. queue' \in Seq(AnyInput) /\ Len(queue') <= QueueCap
  BY <1>1 DEF RunnerRefuses, Awaits
<1>5. runner' \in Runner
  BY <1>1, <1>2 DEF RunnerRefuses, Awaits, Runner
<1>6. runner'.text = runner.text /\ runner'.pc # "start" /\ runner.seq <= runner'.seq
  BY <1>1, <1>2 DEF RunnerRefuses, Awaits, RunnerSpeaks, Runner
<1>7. runner'.pc # "done" => runner'.count <= MaxEvents
  BY <1>1, <1>2 DEF RunnerRefuses, Awaits, Runner
<1>8. /\ runner.pc \in {"flush", "last"} => runner'.pc \in {"flush", "last", "done"}
      /\ runner'.pc \in {"flush", "last"} \/ (runner'.pc = "done" /\ runner'.result = "ok")
            => active = {}
  BY <1>1 DEF RunnerRefuses, Awaits, CallsTracked, Runner
<1>9. runner'.pc = "last" \/ (runner'.pc = "done" /\ runner'.result = "ok")
         => completed = <<>>
  BY <1>1 DEF RunnerRefuses, Awaits, CallsTracked, Runner
<1> QED
  BY <1>1, <1>2, <1>3, <1>4, <1>5, <1>6, <1>7, <1>8, <1>9, QuietStep

(* The check before the provider is called. *)
LEMMA CheckCancelledKeeps ==
    ASSUME RunnerInv, CheckCancelled
    PROVE  RunnerInv' /\ RunnerMoves
<1>1. runner \in Runner /\ queue \in Seq(AnyInput) /\ Len(queue) <= QueueCap
      /\ withheld \in [Streams -> Nat] /\ QueueCap \in Nat /\ MaxEvents \in Nat
      /\ RunnerSpeaks /\ CallsTracked
  BY GenerationAssumption DEF RunnerInv, TypeOK
<1>2. phase = "running" /\ outbox = <<>> /\ runner.pc # "done"
      /\ runner.seq \in Nat /\ runner.count \in 0..MaxEvents
      /\ runner.count + 1 \in 0..(MaxEvents + 1)
  BY <1>1 DEF CheckCancelled, Awaits, Stop, RunnerSpeaks, Runner
<1>3. /\ RunnerOnly /\ outbox' = <<>> /\ withheld' = withheld
      /\ active' = active /\ completed' = completed
  BY <1>2 DEF CheckCancelled, Awaits, Stop
<1>4. queue' \in Seq(AnyInput) /\ Len(queue') <= QueueCap
  BY <1>1 DEF CheckCancelled, Awaits, Stop
<1>5. runner' \in Runner
  <2>1. CASE Stop("cancelled")
    BY <1>1, <1>2, <2>1 DEF CheckCancelled, Awaits, Stop, Runner
  <2>2. CASE runner' = [runner EXCEPT !.pc = "collect"]
    BY <1>1, <1>2, <2>2 DEF CheckCancelled, Awaits, Stop, Runner
  <2> QED
    BY <2>1, <2>2 DEF CheckCancelled, Awaits, Stop
<1>6. runner'.text = runner.text /\ runner'.pc # "start" /\ runner.seq <= runner'.seq
  <2>1. CASE Stop("cancelled")
    BY <1>1, <1>2, <2>1 DEF CheckCancelled, Awaits, Stop, RunnerSpeaks, Runner
  <2>2. CASE runner' = [runner EXCEPT !.pc = "collect"]
    BY <1>1, <1>2, <2>2 DEF CheckCancelled, Awaits, Stop, RunnerSpeaks, Runner
  <2> QED
    BY <2>1, <2>2 DEF CheckCancelled, Awaits, Stop
<1>7. runner'.pc # "done" => runner'.count <= MaxEvents
  <2>1. CASE Stop("cancelled")
    BY <1>1, <1>2, <2>1 DEF CheckCancelled, Awaits, Stop, Runner
  <2>2. CASE runner' = [runner EXCEPT !.pc = "collect"]
    BY <1>1, <1>2, <2>2 DEF CheckCancelled, Awaits, Stop, Runner
  <2> QED
    BY <2>1, <2>2 DEF CheckCancelled, Awaits, Stop
<1>8. /\ runner.pc \in {"flush", "last"} => runner'.pc \in {"flush", "last", "done"}
      /\ runner'.pc \in {"flush", "last"} \/ (runner'.pc = "done" /\ runner'.result = "ok")
            => active = {}
  BY <1>1 DEF CheckCancelled, Awaits, Stop, CallsTracked, Runner
<1>9. runner'.pc = "last" \/ (runner'.pc = "done" /\ runner'.result = "ok")
         => completed = <<>>
  BY <1>1 DEF CheckCancelled, Awaits, Stop, CallsTracked, Runner
<1> QED
  BY <1>1, <1>2, <1>3, <1>4, <1>5, <1>6, <1>7, <1>8, <1>9, QuietStep

(* The cancellation branch of select!. *)
LEMMA ObserveCancelKeeps ==
    ASSUME RunnerInv, ObserveCancel
    PROVE  RunnerInv' /\ RunnerMoves
<1>1. runner \in Runner /\ queue \in Seq(AnyInput) /\ Len(queue) <= QueueCap
      /\ withheld \in [Streams -> Nat] /\ QueueCap \in Nat /\ MaxEvents \in Nat
      /\ RunnerSpeaks /\ CallsTracked
  BY GenerationAssumption DEF RunnerInv, TypeOK
<1>2. phase = "running" /\ outbox = <<>> /\ runner.pc # "done"
      /\ runner.seq \in Nat /\ runner.count \in 0..MaxEvents
      /\ runner.count + 1 \in 0..(MaxEvents + 1)
  BY <1>1 DEF ObserveCancel, Awaits, RunnerSpeaks, Runner
<1>3. /\ RunnerOnly /\ outbox' = <<>> /\ withheld' = withheld
      /\ active' = active /\ completed' = completed
  BY <1>2 DEF ObserveCancel, Awaits
<1>4. queue' \in Seq(AnyInput) /\ Len(queue') <= QueueCap
  BY <1>1 DEF ObserveCancel, Awaits
<1>5. runner' \in Runner
  BY <1>1, <1>2 DEF ObserveCancel, Awaits, Runner
<1>6. runner'.text = runner.text /\ runner'.pc # "start" /\ runner.seq <= runner'.seq
  BY <1>1, <1>2 DEF ObserveCancel, Awaits, RunnerSpeaks, Runner
<1>7. runner'.pc # "done" => runner'.count <= MaxEvents
  BY <1>1, <1>2 DEF ObserveCancel, Awaits, Runner
<1>8. /\ runner.pc \in {"flush", "last"} => runner'.pc \in {"flush", "last", "done"}
      /\ runner'.pc \in {"flush", "last"} \/ (runner'.pc = "done" /\ runner'.result = "ok")
            => active = {}
  BY <1>1 DEF ObserveCancel, Awaits, CallsTracked, Runner
<1>9. runner'.pc = "last" \/ (runner'.pc = "done" /\ runner'.result = "ok")
         => completed = <<>>
  BY <1>1 DEF ObserveCancel, Awaits, CallsTracked, Runner
<1> QED
  BY <1>1, <1>2, <1>3, <1>4, <1>5, <1>6, <1>7, <1>8, <1>9, QuietStep

(* The result branch of select!. *)
LEMMA ProviderReturnsKeeps ==
    ASSUME RunnerInv, NEW result \in {"ok", "error", "cancelled"}, ProviderReturns(result)
    PROVE  RunnerInv' /\ RunnerMoves
<1>1. runner \in Runner /\ queue \in Seq(AnyInput) /\ Len(queue) <= QueueCap
      /\ withheld \in [Streams -> Nat] /\ QueueCap \in Nat /\ MaxEvents \in Nat
      /\ RunnerSpeaks /\ CallsTracked
  BY GenerationAssumption DEF RunnerInv, TypeOK
<1>2. phase = "running" /\ outbox = <<>> /\ runner.pc # "done"
      /\ runner.seq \in Nat /\ runner.count \in 0..MaxEvents
      /\ runner.count + 1 \in 0..(MaxEvents + 1)
  BY <1>1 DEF ProviderReturns, Awaits, RunnerSpeaks, Runner
<1>3. /\ RunnerOnly /\ outbox' = <<>> /\ withheld' = withheld
      /\ active' = active /\ completed' = completed
  BY <1>2 DEF ProviderReturns, Awaits
<1>4. queue' \in Seq(AnyInput) /\ Len(queue') <= QueueCap
  BY <1>1 DEF ProviderReturns, Awaits
<1>5. runner' \in Runner
  BY <1>1, <1>2 DEF ProviderReturns, Awaits, Runner
<1>6. runner'.text = runner.text /\ runner'.pc # "start" /\ runner.seq <= runner'.seq
  BY <1>1, <1>2 DEF ProviderReturns, Awaits, RunnerSpeaks, Runner
<1>7. runner'.pc # "done" => runner'.count <= MaxEvents
  BY <1>1, <1>2 DEF ProviderReturns, Awaits, Runner
<1>8. /\ runner.pc \in {"flush", "last"} => runner'.pc \in {"flush", "last", "done"}
      /\ runner'.pc \in {"flush", "last"} \/ (runner'.pc = "done" /\ runner'.result = "ok")
            => active = {}
  BY <1>1 DEF ProviderReturns, Awaits, CallsTracked, Runner
<1>9. runner'.pc = "last" \/ (runner'.pc = "done" /\ runner'.result = "ok")
         => completed = <<>>
  BY <1>1 DEF ProviderReturns, Awaits, CallsTracked, Runner
<1> QED
  BY <1>1, <1>2, <1>3, <1>4, <1>5, <1>6, <1>7, <1>8, <1>9, QuietStep

(* A provider event that is refused. *)
LEMMA RejectEventKeeps ==
    ASSUME RunnerInv, RejectEvent
    PROVE  RunnerInv' /\ RunnerMoves
<1>1. runner \in Runner /\ queue \in Seq(AnyInput) /\ Len(queue) <= QueueCap
      /\ withheld \in [Streams -> Nat] /\ QueueCap \in Nat /\ MaxEvents \in Nat
      /\ RunnerSpeaks /\ CallsTracked
  BY GenerationAssumption DEF RunnerInv, TypeOK
<1>2. phase = "running" /\ outbox = <<>> /\ runner.pc # "done"
      /\ runner.seq \in Nat /\ runner.count \in 0..MaxEvents
      /\ runner.count + 1 \in 0..(MaxEvents + 1)
  BY <1>1 DEF RejectEvent, Awaits, RunnerSpeaks, Runner
<1>3. /\ RunnerOnly /\ outbox' = <<>> /\ withheld' = withheld
      /\ active' = active /\ completed' = completed
  BY <1>2 DEF RejectEvent, Awaits
<1>4. queue' \in Seq(AnyInput) /\ Len(queue') <= QueueCap
  BY <1>1 DEF RejectEvent, Awaits
<1>5. runner' \in Runner
  BY <1>1, <1>2 DEF RejectEvent, Awaits, Runner
<1>6. runner'.text = runner.text /\ runner'.pc # "start" /\ runner.seq <= runner'.seq
  BY <1>1, <1>2 DEF RejectEvent, Awaits, RunnerSpeaks, Runner
<1>7. runner'.pc # "done" => runner'.count <= MaxEvents
  BY <1>1, <1>2 DEF RejectEvent, Awaits, Runner
<1>8. /\ runner.pc \in {"flush", "last"} => runner'.pc \in {"flush", "last", "done"}
      /\ runner'.pc \in {"flush", "last"} \/ (runner'.pc = "done" /\ runner'.result = "ok")
            => active = {}
  BY <1>1 DEF RejectEvent, Awaits, CallsTracked, Runner
<1>9. runner'.pc = "last" \/ (runner'.pc = "done" /\ runner'.result = "ok")
         => completed = <<>>
  BY <1>1 DEF RejectEvent, Awaits, CallsTracked, Runner
<1> QED
  BY <1>1, <1>2, <1>3, <1>4, <1>5, <1>6, <1>7, <1>8, <1>9, QuietStep

(* The end of the drain: only a success without open calls goes on. *)
LEMMA DrainEndsKeeps ==
    ASSUME RunnerInv, DrainEnds
    PROVE  RunnerInv' /\ RunnerMoves
<1>1. runner \in Runner /\ queue \in Seq(AnyInput) /\ Len(queue) <= QueueCap
      /\ withheld \in [Streams -> Nat] /\ QueueCap \in Nat /\ MaxEvents \in Nat
      /\ RunnerSpeaks /\ CallsTracked
  BY GenerationAssumption DEF RunnerInv, TypeOK
<1>2. phase = "running" /\ outbox = <<>> /\ runner.pc # "done"
      /\ runner.seq \in Nat /\ runner.count \in 0..MaxEvents
      /\ runner.count + 1 \in 0..(MaxEvents + 1)
  BY <1>1 DEF DrainEnds, Awaits, Stop, RunnerSpeaks, Runner
<1>3. /\ RunnerOnly /\ outbox' = <<>> /\ withheld' = withheld
      /\ active' = active /\ completed' = completed
  BY <1>2 DEF DrainEnds, Awaits, Stop
<1>4. queue' \in Seq(AnyInput) /\ Len(queue') <= QueueCap
  BY <1>1 DEF DrainEnds, Awaits, Stop
<1>5. runner' \in Runner
  <2>1. CASE Stop(runner.result)
    BY <1>1, <1>2, <2>1 DEF DrainEnds, Awaits, Stop, Runner
  <2>2. CASE Stop("error")
    BY <1>1, <1>2, <2>2 DEF DrainEnds, Awaits, Stop, Runner
  <2>3. CASE runner' = [runner EXCEPT !.pc = "flush"]
    BY <1>1, <1>2, <2>3 DEF DrainEnds, Awaits, Stop, Runner
  <2> QED
    BY <2>1, <2>2, <2>3 DEF DrainEnds, Awaits, Stop
<1>6. runner'.text = runner.text /\ runner'.pc # "start" /\ runner.seq <= runner'.seq
  <2>1. CASE Stop(runner.result)
    BY <1>1, <1>2, <2>1 DEF DrainEnds, Awaits, Stop, RunnerSpeaks, Runner
  <2>2. CASE Stop("error")
    BY <1>1, <1>2, <2>2 DEF DrainEnds, Awaits, Stop, RunnerSpeaks, Runner
  <2>3. CASE runner' = [runner EXCEPT !.pc = "flush"]
    BY <1>1, <1>2, <2>3 DEF DrainEnds, Awaits, Stop, RunnerSpeaks, Runner
  <2> QED
    BY <2>1, <2>2, <2>3 DEF DrainEnds, Awaits, Stop
<1>7. runner'.pc # "done" => runner'.count <= MaxEvents
  <2>1. CASE Stop(runner.result)
    BY <1>1, <1>2, <2>1 DEF DrainEnds, Awaits, Stop, Runner
  <2>2. CASE Stop("error")
    BY <1>1, <1>2, <2>2 DEF DrainEnds, Awaits, Stop, Runner
  <2>3. CASE runner' = [runner EXCEPT !.pc = "flush"]
    BY <1>1, <1>2, <2>3 DEF DrainEnds, Awaits, Stop, Runner
  <2> QED
    BY <2>1, <2>2, <2>3 DEF DrainEnds, Awaits, Stop
<1>8. /\ runner.pc \in {"flush", "last"} => runner'.pc \in {"flush", "last", "done"}
      /\ runner'.pc \in {"flush", "last"} \/ (runner'.pc = "done" /\ runner'.result = "ok")
            => active = {}
  BY <1>1 DEF DrainEnds, Awaits, Stop, CallsTracked, Runner
<1>9. runner'.pc = "last" \/ (runner'.pc = "done" /\ runner'.result = "ok")
         => completed = <<>>
  BY <1>1 DEF DrainEnds, Awaits, Stop, CallsTracked, Runner
<1> QED
  BY <1>1, <1>2, <1>3, <1>4, <1>5, <1>6, <1>7, <1>8, <1>9, QuietStep

(* The end of run_generation. *)
LEMMA RunnerSucceedsKeeps ==
    ASSUME RunnerInv, RunnerSucceeds
    PROVE  RunnerInv' /\ RunnerMoves
<1>1. runner \in Runner /\ queue \in Seq(AnyInput) /\ Len(queue) <= QueueCap
      /\ withheld \in [Streams -> Nat] /\ QueueCap \in Nat /\ MaxEvents \in Nat
      /\ RunnerSpeaks /\ CallsTracked
  BY GenerationAssumption DEF RunnerInv, TypeOK
<1>2. phase = "running" /\ outbox = <<>> /\ runner.pc # "done"
      /\ runner.seq \in Nat /\ runner.count \in 0..MaxEvents
      /\ runner.count + 1 \in 0..(MaxEvents + 1)
  BY <1>1 DEF RunnerSucceeds, Awaits, Stop, RunnerSpeaks, Runner
<1>3. /\ RunnerOnly /\ outbox' = <<>> /\ withheld' = withheld
      /\ active' = active /\ completed' = completed
  BY <1>2 DEF RunnerSucceeds, Awaits, Stop
<1>4. queue' \in Seq(AnyInput) /\ Len(queue') <= QueueCap
  BY <1>1 DEF RunnerSucceeds, Awaits, Stop
<1>5. runner' \in Runner
  BY <1>1, <1>2 DEF RunnerSucceeds, Awaits, Stop, Runner
<1>6. runner'.text = runner.text /\ runner'.pc # "start" /\ runner.seq <= runner'.seq
  BY <1>1, <1>2 DEF RunnerSucceeds, Awaits, Stop, RunnerSpeaks, Runner
<1>7. runner'.pc # "done" => runner'.count <= MaxEvents
  BY <1>1, <1>2 DEF RunnerSucceeds, Awaits, Stop, Runner
<1>8. /\ runner.pc \in {"flush", "last"} => runner'.pc \in {"flush", "last", "done"}
      /\ runner'.pc \in {"flush", "last"} \/ (runner'.pc = "done" /\ runner'.result = "ok")
            => active = {}
  BY <1>1 DEF RunnerSucceeds, Awaits, Stop, CallsTracked, Runner
<1>9. runner'.pc = "last" \/ (runner'.pc = "done" /\ runner'.result = "ok")
         => completed = <<>>
  BY <1>1 DEF RunnerSucceeds, Awaits, Stop, CallsTracked, Runner
<1> QED
  BY <1>1, <1>2, <1>3, <1>4, <1>5, <1>6, <1>7, <1>8, <1>9, QuietStep

(* The provider fills its channel, also while the runner waits to send. *)
LEMMA ProviderSendsKeeps ==
    ASSUME RunnerInv, NEW e \in Inputs, ProviderSends(e)
    PROVE  RunnerInv' /\ RunnerMoves
<1>0. /\ RunnerOnly /\ phase = "running" /\ runner.pc # "done" /\ runner' = runner
      /\ withheld' = withheld /\ active' = active /\ completed' = completed
      /\ outbox' = outbox /\ queue' = Append(queue, e) /\ Len(queue) < QueueCap
  BY DEF ProviderSends
<1>1. /\ phase' = phase /\ launch' = launch /\ forwarder' = forwarder
      /\ Sent' = Sent /\ Shown' = Shown
  BY <1>0, FrameOfRunner
<1>2. e \in AnyInput /\ QueueCap \in Nat
  BY GenerationAssumption
<1>3. TypeOK'
  BY <1>0, <1>2, RestOfType DEF RunnerInv, TypeOK
<1>4. RunnerSpeaks' /\ CallsTracked'
  BY <1>0 DEF RunnerInv, RunnerSpeaks, CallsTracked, IsCompleted
<1>5. CallsSeen'
  <2>1. SUFFICES ASSUME forwarder.pc # "failed"
                 PROVE  /\ outbox' # <<>> => Fits(Sent', Head(outbox'))
                        /\ \A id \in Tools : CallSeen(id)'
    BY <1>1 DEF CallsSeen
  <2>2. (outbox # <<>> => Fits(Sent, Head(outbox))) /\ \A id \in Tools : CallSeen(id)
    BY <2>1, <1>0 DEF RunnerInv, CallsSeen
  <2>3. ASSUME NEW id \in Tools PROVE CallSeen(id)'
    <3>1. IsCompleted(id)' <=> IsCompleted(id)
      BY <1>0 DEF IsCompleted
    <3>2. CallSeen(id)
      BY <2>2
    <3> QED
      BY <1>0, <1>1, <3>1, <3>2 DEF CallSeen, Outgoing
  <2> QED
    BY <1>0, <1>1, <2>2, <2>3
<1>6. TextCounted'
  BY <1>0, <1>1 DEF RunnerInv, TextCounted, Owed
<1>7. runner.seq <= runner'.seq
  BY <1>0 DEF RunnerInv, TypeOK, Runner
<1> QED
  BY <1>0, <1>3, <1>4, <1>5, <1>6, <1>7 DEF RunnerInv, RunnerMoves

(* A step that leaves one event to send: what holds whatever the event is. *)
LEMMA SpeakStep ==
    ASSUME RunnerInv, RunnerOnly, phase = "running", outbox = <<>>,
           NEW e \in Event, outbox' = <<e>>,
           e.kind \notin TerminalKinds \cup {"committed"},
           runner' \in Runner, runner'.pc \notin {"start", "done"},
           runner'.count <= MaxEvents,
           runner.text \in Nat,
           runner'.text = runner.text + IF runner'.pc = "flush" THEN 0 ELSE TextOf(e),
           queue' \in Seq(AnyInput), Len(queue') <= QueueCap,
           withheld' \in [Streams -> Nat], active' \subseteq Tools,
           completed' \in Seq(Tools)
    PROVE  TypeOK' /\ RunnerSpeaks' /\ TextCounted'
<1>0. /\ phase' = phase /\ launch' = launch /\ forwarder' = forwarder
      /\ Sent' = Sent /\ Shown' = Shown
  BY FrameOfRunner
<1>1. outbox' \in Seq(Event) /\ Len(outbox') <= 1 /\ outbox' # <<>> /\ Head(outbox') = e
  BY HeadOfOne
<1>2. TypeOK'
  BY <1>1, RestOfType DEF RunnerInv
<1>3. RunnerSpeaks'
  BY <1>1 DEF RunnerSpeaks
<1>4. TextCounted'
  <2>1. TextOf(e) \in Nat /\ Owed = 0
    BY TextOfType DEF Owed
  <2>2. Owed' = IF runner'.pc = "flush" THEN 0 ELSE TextOf(e)
    BY <1>1 DEF Owed
  <2>3. TextSum(Sent) \in Nat /\ Shown \in Nat
    <3>1. Sent \in Seq(Event) /\ bus \in Seq(Event)
      BY ConcatIs DEF RunnerInv, TypeOK, Sent
    <3> QED
      BY <3>1, TextSumType DEF Shown
  <2>4. /\ forwarder.pc # "failed" => runner.text = TextSum(Sent) + Owed
        /\ runner.text >= Shown
        /\ launch.preserve => forwarder.seen = Shown
    BY DEF RunnerInv, TextCounted
  <2>5. TextSum(Sent)' = TextSum(Sent)
    BY <1>0
  <2> QED
    BY <1>0, <2>1, <2>2, <2>3, <2>4, <2>5 DEF TextCounted
<1> QED
  BY <1>2, <1>3, <1>4

(* An event that is about no call. *)
LEMMA PlainSpeakStep ==
    ASSUME RunnerInv, RunnerOnly, phase = "running", outbox = <<>>, runner.pc # "done",
           NEW e \in Event, outbox' = <<e>>,
           e.kind \in {"started", "text", "reasoning", "usage"},
           runner' \in Runner, runner'.pc \notin {"start", "done"},
           runner'.count <= MaxEvents,
           runner.seq <= runner'.seq,
           runner'.text = runner.text + IF runner'.pc = "flush" THEN 0 ELSE TextOf(e),
           runner.pc = "flush" => runner'.pc \in {"flush", "last"},
           runner.pc = "last" => runner'.pc = "last",
           runner'.pc = "flush" => runner.pc = "flush",
           runner'.pc = "last" => runner.pc \in {"flush", "last"} /\ completed = <<>>,
           queue' \in Seq(AnyInput), Len(queue') <= QueueCap,
           withheld' \in [Streams -> Nat], active' = active, completed' = completed
    PROVE  RunnerInv' /\ RunnerMoves
<1>0. /\ phase' = phase /\ launch' = launch /\ forwarder' = forwarder
      /\ Sent' = Sent /\ Shown' = Shown
  BY FrameOfRunner
<1>1. outbox' # <<>> /\ Head(outbox') = e
  BY HeadOfOne
<1>2. TypeOK' /\ RunnerSpeaks' /\ TextCounted'
  <2>1. active' \subseteq Tools /\ completed' \in Seq(Tools) /\ runner.text \in Nat
    BY DEF RunnerInv, TypeOK, Runner
  <2>2. e.kind \notin TerminalKinds \cup {"committed"}
    BY DEF TerminalKinds
  <2> QED
    BY <2>1, <2>2, SpeakStep
<1>3. CallsTracked'
  BY DEF RunnerInv, CallsTracked, IsCompleted
<1>4. CallsSeen'
  <2>0. Fits(Sent', Head(outbox'))
    BY <1>1 DEF Fits
  <2>1. SUFFICES ASSUME forwarder.pc # "failed", NEW id \in Tools PROVE CallSeen(id)'
    BY <1>0, <2>0 DEF CallsSeen
  <2>2. CallSeen(id)
    BY <2>1 DEF RunnerInv, CallsSeen
  <2>3. IsCompleted(id)' <=> IsCompleted(id)
    BY DEF IsCompleted
  <2>4. \A kind \in {"toolStart", "toolArgs", "toolEnd"} :
           ~Outgoing(kind, id) /\ ~Outgoing(kind, id)'
    BY <1>1 DEF Outgoing
  <2> QED
    BY <1>0, <2>2, <2>3, <2>4 DEF CallSeen
<1> QED
  BY <1>2, <1>3, <1>4 DEF RunnerInv, RunnerMoves
-----------------------------------------------------------------------------
(* What the accumulator keeps back and releases is a number of units. *)
LEMMA ReleasedIs ==
    ASSUME TypeOK, NEW s \in Streams, NEW kept \in Kept(s)
    PROVE  /\ kept \in Nat /\ Released(s, kept) \in Nat
           /\ [withheld EXCEPT ![s] = kept] \in [Streams -> Nat]
<1>1. withheld \in [Streams -> Nat] /\ withheld[s] \in Nat
  BY DEF TypeOK
<1>2. kept \in 0..(withheld[s] + 1)
  BY <1>1 DEF Kept
<1> QED
  BY <1>1, <1>2 DEF Released

(* Counting an event within the limit. *)
LEMMA CountedIs ==
    ASSUME runner \in Runner, WithinLimit
    PROVE  /\ Counted(runner) \in Runner /\ Counted(runner).pc = runner.pc
           /\ Counted(runner).seq = runner.seq /\ Counted(runner).text = runner.text
           /\ Counted(runner).result = runner.result /\ Counted(runner).count <= MaxEvents
<1>1. MaxEvents \in Nat /\ runner.count \in Nat /\ runner.count + 1 \in 0..MaxEvents
  BY GenerationAssumption DEF Runner, WithinLimit
<1> QED
  BY <1>1 DEF Counted, Runner

(* Where an event is received. *)
LEMMA ReceiveIs ==
    ASSUME TypeOK, NEW kind, Receive(kind)
    PROVE  /\ phase = "running" /\ outbox = <<>> /\ runner.pc \in {"collect", "drain"}
           /\ queue' \in Seq(AnyInput) /\ Len(queue') <= QueueCap
           /\ runner \in Runner
<1>1. queue \in Seq(AnyInput) /\ Len(queue) <= QueueCap /\ QueueCap \in Nat
  BY GenerationAssumption DEF TypeOK
<1> QED
  BY <1>1 DEF Receive, Awaits, TypeOK

(* A note about a tool call. *)
LEMMA ToolNoteIs ==
    ASSUME NEW kind \in {"toolStart", "toolArgs", "toolEnd"}, NEW id \in Tools,
           NEW n \in Nat
    PROVE  /\ Note(kind, id, n) \in Event
           /\ Note(kind, id, n).kind = kind /\ Note(kind, id, n).about = id
  BY DEF Note, Event

(* The steps that send an event about no call. *)
LEMMA RunnerStartsKeeps ==
    ASSUME RunnerInv, RunnerStarts
    PROVE  RunnerInv' /\ RunnerMoves
<1> DEFINE e == Note("started", "none", 0)
<1>1. e \in Event /\ e.kind = "started"
  BY NoteIs
<1>2. TextOf(e) = 0
  BY <1>1 DEF TextOf
<1>3. /\ runner \in Runner /\ queue \in Seq(AnyInput) /\ Len(queue) <= QueueCap
      /\ withheld \in [Streams -> Nat] /\ MaxEvents \in Nat /\ RunnerSpeaks
  BY GenerationAssumption DEF RunnerInv, TypeOK
<1>4. /\ RunnerOnly /\ phase = "running" /\ outbox = <<>> /\ runner.pc = "start"
      /\ outbox' = <<e>> /\ runner' = [runner EXCEPT !.pc = "check"]
      /\ queue' = queue /\ withheld' = withheld /\ active' = active
      /\ completed' = completed
  BY DEF RunnerStarts, Awaits
<1>5. /\ runner' \in Runner /\ runner'.pc = "check" /\ runner'.count = runner.count
      /\ runner'.seq = runner.seq /\ runner'.text = runner.text
      /\ runner.seq \in Nat /\ runner.text \in Nat
  BY <1>3, <1>4 DEF Runner
<1>6. runner'.count <= MaxEvents
  BY <1>3, <1>4, <1>5 DEF RunnerSpeaks
<1> HIDE DEF e
<1>7. runner'.text = runner.text + IF runner'.pc = "flush" THEN 0 ELSE TextOf(e)
  BY <1>2, <1>5
<1>8. runner.seq <= runner'.seq
  BY <1>5
<1> QED
  BY <1>1, <1>3, <1>4, <1>5, <1>6, <1>7, <1>8, PlainSpeakStep

(* A text delta, some of it withheld. *)
LEMMA AcceptTextKeeps ==
    ASSUME RunnerInv, NEW kept \in Kept("text"), AcceptText(kept)
    PROVE  RunnerInv' /\ RunnerMoves
<1> DEFINE n == Released("text", kept)
           e == Note("text", "none", n)
<1>1. "text" \in Streams /\ "text" \notin Tools
  BY GenerationAssumption DEF Streams
<1>2. TypeOK /\ n \in Nat /\ [withheld EXCEPT !["text"] = kept] \in [Streams -> Nat]
  BY <1>1, ReleasedIs DEF RunnerInv
<1>3. /\ phase = "running" /\ outbox = <<>> /\ runner.pc \in {"collect", "drain"}
      /\ queue' \in Seq(AnyInput) /\ Len(queue') <= QueueCap /\ runner \in Runner
      /\ WithinLimit
  BY <1>2, ReceiveIs DEF AcceptText
<1>4. /\ RunnerOnly /\ active' = active /\ completed' = completed
      /\ withheld' \in [Streams -> Nat]
      /\ outbox' = IF n = 0 THEN <<>> ELSE <<e>>
      /\ runner' = [Counted(runner) EXCEPT !.text = Counted(runner).text + n]
  BY <1>1, <1>2 DEF AcceptText, Release
<1>5. /\ Counted(runner) \in Runner /\ Counted(runner).pc = runner.pc
      /\ Counted(runner).seq = runner.seq /\ Counted(runner).text = runner.text
      /\ Counted(runner).count <= MaxEvents
  BY <1>3, CountedIs
<1> HIDE DEF n
<1>6. /\ runner' \in Runner /\ runner'.pc = runner.pc /\ runner'.seq = runner.seq
      /\ runner'.text = runner.text + n /\ runner'.count <= MaxEvents
      /\ runner.seq \in Nat /\ runner.text \in Nat
  BY <1>2, <1>3, <1>4, <1>5 DEF Runner
<1>7. runner.seq <= runner'.seq
  BY <1>6
<1>8. CASE n = 0
  <2>1. outbox' = <<>> /\ runner'.text = runner.text
    BY <1>4, <1>6, <1>8
  <2> QED
    BY <2>1, <1>3, <1>4, <1>6, <1>7, QuietStep
<1>9. CASE n # 0
  <2>1. e \in Event /\ e.kind = "text" /\ e.amount = n
    BY <1>2, NoteIs
  <2>2. TextOf(e) = n /\ outbox' = <<e>>
    BY <2>1, <1>4, <1>9 DEF TextOf
  <2> HIDE DEF e
  <2>3. runner'.text = runner.text + IF runner'.pc = "flush" THEN 0 ELSE TextOf(e)
    BY <2>2, <1>3, <1>6
  <2> QED
    BY <2>1, <2>2, <2>3, <1>3, <1>4, <1>6, <1>7, PlainSpeakStep
<1> QED
  BY <1>8, <1>9

(* A reasoning delta. *)
LEMMA AcceptReasoningKeeps ==
    ASSUME RunnerInv, NEW kept \in Kept("reasoning"), AcceptReasoning(kept)
    PROVE  RunnerInv' /\ RunnerMoves
<1> DEFINE n == Released("reasoning", kept)
           e == Note("reasoning", "none", n)
<1>1. "reasoning" \in Streams /\ "reasoning" \notin Tools
  BY GenerationAssumption DEF Streams
<1>2. TypeOK /\ n \in Nat /\ [withheld EXCEPT !["reasoning"] = kept] \in [Streams -> Nat]
  BY <1>1, ReleasedIs DEF RunnerInv
<1>3. /\ phase = "running" /\ outbox = <<>> /\ runner.pc \in {"collect", "drain"}
      /\ queue' \in Seq(AnyInput) /\ Len(queue') <= QueueCap /\ runner \in Runner
      /\ WithinLimit
  BY <1>2, ReceiveIs DEF AcceptReasoning
<1>4. /\ RunnerOnly /\ active' = active /\ completed' = completed
      /\ withheld' \in [Streams -> Nat]
      /\ outbox' = IF n = 0 THEN <<>> ELSE <<e>>
      /\ runner' = Counted(runner)
  BY <1>1, <1>2 DEF AcceptReasoning, Release
<1>5. /\ runner' \in Runner /\ runner'.pc = runner.pc /\ runner'.seq = runner.seq
      /\ runner'.text = runner.text /\ runner'.count <= MaxEvents
      /\ runner.seq \in Nat /\ runner.text \in Nat
  BY <1>3, <1>4, CountedIs DEF Runner
<1> HIDE DEF n
<1>6. runner.seq <= runner'.seq
  BY <1>5
<1>7. CASE n = 0
  <2>1. outbox' = <<>>
    BY <1>4, <1>7
  <2> QED
    BY <2>1, <1>3, <1>4, <1>5, <1>6, QuietStep
<1>8. CASE n # 0
  <2>1. e \in Event /\ e.kind = "reasoning"
    BY <1>2, NoteIs
  <2>2. TextOf(e) = 0 /\ outbox' = <<e>>
    BY <2>1, <1>4, <1>8 DEF TextOf
  <2> HIDE DEF e
  <2>3. runner'.text = runner.text + IF runner'.pc = "flush" THEN 0 ELSE TextOf(e)
    BY <2>2, <1>5
  <2> QED
    BY <2>1, <2>2, <2>3, <1>3, <1>4, <1>5, <1>6, PlainSpeakStep
<1> QED
  BY <1>7, <1>8

(* What a stream withheld, at the end. *)
LEMMA FlushStreamKeeps ==
    ASSUME RunnerInv, Awaits("flush"), RunnerOnly, queue' = queue, active' = active,
           NEW s \in {"text", "reasoning"}, FlushStream(s)
    PROVE  RunnerInv' /\ RunnerMoves
<1> DEFINE e == Note(s, "none", withheld[s])
<1>1. /\ s \in Streams /\ runner \in Runner /\ queue \in Seq(AnyInput)
      /\ Len(queue) <= QueueCap /\ withheld \in [Streams -> Nat] /\ RunnerSpeaks
  BY DEF RunnerInv, TypeOK, Streams
<1>2. withheld[s] \in Nat /\ e \in Event /\ e.kind = s
  BY <1>1, NoteIs
<1>3. /\ phase = "running" /\ runner.pc = "flush" /\ outbox = <<>> /\ outbox' = <<e>>
      /\ withheld' = [withheld EXCEPT ![s] = 0] /\ runner' = runner
      /\ completed' = completed
  BY DEF Awaits, FlushStream
<1> HIDE DEF e
<1>4. withheld' \in [Streams -> Nat] /\ runner.seq \in Nat /\ runner.text \in Nat
      /\ runner.count <= MaxEvents
  BY <1>1, <1>3 DEF Runner, RunnerSpeaks
<1>5. runner'.text = runner.text + IF runner'.pc = "flush" THEN 0 ELSE TextOf(e)
  BY <1>3, <1>4
<1>6. runner.seq <= runner'.seq /\ runner' \in Runner
  BY <1>1, <1>3, <1>4
<1> QED
  BY <1>1, <1>2, <1>3, <1>4, <1>5, <1>6, PlainSpeakStep

(* The usage, when no call is left. *)
LEMMA FlushUsageKeeps ==
    ASSUME RunnerInv, Awaits("flush"), RunnerOnly, queue' = queue, active' = active,
           FlushUsage
    PROVE  RunnerInv' /\ RunnerMoves
<1> DEFINE e == Note("usage", "none", 0)
<1>1. /\ runner \in Runner /\ queue \in Seq(AnyInput) /\ RunnerSpeaks
      /\ Len(queue) <= QueueCap /\ withheld \in [Streams -> Nat]
  BY DEF RunnerInv, TypeOK
<1>2. e \in Event /\ e.kind = "usage"
  BY NoteIs
<1>3. TextOf(e) = 0
  BY <1>2 DEF TextOf
<1>4. /\ phase = "running" /\ runner.pc = "flush" /\ outbox = <<>> /\ outbox' = <<e>>
      /\ withheld' = withheld /\ runner' = [runner EXCEPT !.pc = "last"]
      /\ completed = <<>> /\ completed' = completed
  BY DEF Awaits, FlushUsage
<1> HIDE DEF e
<1>5. /\ runner' \in Runner /\ runner'.pc = "last" /\ runner'.seq = runner.seq
      /\ runner'.text = runner.text /\ runner'.count = runner.count
      /\ runner.seq \in Nat /\ runner.text \in Nat /\ runner.count <= MaxEvents
  BY <1>1, <1>4 DEF Runner, RunnerSpeaks
<1>6. runner'.text = runner.text + IF runner'.pc = "flush" THEN 0 ELSE TextOf(e)
  BY <1>3, <1>5
<1>7. runner.seq <= runner'.seq
  BY <1>5
<1> QED
  BY <1>1, <1>2, <1>4, <1>5, <1>6, <1>7, PlainSpeakStep

-----------------------------------------------------------------------------
(* Calls begin, end in the accumulator and are announced as ended. *)
LEMMA CompletedMore ==
    ASSUME completed \in Seq(Tools), NEW id \in Tools, completed' = Append(completed, id)
    PROVE  /\ \A x : IsCompleted(x)' <=> IsCompleted(x) \/ x = id
           /\ Len(completed') = Len(completed) + 1 /\ Len(completed) \in Nat
           /\ completed'[Len(completed) + 1] = id
           /\ \A i \in 1..Len(completed) : completed'[i] = completed[i]
<1>1. /\ Len(completed') = Len(completed) + 1 /\ Len(completed) \in Nat
      /\ completed'[Len(completed) + 1] = id
      /\ \A i \in 1..Len(completed) : completed'[i] = completed[i]
  OBVIOUS
<1>2. ASSUME NEW x, IsCompleted(x)' PROVE IsCompleted(x) \/ x = id
  BY <1>1, <1>2 DEF IsCompleted
<1>3. ASSUME NEW x, IsCompleted(x) PROVE IsCompleted(x)'
  BY <1>1, <1>3 DEF IsCompleted
<1>4. IsCompleted(id)'
  <2>1. Len(completed) + 1 \in 1..Len(completed')
    BY <1>1
  <2> QED
    BY <1>1, <2>1 DEF IsCompleted
<1> QED
  BY <1>1, <1>2, <1>3, <1>4

(* The pending completions after the first was sent. *)
LEMMA CompletedLess ==
    ASSUME completed \in Seq(Tools), completed # <<>>, completed' = Tail(completed),
           \A i, j \in 1..Len(completed) : completed[i] = completed[j] => i = j
    PROVE  /\ \A x : IsCompleted(x)' <=> IsCompleted(x) /\ x # Head(completed)
           /\ \A i, j \in 1..Len(completed') : completed'[i] = completed'[j] => i = j
           /\ IsCompleted(Head(completed)) /\ Head(completed) \in Tools
           /\ completed' \in Seq(Tools)
<1>1. /\ Len(completed) \in Nat \ {0} /\ Len(completed') = Len(completed) - 1
      /\ Head(completed) = completed[1] /\ completed' \in Seq(Tools)
      /\ \A i \in 1..Len(completed') : completed'[i] = completed[i + 1]
      /\ Head(completed) \in Tools
  OBVIOUS
<1>2. ASSUME NEW x, IsCompleted(x)' PROVE IsCompleted(x) /\ x # Head(completed)
  <2>1. PICK i \in 1..Len(completed') : completed'[i] = x
    BY <1>2 DEF IsCompleted
  <2>2. i + 1 \in 1..Len(completed) /\ 1 \in 1..Len(completed) /\ i + 1 # 1
        /\ completed[i + 1] = x
    BY <1>1, <2>1
  <2> QED
    BY <1>1, <2>2 DEF IsCompleted
<1>3. ASSUME NEW x, IsCompleted(x), x # Head(completed) PROVE IsCompleted(x)'
  <2>1. PICK i \in 1..Len(completed) : completed[i] = x
    BY <1>3 DEF IsCompleted
  <2>2. i # 1
    BY <1>1, <1>3, <2>1
  <2>3. i - 1 \in 1..Len(completed') /\ completed'[i - 1] = x
    BY <1>1, <2>1, <2>2
  <2> QED
    BY <2>3 DEF IsCompleted
<1>4. IsCompleted(Head(completed))
  BY <1>1 DEF IsCompleted
<1>5. ASSUME NEW i \in 1..Len(completed'), NEW j \in 1..Len(completed'),
             completed'[i] = completed'[j]
      PROVE  i = j
  <2>1. i + 1 \in 1..Len(completed) /\ j + 1 \in 1..Len(completed)
        /\ completed[i + 1] = completed[j + 1]
    BY <1>1, <1>5
  <2>2. i + 1 = j + 1
    BY <2>1
  <2> QED
    BY <2>2
<1> QED
  BY <1>1, <1>2, <1>3, <1>4, <1>5

(* A call that starts: it is neither active nor completed. *)
LEMMA AcceptToolStartKeeps ==
    ASSUME RunnerInv, NEW id \in Tools, AcceptToolStart(id)
    PROVE  RunnerInv' /\ RunnerMoves
<1> DEFINE e == Note("toolStart", id, 0)
<1>1. /\ TypeOK /\ CallsTracked /\ id \in Streams /\ active \subseteq Tools
      /\ completed \in Seq(Tools) /\ withheld \in [Streams -> Nat]
  BY DEF RunnerInv, TypeOK, Streams
<1>2. /\ phase = "running" /\ outbox = <<>> /\ runner.pc \in {"collect", "drain"}
      /\ queue' \in Seq(AnyInput) /\ Len(queue') <= QueueCap /\ runner \in Runner
      /\ WithinLimit
  BY <1>1, ReceiveIs DEF AcceptToolStart
<1>3. /\ RunnerOnly /\ active' = active \cup {id} /\ completed' = completed
      /\ withheld' \in [Streams -> Nat] /\ outbox' = <<e>> /\ runner' = Counted(runner)
      /\ id \notin active /\ ~IsCompleted(id)
  BY <1>1 DEF AcceptToolStart
<1>4. /\ runner' \in Runner /\ runner'.pc = runner.pc /\ runner'.seq = runner.seq
      /\ runner'.text = runner.text /\ runner'.count <= MaxEvents
      /\ runner.seq \in Nat /\ runner.text \in Nat
  BY <1>2, <1>3, CountedIs DEF Runner
<1>5. e \in Event /\ e.kind = "toolStart" /\ e.about = id
  BY ToolNoteIs
<1>6. TextOf(e) = 0 /\ e.kind \notin TerminalKinds \cup {"committed"}
  BY <1>5 DEF TextOf, TerminalKinds
<1> HIDE DEF e
<1>7. TypeOK' /\ RunnerSpeaks' /\ TextCounted'
  <2>1. runner'.text = runner.text + IF runner'.pc = "flush" THEN 0 ELSE TextOf(e)
    BY <1>4, <1>6
  <2>2. active' \subseteq Tools /\ completed' \in Seq(Tools)
    BY <1>1, <1>3
  <2> QED
    BY <2>1, <2>2, <1>2, <1>3, <1>4, <1>5, <1>6, SpeakStep
<1>8. CallsTracked'
  BY <1>1, <1>2, <1>3, <1>4 DEF CallsTracked, IsCompleted
<1>9. CallsSeen'
  <2>1. phase' = phase /\ forwarder' = forwarder /\ Sent' = Sent
    BY <1>3, FrameOfRunner
  <2>2. SUFFICES ASSUME forwarder.pc # "failed"
                 PROVE  /\ outbox' # <<>> => Fits(Sent', Head(outbox'))
                        /\ \A x \in Tools : CallSeen(x)'
    BY <2>1 DEF CallsSeen
  <2>3. \A x \in Tools : CallSeen(x)
    BY <2>2, <1>2 DEF RunnerInv, CallsSeen
  <2>4. outbox' # <<>> /\ Head(outbox') = e
    BY <1>3, <1>5, HeadOfOne
  <2>5. ~Has(Sent, "toolStart", id) /\ ~Has(Sent, "toolEnd", id)
    BY <2>3, <1>2, <1>3 DEF CallSeen, Outgoing
  <2>6. Fits(Sent', Head(outbox'))
    BY <2>1, <2>4, <2>5, <1>5 DEF Fits
  <2>7. ASSUME NEW x \in Tools PROVE CallSeen(x)'
    <3>1. IsCompleted(x)' <=> IsCompleted(x)
      BY <1>3 DEF IsCompleted
    <3>2. \A kind : ~Outgoing(kind, x)
      BY <1>2 DEF Outgoing
    <3>3. \A kind : Outgoing(kind, x)' <=> kind = "toolStart" /\ x = id
      BY <2>4, <1>5 DEF Outgoing
    <3>4. CallSeen(x)
      BY <2>3
    <3> QED
      BY <2>1, <2>5, <1>2, <1>3, <1>4, <3>1, <3>2, <3>3, <3>4 DEF CallSeen
  <2> QED
    BY <2>6, <2>7
<1>10. runner.seq <= runner'.seq /\ runner.pc # "done"
  BY <1>2, <1>4
<1> QED
  BY <1>2, <1>3, <1>7, <1>8, <1>9, <1>10 DEF RunnerInv, RunnerMoves

(* Arguments are released while a call is open, and flushed once it is     *)
(* completed.                                                              *)
LEMMA ArgumentsKeep ==
    ASSUME RunnerInv, RunnerOnly, phase = "running", outbox = <<>>,
           runner.pc \in {"collect", "drain", "flush"},
           NEW id \in Tools, id \in active \/ IsCompleted(id),
           NEW n \in Nat, outbox' = <<Note("toolArgs", id, n)>>,
           runner' \in Runner, runner'.pc = runner.pc, runner'.seq = runner.seq,
           runner'.text = runner.text, runner'.count <= MaxEvents,
           runner'.result = runner.result,
           queue' \in Seq(AnyInput), Len(queue') <= QueueCap,
           withheld' \in [Streams -> Nat], active' = active, completed' = completed
    PROVE  RunnerInv' /\ RunnerMoves
<1> DEFINE e == Note("toolArgs", id, n)
<1>1. e \in Event /\ e.kind = "toolArgs" /\ e.about = id
  BY ToolNoteIs
<1>2. TextOf(e) = 0 /\ e.kind \notin TerminalKinds \cup {"committed"}
  BY <1>1 DEF TextOf, TerminalKinds
<1>3. outbox' = <<e>>
  OBVIOUS
<1> HIDE DEF e
<1>4. /\ active' \subseteq Tools /\ completed' \in Seq(Tools) /\ CallsTracked
      /\ runner.text \in Nat /\ runner.seq \in Nat
  BY DEF RunnerInv, TypeOK, Runner
<1>5. TypeOK' /\ RunnerSpeaks' /\ TextCounted'
  <2>1. runner'.text = runner.text + IF runner'.pc = "flush" THEN 0 ELSE TextOf(e)
    BY <1>2, <1>4
  <2> QED
    BY <2>1, <1>1, <1>2, <1>3, <1>4, SpeakStep
<1>6. CallsTracked'
  BY <1>4 DEF CallsTracked, IsCompleted
<1>7. CallsSeen'
  <2>1. phase' = phase /\ forwarder' = forwarder /\ Sent' = Sent
    BY FrameOfRunner
  <2>2. SUFFICES ASSUME forwarder.pc # "failed"
                 PROVE  /\ outbox' # <<>> => Fits(Sent', Head(outbox'))
                        /\ \A x \in Tools : CallSeen(x)'
    BY <2>1 DEF CallsSeen
  <2>3. \A x \in Tools : CallSeen(x)
    BY <2>2 DEF RunnerInv, CallsSeen
  <2>4. outbox' # <<>> /\ Head(outbox') = e
    BY <1>1, <1>3, HeadOfOne
  <2>5. Has(Sent, "toolStart", id) /\ ~Has(Sent, "toolEnd", id)
    BY <2>3 DEF CallSeen, Outgoing
  <2>6. Fits(Sent', Head(outbox'))
    BY <2>1, <2>4, <2>5, <1>1 DEF Fits
  <2>7. ASSUME NEW x \in Tools PROVE CallSeen(x)'
    <3>1. IsCompleted(x)' <=> IsCompleted(x)
      BY DEF IsCompleted
    <3>2. \A kind : ~Outgoing(kind, x)
      BY DEF Outgoing
    <3>3. \A kind : Outgoing(kind, x)' <=> kind = "toolArgs" /\ x = id
      BY <2>4, <1>1 DEF Outgoing
    <3>4. CallSeen(x)
      BY <2>3
    <3> QED
      BY <2>1, <3>1, <3>2, <3>3, <3>4 DEF CallSeen
  <2> QED
    BY <2>6, <2>7
<1>8. runner.seq <= runner'.seq /\ runner.pc # "done"
  BY <1>4
<1> QED
  BY <1>5, <1>6, <1>7, <1>8 DEF RunnerInv, RunnerMoves

(* Arguments of an active call. *)
LEMMA AcceptToolArgumentsKeeps ==
    ASSUME RunnerInv, NEW id \in Tools, NEW kept \in Kept(id),
           AcceptToolArguments(id, kept)
    PROVE  RunnerInv' /\ RunnerMoves
<1> DEFINE n == Released(id, kept)
<1>1. TypeOK /\ id \in Streams
  BY DEF RunnerInv, Streams
<1>2. n \in Nat /\ [withheld EXCEPT ![id] = kept] \in [Streams -> Nat]
  BY <1>1, ReleasedIs
<1>3. /\ phase = "running" /\ outbox = <<>> /\ runner.pc \in {"collect", "drain"}
      /\ queue' \in Seq(AnyInput) /\ Len(queue') <= QueueCap /\ runner \in Runner
      /\ WithinLimit
  BY <1>1, ReceiveIs DEF AcceptToolArguments
<1>4. /\ RunnerOnly /\ active' = active /\ completed' = completed /\ id \in active
      /\ withheld' \in [Streams -> Nat]
      /\ outbox' = IF n = 0 THEN <<>> ELSE <<Note("toolArgs", id, n)>>
      /\ runner' = Counted(runner)
  BY <1>2 DEF AcceptToolArguments, Release
<1>5. /\ runner' \in Runner /\ runner'.pc = runner.pc /\ runner'.seq = runner.seq
      /\ runner'.text = runner.text /\ runner'.count <= MaxEvents
      /\ runner'.result = runner.result /\ runner.seq \in Nat
  BY <1>3, <1>4, CountedIs DEF Runner
<1> HIDE DEF n
<1>6. CASE n = 0
  <2>1. outbox' = <<>> /\ runner.seq <= runner'.seq
    BY <1>4, <1>5, <1>6
  <2> QED
    BY <2>1, <1>3, <1>4, <1>5, QuietStep
<1>7. CASE n # 0
  <2>1. outbox' = <<Note("toolArgs", id, n)>>
    BY <1>4, <1>7
  <2> QED
    BY <2>1, <1>2, <1>3, <1>4, <1>5, ArgumentsKeep
<1> QED
  BY <1>6, <1>7

(* The end of an active call, kept until the flush. *)
LEMMA AcceptToolEndKeeps ==
    ASSUME RunnerInv, NEW id \in Tools, AcceptToolEnd(id)
    PROVE  RunnerInv' /\ RunnerMoves
<1>1. /\ TypeOK /\ CallsTracked /\ TextCounted /\ active \subseteq Tools
      /\ completed \in Seq(Tools) /\ withheld \in [Streams -> Nat]
  BY DEF RunnerInv, TypeOK
<1>2. /\ phase = "running" /\ outbox = <<>> /\ runner.pc \in {"collect", "drain"}
      /\ queue' \in Seq(AnyInput) /\ Len(queue') <= QueueCap /\ runner \in Runner
      /\ WithinLimit
  BY <1>1, ReceiveIs DEF AcceptToolEnd
<1>3. /\ RunnerOnly /\ active' = active \ {id} /\ completed' = Append(completed, id)
      /\ withheld' = withheld /\ outbox' = <<>> /\ runner' = Counted(runner)
      /\ id \in active
  BY <1>2 DEF AcceptToolEnd
<1>4. /\ runner' \in Runner /\ runner'.pc = runner.pc /\ runner'.seq = runner.seq
      /\ runner'.text = runner.text /\ runner'.count <= MaxEvents /\ runner.seq \in Nat
  BY <1>2, <1>3, CountedIs DEF Runner
<1>5. /\ \A x : IsCompleted(x)' <=> IsCompleted(x) \/ x = id
      /\ Len(completed') = Len(completed) + 1 /\ Len(completed) \in Nat
      /\ completed'[Len(completed) + 1] = id
      /\ \A i \in 1..Len(completed) : completed'[i] = completed[i]
  BY <1>1, <1>3, CompletedMore
<1>6. TypeOK'
  <2>1. active' \subseteq Tools /\ completed' \in Seq(Tools) /\ outbox' \in Seq(Event)
        /\ Len(outbox') <= 1
    BY <1>1, <1>3
  <2> QED
    BY <2>1, <1>1, <1>2, <1>3, <1>4, RestOfType
<1>7. RunnerSpeaks'
  BY <1>2, <1>3, <1>4 DEF RunnerSpeaks
<1>8. ~IsCompleted(id)
  BY <1>1, <1>3 DEF CallsTracked
<1>9. CallsTracked'
  <2>1. ASSUME NEW i \in 1..Len(completed'), NEW j \in 1..Len(completed'),
               completed'[i] = completed'[j]
        PROVE  i = j
    <3>1. \A k \in 1..Len(completed) : completed[k] # id
      BY <1>8 DEF IsCompleted
    <3>2. \A k, m \in 1..Len(completed) : completed[k] = completed[m] => k = m
      BY <1>1 DEF CallsTracked
    <3> QED
      BY <1>5, <2>1, <3>1, <3>2
  <2>2. \A x \in active' : ~IsCompleted(x)'
    BY <1>1, <1>3, <1>5 DEF CallsTracked
  <2> QED
    BY <2>1, <2>2, <1>2, <1>4 DEF CallsTracked
<1>10. CallsSeen'
  <2>1. phase' = phase /\ forwarder' = forwarder /\ Sent' = Sent
    BY <1>3, FrameOfRunner
  <2>2. SUFFICES ASSUME forwarder.pc # "failed", NEW x \in Tools PROVE CallSeen(x)'
    BY <2>1, <1>3 DEF CallsSeen
  <2>3. CallSeen(x)
    BY <2>2, <1>2 DEF RunnerInv, CallsSeen
  <2>4. \A kind : ~Outgoing(kind, x) /\ ~Outgoing(kind, x)'
    BY <1>2, <1>3 DEF Outgoing
  <2> QED
    BY <2>1, <2>3, <2>4, <1>2, <1>3, <1>4, <1>5, <1>8 DEF CallSeen
<1>11. TextCounted'
  <2>1. /\ phase' = phase /\ launch' = launch /\ forwarder' = forwarder
        /\ Sent' = Sent /\ Shown' = Shown
    BY <1>3, FrameOfRunner
  <2> QED
    BY <2>1, <1>1, <1>2, <1>3, <1>4 DEF TextCounted, Owed
<1>12. runner.seq <= runner'.seq /\ runner.pc # "done"
  BY <1>2, <1>4
<1> QED
  BY <1>2, <1>3, <1>6, <1>7, <1>9, <1>10, <1>11, <1>12 DEF RunnerInv, RunnerMoves

(* The first pending completion: its last arguments, then its end. *)
LEMMA FlushToolKeeps ==
    ASSUME RunnerInv, Awaits("flush"), RunnerOnly, queue' = queue, active' = active,
           FlushTool
    PROVE  RunnerInv' /\ RunnerMoves
<1> DEFINE id == Head(completed)
<1>1. /\ TypeOK /\ CallsTracked /\ RunnerSpeaks /\ active \subseteq Tools
      /\ completed \in Seq(Tools) /\ withheld \in [Streams -> Nat] /\ runner \in Runner
      /\ queue \in Seq(AnyInput) /\ Len(queue) <= QueueCap
  BY DEF RunnerInv, TypeOK
<1>2. /\ phase = "running" /\ runner.pc = "flush" /\ outbox = <<>> /\ runner' = runner
      /\ completed # <<>>
  BY DEF Awaits, FlushTool
<1>3. runner.count <= MaxEvents /\ runner.seq \in Nat /\ runner.text \in Nat
  BY <1>1, <1>2 DEF RunnerSpeaks, Runner
<1>4. id \in Tools /\ id \in Streams /\ IsCompleted(id)
  BY <1>1, <1>2 DEF IsCompleted, Streams
<1>5. withheld[id] \in Nat
  BY <1>1, <1>4
<1>6. CASE withheld[id] > 0
  <2>1. /\ outbox' = <<Note("toolArgs", id, withheld[id])>>
        /\ withheld' = [withheld EXCEPT ![id] = 0] /\ completed' = completed
    BY <1>6 DEF FlushTool
  <2>2. withheld' \in [Streams -> Nat]
    BY <2>1, <1>1
  <2> HIDE DEF id
  <2> QED
    BY <2>1, <2>2, <1>1, <1>2, <1>3, <1>4, <1>5, ArgumentsKeep
<1>7. CASE ~(withheld[id] > 0)
  <2> DEFINE e == Note("toolEnd", id, 0)
  <2>1. outbox' = <<e>> /\ completed' = Tail(completed) /\ withheld' = withheld
    BY <1>7 DEF FlushTool
  <2>2. e \in Event /\ e.kind = "toolEnd" /\ e.about = id
    BY <1>4, ToolNoteIs
  <2>3. TextOf(e) = 0 /\ e.kind \notin TerminalKinds \cup {"committed"}
    BY <2>2 DEF TextOf, TerminalKinds
  <2> HIDE DEF e
  <2>4. /\ \A x : IsCompleted(x)' <=> IsCompleted(x) /\ x # id
        /\ \A i, j \in 1..Len(completed') : completed'[i] = completed'[j] => i = j
        /\ completed' \in Seq(Tools)
    BY <2>1, <1>1, <1>2, CompletedLess DEF CallsTracked
  <2> HIDE DEF id
  <2>5. active = {}
    BY <1>1, <1>2 DEF CallsTracked
  <2>6. TypeOK' /\ RunnerSpeaks' /\ TextCounted'
    <3>1. runner'.text = runner.text + IF runner'.pc = "flush" THEN 0 ELSE TextOf(e)
      BY <1>2, <1>3
    <3> QED
      BY <3>1, <2>1, <2>2, <2>3, <2>4, <1>1, <1>2, <1>3, SpeakStep
  <2>7. CallsTracked'
    BY <2>4, <2>5, <1>2 DEF CallsTracked
  <2>8. CallsSeen'
    <3>1. phase' = phase /\ forwarder' = forwarder /\ Sent' = Sent
      BY FrameOfRunner
    <3>2. SUFFICES ASSUME forwarder.pc # "failed"
                   PROVE  /\ outbox' # <<>> => Fits(Sent', Head(outbox'))
                          /\ \A x \in Tools : CallSeen(x)'
      BY <3>1 DEF CallsSeen
    <3>3. \A x \in Tools : CallSeen(x)
      BY <3>2, <1>2 DEF RunnerInv, CallsSeen
    <3>4. outbox' # <<>> /\ Head(outbox') = e
      BY <2>1, <2>2, HeadOfOne
    <3>5. Has(Sent, "toolStart", id) /\ ~Has(Sent, "toolEnd", id)
      BY <3>3, <1>2, <1>4 DEF CallSeen, Outgoing
    <3>6. Fits(Sent', Head(outbox'))
      BY <3>1, <3>4, <3>5, <2>2 DEF Fits
    <3>7. ASSUME NEW x \in Tools PROVE CallSeen(x)'
      <4>1. \A kind : ~Outgoing(kind, x)
        BY <1>2 DEF Outgoing
      <4>2. \A kind : Outgoing(kind, x)' <=> kind = "toolEnd" /\ x = id
        BY <3>4, <2>2 DEF Outgoing
      <4>3. CallSeen(x)
        BY <3>3
      <4> QED
        BY <3>1, <3>5, <2>4, <2>5, <1>2, <1>4, <4>1, <4>2, <4>3 DEF CallSeen
    <3> QED
      BY <3>6, <3>7
  <2>9. runner.seq <= runner'.seq /\ runner.pc # "done"
    BY <1>2, <1>3
  <2> QED
    BY <1>2, <2>6, <2>7, <2>8, <2>9 DEF RunnerInv, RunnerMoves
<1> QED
  BY <1>6, <1>7

(* The flush, in the order of the streams. *)
LEMMA FlushKeeps ==
    ASSUME RunnerInv, Flush
    PROVE  RunnerInv' /\ RunnerMoves
<1>1. Awaits("flush") /\ RunnerOnly /\ queue' = queue /\ active' = active
  BY DEF Flush
<1>2. FlushStream("text") \/ FlushStream("reasoning") \/ FlushTool \/ FlushUsage
  BY DEF Flush
<1> QED
  BY <1>1, <1>2, FlushStreamKeeps, FlushToolKeeps, FlushUsageKeeps

(* The forwarder is gone: the event is lost and the runner ends. *)
LEMMA EmitFailsKeeps ==
    ASSUME RunnerInv, Positions, EmitFails
    PROVE  RunnerInv' /\ RunnerMoves
<1>1. /\ TypeOK /\ CallsTracked /\ TextCounted /\ runner \in Runner
      /\ RunnerSpeaks /\ forwarder \in Forwarder
  BY DEF RunnerInv, TypeOK
<1>2. /\ phase = "running" /\ outbox # <<>> /\ forwarder.pc # "running" /\ RunnerOnly
      /\ queue' = queue /\ withheld' = withheld /\ active' = active
      /\ completed' = completed /\ outbox' = <<>>
      /\ runner' = [runner EXCEPT !.pc = "done", !.result = "error",
                                  !.seq = runner.seq + 1]
  BY DEF EmitFails
<1>3. runner.pc # "done" /\ forwarder.pc = "failed"
  BY <1>1, <1>2 DEF RunnerSpeaks, Positions, Forwarder
<1>4. /\ runner' \in Runner /\ runner'.pc = "done" /\ runner'.result = "error"
      /\ runner'.text = runner.text /\ runner.seq <= runner'.seq
  <2>1. runner.seq \in Nat /\ runner.seq + 1 \in Nat
    BY <1>1 DEF Runner
  <2>2. runner'.seq = runner.seq + 1
    BY <1>1, <1>2 DEF Runner
  <2>3. runner' \in Runner
    BY <1>1, <1>2, <2>1 DEF Runner
  <2>4. runner'.pc = "done" /\ runner'.result = "error" /\ runner'.text = runner.text
    BY <1>1, <1>2 DEF Runner
  <2> QED
    BY <2>1, <2>2, <2>3, <2>4
<1>5. /\ phase' = phase /\ launch' = launch /\ forwarder' = forwarder
      /\ Sent' = Sent /\ Shown' = Shown
  BY <1>2, FrameOfRunner
<1>6. TypeOK'
  <2>1. outbox' \in Seq(Event) /\ Len(outbox') <= 1
    BY <1>2
  <2> QED
    BY <2>1, <1>1, <1>2, <1>4, RestOfType DEF TypeOK
<1>7. RunnerSpeaks'
  BY <1>2, <1>4 DEF RunnerSpeaks
<1>8. CallsTracked'
  BY <1>1, <1>2, <1>4 DEF CallsTracked, IsCompleted
<1>9. CallsSeen' /\ TextCounted'
  BY <1>1, <1>2, <1>3, <1>4, <1>5 DEF CallsSeen, TextCounted
<1> QED
  BY <1>2, <1>3, <1>4, <1>6, <1>7, <1>8, <1>9 DEF RunnerInv, RunnerMoves

-----------------------------------------------------------------------------
(* Every step of the runner except a successful send. *)
RunnerAlone ==
    \/ RunnerStarts \/ RunnerRefuses \/ CheckCancelled \/ ObserveCancel \/ AcceptEvent
    \/ RejectEvent \/ DrainEnds \/ Flush \/ RunnerSucceeds \/ EmitFails
    \/ \E e \in Inputs : ProviderSends(e)
    \/ \E result \in {"ok", "error", "cancelled"} : ProviderReturns(result)

(* Every step of the runner and its provider but a send that succeeds. *)
LEMMA RunnerAloneKeeps ==
    ASSUME RunnerInv, Positions, RunnerAlone
    PROVE  RunnerInv' /\ RunnerMoves
<1>1. CASE AcceptEvent
  <2>1. CASE \E kept \in Kept("text") : AcceptText(kept)
    BY <2>1, AcceptTextKeeps
  <2>2. CASE \E kept \in Kept("reasoning") : AcceptReasoning(kept)
    BY <2>2, AcceptReasoningKeeps
  <2>3. CASE \E id \in Tools : AcceptToolStart(id)
    BY <2>3, AcceptToolStartKeeps
  <2>4. CASE \E id \in Tools : \E kept \in Kept(id) : AcceptToolArguments(id, kept)
    BY <2>4, AcceptToolArgumentsKeeps
  <2>5. CASE \E id \in Tools : AcceptToolEnd(id)
    BY <2>5, AcceptToolEndKeeps
  <2> QED
    BY <1>1, <2>1, <2>2, <2>3, <2>4, <2>5 DEF AcceptEvent
<1>2. CASE \E e \in Inputs : ProviderSends(e)
  BY <1>2, ProviderSendsKeeps
<1>3. CASE \E result \in {"ok", "error", "cancelled"} : ProviderReturns(result)
  BY <1>3, ProviderReturnsKeeps
<1> QED
  BY <1>1, <1>2, <1>3, RunnerStartsKeeps, RunnerRefusesKeeps, CheckCancelledKeeps,
     ObserveCancelKeeps, RejectEventKeeps, DrainEndsKeeps, FlushKeeps,
     RunnerSucceedsKeeps, EmitFailsKeeps
  DEF RunnerAlone

(* What the runner does alone concerns nobody else. *)
LEMMA SentIs ==
    ASSUME TypeOK
    PROVE  /\ Sent \in Seq(Event) /\ Len(Sent) \in Nat /\ bus \in Seq(Event)
           /\ channel \in Seq(Event) /\ Prefix(bus, Sent)
           /\ TextSum(Sent) \in Nat /\ Shown \in Nat /\ Shown <= TextSum(Sent)
           /\ \A i \in 1..Len(Sent) : Sent[i] \in Event /\ Sent[i].seq \in Nat
           /\ channel = <<>> => Sent = bus
<1>1. bus \in Seq(Event) /\ channel \in Seq(Event)
  BY DEF TypeOK
<1>2. Sent \in Seq(Event) /\ Prefix(bus, Sent)
  BY <1>1, ConcatIs, BusIsPrefix DEF Sent
<1>3. TextSum(Sent) \in Nat /\ Shown \in Nat
  BY <1>1, <1>2, TextSumType DEF Shown
<1>4. Shown <= TextSum(Sent)
  BY <1>1, <1>2, TextSumPrefix DEF Shown
<1>5. \A i \in 1..Len(Sent) : Sent[i] \in Event /\ Sent[i].seq \in Nat
  <2>1. \A i \in 1..Len(Sent) : Sent[i] \in Event
    BY <1>2
  <2>2. \A e \in Event : e.seq \in Nat
    BY DEF Event
  <2> QED
    BY <2>1, <2>2
<1>6. channel = <<>> => Sent = bus
  BY <1>1, NothingWaits DEF Sent
<1> QED
  BY <1>1, <1>2, <1>3, <1>4, <1>5, <1>6

(* Such a step leaves the stream and the store alone. *)
LEMMA MovesKeepRest ==
    ASSUME IInv, RunnerMoves, TypeOK'
    PROVE  Positions' /\ StreamInv' /\ StoreInv'
<1>1. /\ phase' = phase /\ registered' = registered /\ launch' = launch
      /\ channel' = channel /\ forwarder' = forwarder /\ verdict' = verdict
      /\ row' = row /\ generation' = generation /\ bus' = bus /\ Sent' = Sent
      /\ Shown' = Shown /\ phase = "running" /\ runner.pc # "done"
      /\ runner.seq <= runner'.seq
  BY FrameOfRunner DEF RunnerMoves
<1>2. /\ Positions /\ Numbered /\ Paired(Sent) /\ FinishedIsEnded /\ Settled
      /\ RecordsAgree /\ CommittedIsTerminal /\ AnnouncedIsDurable /\ ShownIsStored
      /\ TypeOK
  BY DEF IInv, StreamInv, StoreInv, RunnerInv
<1>3. Positions'
  BY <1>1, <1>2 DEF Positions, Unstarted, Decided, Told
<1>4. Numbered'
  <2>1. runner.seq \in Nat /\ runner'.seq \in Nat
    BY <1>2 DEF TypeOK, Runner
  <2>2. \A i \in 1..Len(Sent) : Sent[i].seq \in Nat /\ Sent[i].seq <= runner.seq
    BY <1>1, <1>2, SentIs DEF Numbered
  <2>3. \A i \in 1..Len(Sent') : Sent'[i].seq <= runner'.seq
    BY <1>1, <2>1, <2>2
  <2> QED
    BY <1>1, <1>2, <2>3 DEF Numbered, Decided
<1>5. Paired(Sent)'
  BY <1>1, <1>2
<1>6. FinishedIsEnded'
  BY <1>1, <1>2 DEF FinishedIsEnded
<1>7. Settled'
  BY <1>1 DEF Settled, Decided, Told
<1>8. RecordsAgree' /\ CommittedIsTerminal' /\ AnnouncedIsDurable' /\ ShownIsStored'
  BY <1>1, <1>2 DEF RecordsAgree, CommittedIsTerminal, AnnouncedIsDurable, ShownIsStored
<1> QED
  BY <1>3, <1>4, <1>5, <1>6, <1>7, <1>8 DEF StreamInv, StoreInv

-----------------------------------------------------------------------------
(* An event that emit or the task numbers. *)
LEMMA NumberIs ==
    ASSUME NEW e \in Event, NEW n \in Nat
    PROVE  /\ [e EXCEPT !.seq = n] \in Event /\ [e EXCEPT !.seq = n].seq = n
           /\ [e EXCEPT !.seq = n].kind = e.kind /\ [e EXCEPT !.seq = n].about = e.about
           /\ [e EXCEPT !.seq = n].amount = e.amount /\ e.amount \in Nat
  BY DEF Event

(* A send: the event gets the next number and joins the stream. *)
LEMMA EmitKeeps ==
    ASSUME IInv, Emit
    PROVE  IInv'
<1> DEFINE e == Head(outbox)
           m == [e EXCEPT !.seq = runner.seq + 1]
<1>1. /\ Positions /\ Numbered /\ Paired(Sent) /\ FinishedIsEnded /\ Settled
      /\ RecordsAgree /\ CommittedIsTerminal /\ AnnouncedIsDurable /\ ShownIsStored
      /\ TypeOK /\ RunnerSpeaks /\ CallsTracked /\ CallsSeen /\ TextCounted
  BY DEF IInv, StreamInv, StoreInv, RunnerInv
<1>2. /\ phase = "running" /\ outbox # <<>> /\ Len(channel) < ChannelCap
      /\ forwarder.pc = "running" /\ channel' = Append(channel, m) /\ outbox' = <<>>
      /\ runner' = [runner EXCEPT !.seq = runner.seq + 1,
                      !.text = IF runner.pc = "flush" /\ e.kind = "text"
                               THEN runner.text + e.amount ELSE runner.text]
      /\ phase' = phase /\ registered' = registered /\ cancelled' = cancelled
      /\ launch' = launch /\ queue' = queue /\ withheld' = withheld
      /\ active' = active /\ completed' = completed /\ forwarder' = forwarder
      /\ verdict' = verdict /\ row' = row /\ generation' = generation /\ bus' = bus
  BY DEF Emit, storeVars
<1>3. /\ runner \in Runner /\ runner.seq \in Nat /\ runner.text \in Nat
      /\ outbox \in Seq(Event) /\ channel \in Seq(Event) /\ ChannelCap \in Nat
      /\ bus \in Seq(Event) /\ Sent \in Seq(Event) /\ Len(Sent) \in Nat
      /\ TextSum(Sent) \in Nat /\ Shown \in Nat /\ Shown <= TextSum(Sent)
  BY <1>1, SentIs, GenerationAssumption DEF TypeOK, Runner
<1>4. e \in Event
  BY <1>2, <1>3
<1>5. /\ m \in Event /\ m.seq = runner.seq + 1 /\ m.kind = e.kind /\ m.about = e.about
      /\ m.amount = e.amount /\ e.amount \in Nat
  <2>1. runner.seq + 1 \in Nat
    BY <1>3
  <2> HIDE DEF e
  <2> QED
    BY <1>4, <2>1, NumberIs
<1>6. TextOf(m) = TextOf(e) /\ TextOf(e) \in Nat
  BY <1>4, <1>5 DEF TextOf
<1>7. /\ runner' \in Runner /\ runner'.pc = runner.pc /\ runner'.result = runner.result
      /\ runner'.count = runner.count /\ runner'.seq = runner.seq + 1
      /\ runner'.text = runner.text + IF runner.pc = "flush" THEN TextOf(e) ELSE 0
  <2>1. runner.seq + 1 \in Nat /\ runner.text + e.amount \in Nat
    BY <1>3, <1>5
  <2> HIDE DEF e
  <2>2. /\ runner' \in Runner /\ runner'.pc = runner.pc /\ runner'.result = runner.result
        /\ runner'.count = runner.count /\ runner'.seq = runner.seq + 1
        /\ runner'.text = IF runner.pc = "flush" /\ e.kind = "text"
                          THEN runner.text + e.amount ELSE runner.text
    BY <1>2, <1>3, <2>1 DEF Runner
  <2> QED
    BY <2>2, <1>3 DEF TextOf
<1>8. Sent' = Append(Sent, m) /\ Shown' = Shown
  BY <1>2, <1>3, <1>5, SendLast DEF Sent, Shown
<1>9. e.kind \notin TerminalKinds \cup {"committed"}
  BY <1>1, <1>2 DEF RunnerSpeaks
<1>10. (\A k \in {"toolStart", "toolArgs", "toolEnd"}, x \in Tools :
          Outgoing(k, x) <=> e.kind = k /\ e.about = x)
       /\ Fits(Sent, e) /\ \A x \in Tools : CallSeen(x)
  BY <1>1, <1>2 DEF CallsSeen, Outgoing
<1>11. Owed = (IF runner.pc = "flush" THEN 0 ELSE TextOf(e)) /\ Owed' = 0
  BY <1>2 DEF Owed
<1> HIDE DEF e, m
<1>12. TypeOK'
  <2>1. channel' \in Seq(Event) /\ Len(channel') <= ChannelCap
    BY <1>2, <1>3, <1>5
  <2>2. outbox' \in Seq(Event) /\ Len(outbox') <= 1
    BY <1>2
  <2> QED
    BY <1>1, <1>2, <1>7, <2>1, <2>2 DEF TypeOK
<1>13. RunnerSpeaks' /\ CallsTracked'
  BY <1>1, <1>2, <1>7 DEF RunnerSpeaks, CallsTracked, IsCompleted
<1>14. CallsSeen'
  <2>1. SUFFICES ASSUME NEW x \in Tools PROVE CallSeen(x)'
    BY <1>2 DEF CallsSeen
  <2>2. \A kind : Has(Sent', kind, x) <=> Has(Sent, kind, x) \/ (e.kind = kind /\ e.about = x)
    BY <1>3, <1>5, <1>8, HasAppend
  <2>3. IsCompleted(x)' <=> IsCompleted(x)
    BY <1>2 DEF IsCompleted
  <2>4. \A kind : ~Outgoing(kind, x)'
    BY <1>2 DEF Outgoing
  <2>5. CallSeen(x)
    BY <1>10
  <2>6. \A k \in {"toolStart", "toolArgs", "toolEnd"} :
           Outgoing(k, x) <=> e.kind = k /\ e.about = x
    BY <1>10
  <2> QED
    BY <1>2, <1>7, <2>2, <2>3, <2>4, <2>5, <2>6 DEF CallSeen
<1>15. TextCounted'
  <2>1. TextSum(Sent') = TextSum(Sent) + TextOf(e)
    BY <1>3, <1>5, <1>6, <1>8, TextSumAppend
  <2>2. /\ runner.text = TextSum(Sent) + Owed /\ runner.text >= Shown
        /\ launch.preserve => forwarder.seen = Shown
    BY <1>1, <1>2 DEF TextCounted
  <2>3. runner'.text = TextSum(Sent') + Owed' /\ runner'.text >= Shown
    BY <1>3, <1>6, <1>7, <1>11, <2>1, <2>2
  <2> QED
    BY <1>2, <1>8, <2>2, <2>3 DEF TextCounted
<1>16. Positions'
  BY <1>1, <1>2 DEF Positions, Unstarted, Decided, Told
<1>17. Numbered'
  <2>1. /\ \A i \in 1..Len(Sent) : Sent[i].seq \in Nat /\ Sent[i].seq <= runner.seq
        /\ NoKind(Sent, TerminalKinds) /\ NoKind(Sent, {"committed"}) /\ InOrder(Sent)
    BY <1>1, <1>2, SentIs DEF Numbered
  <2>2. \A i \in 1..Len(Sent) : Sent[i].seq < m.seq
    BY <1>3, <1>5, <2>1
  <2>3. InOrder(Sent')
    BY <1>3, <1>5, <1>8, <2>1, <2>2, InOrderAppend
  <2>4. NoKind(Sent', TerminalKinds) /\ NoKind(Sent', {"committed"})
    BY <1>3, <1>5, <1>8, <1>9, <2>1, NoKindAppend
  <2>5. ASSUME NEW i \in 1..Len(Sent') PROVE Sent'[i].seq <= runner'.seq
    <3>1. Len(Sent') = Len(Sent) + 1 /\ Sent'[Len(Sent) + 1] = m
          /\ \A k \in 1..Len(Sent) : Sent'[k] = Sent[k]
      BY <1>3, <1>5, <1>8, AppendIs
    <3>2. CASE i = Len(Sent) + 1
      BY <3>1, <3>2, <1>3, <1>5, <1>7
    <3>3. CASE i \in 1..Len(Sent)
      BY <3>1, <3>3, <1>3, <1>7, <2>1
    <3> QED
      BY <3>1, <3>2, <3>3, <1>3
  <2> QED
    BY <1>2, <2>3, <2>4, <2>5 DEF Numbered, Decided
<1>18. Paired(Sent)'
  <2>1. Fits(Sent, m)
    BY <1>5, <1>10 DEF Fits
  <2> QED
    BY <2>1, <1>1, <1>3, <1>5, <1>8, PairedAppend
<1>19. FinishedIsEnded'
  <2>1. NoKind(Sent', TerminalKinds) /\ "finished" \in TerminalKinds
    BY <1>17, <1>2 DEF Numbered, TerminalKinds
  <2> QED
    BY <2>1, <1>2 DEF FinishedIsEnded, Decided, NoKind
<1>20. Settled'
  BY <1>2 DEF Settled, Decided, Told
<1>21. RecordsAgree' /\ CommittedIsTerminal' /\ AnnouncedIsDurable' /\ ShownIsStored'
  BY <1>1, <1>2, <1>8
  DEF RecordsAgree, CommittedIsTerminal, AnnouncedIsDurable, ShownIsStored
<1> QED
  BY <1>12, <1>13, <1>14, <1>15, <1>16, <1>17, <1>18, <1>19, <1>20, <1>21
  DEF IInv, RunnerInv, StreamInv, StoreInv

-----------------------------------------------------------------------------
(* The forwarder delivers what was sent, or loses the rest of it; it never *)
(* reorders.                                                               *)
LEMMA NoKindPrefix ==
    ASSUME NEW s \in Seq(Event), NEW t \in Seq(Event), Prefix(s, t), NEW kinds,
           NoKind(t, kinds)
    PROVE  NoKind(s, kinds)
  BY DEF Prefix, NoKind

(* What the forwarder may do in one step: hand on events or lose the rest, *)
(* never change their order, and store at most the text it has shown.      *)
Delivery ==
    /\ phase = "running" /\ forwarder.pc = "running"
    /\ phase' = phase /\ registered' = registered /\ cancelled' = cancelled
    /\ launch' = launch /\ UNCHANGED runnerVars /\ verdict' = verdict
    /\ bus' \in Seq(Event) /\ channel' \in Seq(Event) /\ Len(channel') <= ChannelCap
    /\ forwarder' \in Forwarder
    /\ Prefix(Sent', Sent) /\ (forwarder'.pc # "failed" => Sent' = Sent)
    /\ forwarder'.pc # "running" => channel' = <<>>
    /\ forwarder'.pc = "ok" => runner.pc = "done"
    /\ forwarder'.dirty => launch.preserve
    /\ Shown <= Shown' /\ (launch.preserve => forwarder'.seen = Shown')
    /\ generation' = generation
    /\ \/ row' = row
       \/ /\ launch.preserve
          /\ row' = [row EXCEPT !.content = forwarder'.seen]

(* Such a step keeps the invariant. *)
LEMMA DeliveryKeeps ==
    ASSUME IInv, Delivery
    PROVE  IInv'
<1>0. /\ phase = "running" /\ forwarder.pc = "running"
      /\ phase' = phase /\ registered' = registered /\ cancelled' = cancelled
      /\ launch' = launch /\ UNCHANGED runnerVars /\ verdict' = verdict
      /\ bus' \in Seq(Event) /\ channel' \in Seq(Event) /\ Len(channel') <= ChannelCap
      /\ forwarder' \in Forwarder
      /\ Prefix(Sent', Sent) /\ (forwarder'.pc # "failed" => Sent' = Sent)
      /\ forwarder'.pc # "running" => channel' = <<>>
      /\ forwarder'.pc = "ok" => runner.pc = "done"
      /\ forwarder'.dirty => launch.preserve
      /\ Shown <= Shown' /\ (launch.preserve => forwarder'.seen = Shown')
      /\ generation' = generation
      /\ \/ row' = row
         \/ /\ launch.preserve
            /\ row' = [row EXCEPT !.content = forwarder'.seen]
  BY DEF Delivery
<1> USE <1>0
<1>1. /\ Positions /\ Numbered /\ Paired(Sent) /\ FinishedIsEnded /\ Settled
      /\ RecordsAgree /\ CommittedIsTerminal /\ AnnouncedIsDurable /\ ShownIsStored
      /\ TypeOK /\ RunnerSpeaks /\ CallsTracked /\ CallsSeen /\ TextCounted
  BY DEF IInv, StreamInv, StoreInv, RunnerInv
<1>2. /\ queue' = queue /\ runner' = runner /\ withheld' = withheld /\ active' = active
      /\ completed' = completed /\ outbox' = outbox
  BY DEF runnerVars
<1>3. row' \in Row /\ row'.status = row.status /\ row.content \in Nat
      /\ (row' = row \/ (launch.preserve /\ row'.content = forwarder'.seen))
  <2>1. row \in Row
    BY <1>1 DEF TypeOK
  <2>2. forwarder'.seen \in Nat
    BY DEF Forwarder
  <2>3. CASE row' = row
    BY <2>1, <2>3 DEF Row
  <2>4. CASE launch.preserve /\ row' = [row EXCEPT !.content = forwarder'.seen]
    BY <2>1, <2>2, <2>4 DEF Row
  <2> QED
    BY <2>3, <2>4
<1>4. TypeOK'
  BY <1>1, <1>2, <1>3 DEF TypeOK
<1>5. /\ Sent \in Seq(Event) /\ Len(Sent) \in Nat /\ TextSum(Sent) \in Nat /\ Shown \in Nat
      /\ Shown <= TextSum(Sent)
  BY <1>1, SentIs
<1>6. /\ Sent' \in Seq(Event) /\ Len(Sent') \in Nat /\ TextSum(Sent') \in Nat
      /\ Shown' \in Nat /\ Shown' <= TextSum(Sent') /\ Prefix(bus', Sent')
  <2>1. Sent' = bus' \o channel' /\ Shown' = TextSum(bus')
    BY DEF Sent, Shown
  <2>2. Sent' \in Seq(Event) /\ Prefix(bus', Sent')
    BY <2>1, ConcatIs, BusIsPrefix
  <2>3. TextSum(Sent') \in Nat /\ Shown' \in Nat
    BY <2>1, <2>2, TextSumType
  <2>4. Shown' <= TextSum(Sent')
    BY <2>1, <2>2, TextSumPrefix
  <2> QED
    BY <2>2, <2>3, <2>4
<1>7. TextSum(Sent') <= TextSum(Sent)
  BY <1>5, <1>6, TextSumPrefix
<1>8. RunnerSpeaks' /\ CallsTracked'
  BY <1>1, <1>2 DEF RunnerSpeaks, CallsTracked, IsCompleted
<1>9. CallsSeen'
  <2>1. SUFFICES ASSUME Sent' = Sent
                 PROVE  /\ outbox' # <<>> => Fits(Sent', Head(outbox'))
                        /\ \A x \in Tools : CallSeen(x)'
    BY DEF CallsSeen
  <2>2. (outbox # <<>> => Fits(Sent, Head(outbox))) /\ \A x \in Tools : CallSeen(x)
    BY <1>1 DEF CallsSeen
  <2>3. ASSUME NEW x \in Tools PROVE CallSeen(x)'
    <3>1. IsCompleted(x)' <=> IsCompleted(x)
      BY <1>2 DEF IsCompleted
    <3>2. CallSeen(x)
      BY <2>2
    <3> QED
      BY <1>2, <2>1, <3>1, <3>2 DEF CallSeen, Outgoing
  <2> QED
    BY <1>2, <2>1, <2>2, <2>3
<1>10. TextCounted'
  <2>1. Owed \in Nat /\ Owed' = Owed
    <3>1. outbox # <<>> => Head(outbox) \in Event
      BY <1>1 DEF TypeOK
    <3> QED
      BY <1>2, <3>1, TextOfType DEF Owed
  <2>2. runner.text = TextSum(Sent) + Owed
    BY <1>1 DEF TextCounted
  <2>3. runner'.text >= Shown'
    BY <1>2, <1>5, <1>6, <1>7, <2>1, <2>2
  <2>4. forwarder'.pc # "failed" => runner'.text = TextSum(Sent') + Owed'
    BY <1>2, <2>1, <2>2
  <2> QED
    BY <2>3, <2>4 DEF TextCounted
<1>11. Positions'
  BY <1>1, <1>2 DEF Positions, Unstarted, Decided, Told
<1>12. /\ NoKind(Sent, TerminalKinds) /\ NoKind(Sent, {"committed"})
       /\ NoKind(Sent', TerminalKinds) /\ NoKind(Sent', {"committed"})
       /\ NoKind(bus', TerminalKinds) /\ NoKind(bus', {"committed"})
  <2>1. NoKind(Sent, TerminalKinds) /\ NoKind(Sent, {"committed"})
    BY <1>1 DEF Numbered
  <2>2. NoKind(Sent', TerminalKinds) /\ NoKind(Sent', {"committed"})
    BY <2>1, <1>5, <1>6, NoKindPrefix
  <2>3. NoKind(bus', TerminalKinds) /\ NoKind(bus', {"committed"})
    BY <2>2, <1>6, NoKindPrefix
  <2> QED
    BY <2>1, <2>2, <2>3
<1>13. Numbered'
  <2>1. InOrder(Sent')
    BY <1>1, <1>5, <1>6, InOrderPrefix DEF Numbered
  <2>2. \A i \in 1..Len(Sent') : Sent'[i].seq <= runner'.seq
    BY <1>1, <1>2, <1>5, <1>6 DEF Numbered, Prefix
  <2> QED
    BY <2>1, <2>2, <1>12 DEF Numbered, Decided
<1>14. Paired(Sent)'
  BY <1>1, <1>5, <1>6, PairedPrefix
<1>15. FinishedIsEnded'
  BY <1>12 DEF FinishedIsEnded, Decided, NoKind, TerminalKinds
<1>16. Settled'
  BY DEF Settled, Decided, Told
<1>17. RecordsAgree'
  BY <1>1, <1>3 DEF RecordsAgree
<1>18. CommittedIsTerminal' /\ AnnouncedIsDurable'
  BY <1>12 DEF CommittedIsTerminal, AnnouncedIsDurable, NoKind, TerminalKinds
<1>19. ShownIsStored'
  <2>1. row.status = "pending"
    BY <1>1 DEF RecordsAgree
  <2>2. row.content <= Shown
    BY <1>1, <2>1 DEF ShownIsStored
  <2>3. row'.content <= Shown'
    BY <1>3, <1>5, <1>6, <2>2
  <2> QED
    BY <1>3, <2>1, <2>3 DEF ShownIsStored, Terminal
<1> QED
  BY <1>4, <1>8, <1>9, <1>10, <1>11, <1>13, <1>14, <1>15, <1>16, <1>17, <1>18, <1>19
  DEF IInv, RunnerInv, StreamInv, StoreInv

(* A forwarder that runs means a task that runs. *)
LEMMA ForwarderRuns ==
    ASSUME IInv, Launched, forwarder.pc = "running"
    PROVE  phase = "running"
<1>1. phase \in Phase /\ Positions
  BY DEF IInv, RunnerInv, TypeOK
<1> QED
  BY <1>1 DEF Launched, Phase, Positions, Decided, Told

(* One event published, with or without a checkpoint. *)
LEMMA ForwardEventDelivers ==
    ASSUME IInv, NEW due \in BOOLEAN, NEW stored \in BOOLEAN, ForwardEvent(due, stored)
    PROVE  Delivery
<1> DEFINE e == Head(channel)
<1>1. /\ TypeOK /\ TextCounted /\ bus \in Seq(Event) /\ channel \in Seq(Event)
      /\ forwarder \in Forwarder /\ Len(channel) <= ChannelCap /\ ChannelCap \in Nat
      /\ launch \in Launch /\ Positions
  BY GenerationAssumption DEF IInv, RunnerInv, TypeOK
<1>2. /\ phase = "running" /\ forwarder.pc = "running" /\ channel # <<>>
      /\ bus' = Append(bus, e)
      /\ phase' = phase /\ registered' = registered /\ cancelled' = cancelled
      /\ launch' = launch /\ UNCHANGED runnerVars /\ verdict' = verdict
  BY ForwarderRuns DEF ForwardEvent
<1>3. /\ e \in Event /\ Tail(channel) \in Seq(Event) /\ Len(Tail(channel)) = Len(channel) - 1
      /\ bus' \o Tail(channel) = Sent /\ Prefix(bus', Sent)
  BY <1>1, <1>2, MoveHead DEF Sent
<1>4. \/ /\ ~due
         /\ forwarder' = [forwarder EXCEPT !.seen = Seen(e), !.dirty = Dirty(e)]
         /\ channel' = Tail(channel)
         /\ row' = row /\ generation' = generation
      \/ /\ due /\ stored
         /\ CheckpointStored(Seen(e))
         /\ forwarder' = [forwarder EXCEPT !.seen = Seen(e), !.dirty = FALSE]
         /\ channel' = Tail(channel)
      \/ /\ due /\ ~stored
         /\ forwarder' = [forwarder EXCEPT !.pc = "failed", !.seen = Seen(e)]
         /\ channel' = <<>>
         /\ row' = row /\ generation' = generation
  BY DEF ForwardEvent, storeVars
<1>5. due => Dirty(e)
  BY DEF ForwardEvent
<1> HIDE DEF e
<1>6. /\ Shown' = Shown + TextOf(e) /\ TextOf(e) \in Nat /\ Shown \in Nat
      /\ launch.preserve => forwarder.seen = Shown
  BY <1>1, <1>2, <1>3, TextSumAppend, TextOfType DEF Shown, TextCounted
<1>7. Shown <= Shown' /\ (launch.preserve => Seen(e) = Shown') /\ Seen(e) \in Nat
  <2>1. forwarder.seen \in Nat /\ e.amount \in Nat
    BY <1>1, <1>3 DEF Forwarder, Event
  <2>2. Seen(e) = forwarder.seen + IF launch.preserve THEN TextOf(e) ELSE 0
    BY <2>1 DEF Seen, TextOf
  <2> QED
    BY <1>6, <2>1, <2>2
<1>8. Dirty(e) \in BOOLEAN /\ (Dirty(e) => launch.preserve)
  BY <1>1 DEF Dirty, Positions, Forwarder, Launch
<1>9. bus' \in Seq(Event) /\ Len(Tail(channel)) <= ChannelCap
  BY <1>1, <1>2, <1>3
<1>10. CASE /\ ~due
            /\ forwarder' = [forwarder EXCEPT !.seen = Seen(e), !.dirty = Dirty(e)]
            /\ channel' = Tail(channel)
            /\ row' = row /\ generation' = generation
  <2>1. /\ forwarder' \in Forwarder /\ forwarder'.pc = "running"
        /\ forwarder'.seen = Seen(e) /\ forwarder'.dirty = Dirty(e)
    BY <1>1, <1>2, <1>7, <1>8, <1>10 DEF Forwarder
  <2>2. Sent' = Sent /\ Prefix(Sent', Sent)
    BY <1>3, <1>10 DEF Sent, Prefix
  <2> QED
    BY <1>2, <1>3, <1>7, <1>8, <1>9, <1>10, <2>1, <2>2 DEF Delivery
<1>11. CASE /\ due /\ stored
            /\ CheckpointStored(Seen(e))
            /\ forwarder' = [forwarder EXCEPT !.seen = Seen(e), !.dirty = FALSE]
            /\ channel' = Tail(channel)
  <2>1. /\ forwarder' \in Forwarder /\ forwarder'.pc = "running"
        /\ forwarder'.seen = Seen(e) /\ ~forwarder'.dirty
    BY <1>1, <1>2, <1>7, <1>11 DEF Forwarder
  <2>2. Sent' = Sent /\ Prefix(Sent', Sent)
    BY <1>3, <1>11 DEF Sent, Prefix
  <2>3. /\ row' = [row EXCEPT !.content = forwarder'.seen] /\ generation' = generation
        /\ launch.preserve
    BY <1>5, <1>8, <1>11, <2>1 DEF CheckpointStored
  <2> QED
    BY <1>2, <1>3, <1>7, <1>9, <1>11, <2>1, <2>2, <2>3 DEF Delivery
<1>12. CASE /\ due /\ ~stored
            /\ forwarder' = [forwarder EXCEPT !.pc = "failed", !.seen = Seen(e)]
            /\ channel' = <<>>
            /\ row' = row /\ generation' = generation
  <2>1. /\ forwarder' \in Forwarder /\ forwarder'.pc = "failed"
        /\ forwarder'.seen = Seen(e) /\ forwarder'.dirty = forwarder.dirty
    BY <1>1, <1>2, <1>7, <1>12 DEF Forwarder
  <2>2. Sent' = bus'
    BY <1>9, <1>12, NothingWaits DEF Sent
  <2>3. channel' \in Seq(Event) /\ Len(channel') <= ChannelCap
    BY <1>1, <1>12
  <2>4. forwarder'.dirty => launch.preserve
    BY <1>1, <2>1 DEF Positions
  <2> QED
    BY <1>2, <1>3, <1>7, <1>9, <1>12, <2>1, <2>2, <2>3, <2>4 DEF Delivery
<1> QED
  BY <1>4, <1>10, <1>11, <1>12

(* A checkpoint at the tick. *)
LEMMA CheckpointTickDelivers ==
    ASSUME IInv, NEW stored \in BOOLEAN, CheckpointTick(stored)
    PROVE  Delivery
<1>1. /\ TypeOK /\ TextCounted /\ bus \in Seq(Event) /\ channel \in Seq(Event)
      /\ forwarder \in Forwarder /\ Len(channel) <= ChannelCap /\ ChannelCap \in Nat
      /\ Positions
  BY GenerationAssumption DEF IInv, RunnerInv, TypeOK
<1>2. /\ phase = "running" /\ forwarder.pc = "running" /\ bus' = bus
      /\ phase' = phase /\ registered' = registered /\ cancelled' = cancelled
      /\ launch' = launch /\ UNCHANGED runnerVars /\ verdict' = verdict
      /\ forwarder.dirty
  BY ForwarderRuns DEF CheckpointTick
<1>3. launch.preserve /\ forwarder.seen = Shown /\ forwarder.seen \in Nat
  BY <1>1, <1>2 DEF Positions, TextCounted, Forwarder
<1>4. Shown' = Shown /\ Shown <= Shown' /\ Prefix(bus, Sent) /\ Prefix(Sent, Sent)
  BY <1>1, <1>2, <1>3, SentIs DEF Shown, Prefix
<1>5. CASE /\ CheckpointStored(forwarder.seen)
           /\ forwarder' = [forwarder EXCEPT !.dirty = FALSE]
           /\ channel' = channel
  <2>1. /\ forwarder' \in Forwarder /\ forwarder'.pc = "running"
        /\ forwarder'.seen = forwarder.seen /\ ~forwarder'.dirty
    BY <1>1, <1>2, <1>5 DEF Forwarder
  <2>2. Sent' = Sent
    BY <1>2, <1>5 DEF Sent
  <2>3. row' = [row EXCEPT !.content = forwarder'.seen] /\ generation' = generation
    BY <1>5, <2>1 DEF CheckpointStored
  <2> QED
    BY <1>1, <1>2, <1>3, <1>4, <1>5, <2>1, <2>2, <2>3 DEF Delivery
<1>6. CASE /\ forwarder' = [forwarder EXCEPT !.pc = "failed"]
           /\ channel' = <<>>
           /\ UNCHANGED storeVars
  <2>1. /\ forwarder' \in Forwarder /\ forwarder'.pc = "failed"
        /\ forwarder'.seen = forwarder.seen
    BY <1>1, <1>2, <1>6 DEF Forwarder
  <2>2. Sent' = bus
    BY <1>1, <1>2, <1>6, NothingWaits DEF Sent
  <2>3. channel' \in Seq(Event) /\ Len(channel') <= ChannelCap
    BY <1>1, <1>6
  <2>4. row' = row /\ generation' = generation
    BY <1>6 DEF storeVars
  <2> QED
    BY <1>1, <1>2, <1>3, <1>4, <1>6, <2>1, <2>2, <2>3, <2>4 DEF Delivery
<1> QED
  BY <1>5, <1>6 DEF CheckpointTick

(* The last checkpoint, once everything was received. *)
LEMMA ForwarderEndsDelivers ==
    ASSUME IInv, NEW stored \in BOOLEAN, ForwarderEnds(stored)
    PROVE  Delivery
<1>1. /\ TypeOK /\ TextCounted /\ bus \in Seq(Event) /\ channel \in Seq(Event)
      /\ forwarder \in Forwarder /\ Len(channel) <= ChannelCap /\ Positions
  BY DEF IInv, RunnerInv, TypeOK
<1>2. /\ phase = "running" /\ forwarder.pc = "running" /\ bus' = bus
      /\ phase' = phase /\ registered' = registered /\ cancelled' = cancelled
      /\ launch' = launch /\ UNCHANGED runnerVars /\ verdict' = verdict
      /\ channel = <<>> /\ channel' = channel /\ runner.pc = "done"
  BY ForwarderRuns DEF ForwarderEnds
<1>3. forwarder.dirty => launch.preserve
  BY <1>1 DEF Positions
<1>4. (launch.preserve => forwarder.seen = Shown) /\ Shown \in Nat
  BY <1>1, <1>2, SentIs DEF TextCounted
<1>5. /\ Shown' = Shown /\ Shown <= Shown' /\ Sent' = Sent /\ Prefix(Sent, Sent)
  BY <1>1, <1>2, <1>4, SentIs DEF Shown, Prefix, Sent
<1>6. \/ forwarder' = [forwarder EXCEPT !.pc = "ok"]
      \/ forwarder' = [forwarder EXCEPT !.pc = "failed"]
  BY DEF ForwarderEnds
<1>7. /\ forwarder' \in Forwarder /\ forwarder'.pc \in {"ok", "failed"}
      /\ forwarder'.seen = forwarder.seen /\ forwarder'.dirty = forwarder.dirty
  BY <1>1, <1>6 DEF Forwarder
<1>8. /\ generation' = generation
      /\ \/ row' = row
         \/ launch.preserve /\ row' = [row EXCEPT !.content = forwarder'.seen]
  BY <1>3, <1>7 DEF ForwarderEnds, CheckpointStored, storeVars
<1> QED
  BY <1>1, <1>2, <1>3, <1>4, <1>5, <1>7, <1>8 DEF Delivery

(* So the forwarder keeps it, whatever it does. *)
LEMMA ForwarderStepDelivers ==
    ASSUME IInv, ForwarderStep
    PROVE  Delivery
  BY ForwardEventDelivers, CheckpointTickDelivers, ForwarderEndsDelivers DEF ForwarderStep


-----------------------------------------------------------------------------
(* The task.  Once the runner has ended, its part is no longer in use. *)
LEMMA RunnerPartRests ==
    ASSUME RunnerInv, UNCHANGED runnerVars, channel' = channel, forwarder' = forwarder,
           launch' = launch, phase' \in Phase \ {"running"}, registered' \in BOOLEAN,
           cancelled' \in BOOLEAN, verdict' \in Verdict, row' \in Row,
           generation' \in {"absent", "running"} \cup Terminal, bus' \in Seq(Event)
    PROVE  RunnerInv'
<1>1. TypeOK'
  BY DEF RunnerInv, TypeOK, runnerVars
<1>2. RunnerSpeaks' /\ CallsTracked'
  BY DEF RunnerInv, RunnerSpeaks, CallsTracked, IsCompleted, runnerVars
<1>3. CallsSeen' /\ TextCounted'
  BY DEF CallsSeen, TextCounted
<1> QED
  BY <1>1, <1>2, <1>3 DEF RunnerInv

(* An empty stream. *)
LEMMA NothingSaid ==
    /\ InOrder(<<>>) /\ Paired(<<>>) /\ AllEnded(<<>>)
    /\ \A kinds : NoKind(<<>>, kinds)
    /\ \A kind, id : ~Has(<<>>, kind, id)
    /\ Len(<<>>) = 0
  BY DEF InOrder, Paired, AllEnded, NoKind, Has

(* The task starts with both records open. *)
LEMMA StartTaskKeeps ==
    ASSUME IInv, StartTask
    PROVE  IInv'
<1>1. /\ Positions /\ TypeOK /\ phase = "launching" /\ phase' = "running"
      /\ row' = [status |-> "pending", content |-> 0] /\ generation' = "running"
      /\ registered' = registered /\ cancelled' = cancelled /\ launch' = launch
      /\ channel' = channel /\ forwarder' = forwarder /\ verdict' = verdict
      /\ bus' = bus /\ UNCHANGED runnerVars /\ RunnerSpeaks /\ CallsTracked
  BY DEF IInv, RunnerInv, StartTask
<1>2. /\ queue' = queue /\ runner' = runner /\ withheld' = withheld /\ active' = active
      /\ completed' = completed /\ outbox' = outbox
  BY <1>1 DEF runnerVars
<1>3. /\ bus = <<>> /\ channel = <<>> /\ outbox = <<>> /\ runner = NewRunner
      /\ forwarder = NewForwarder /\ active = {} /\ completed = <<>>
      /\ registered
  BY <1>1 DEF Positions, Unstarted
<1>4. Sent' = <<>> /\ Shown' = 0 /\ TextSum(Sent') = 0
  <2>1. Sent' = <<>>
    BY <1>1, <1>3 DEF Sent
  <2> QED
    BY <2>1, <1>1, <1>3, TextSumEmpty DEF Shown
<1>5. row' \in Row /\ row'.status = "pending" /\ row'.content = 0
  BY <1>1 DEF Row
<1>6. TypeOK'
  BY <1>1, <1>2, <1>5 DEF TypeOK, Phase
<1>7. RunnerSpeaks' /\ CallsTracked'
  BY <1>1, <1>2 DEF RunnerSpeaks, CallsTracked, IsCompleted
<1>8. CallsSeen'
  <2>1. \A x : ~IsCompleted(x)'
    BY <1>2, <1>3 DEF IsCompleted
  <2>2. \A kind, x : ~Has(Sent', kind, x) /\ ~Outgoing(kind, x)'
    BY <1>2, <1>3, <1>4, NothingSaid DEF Outgoing
  <2>3. \A x \in Tools : CallSeen(x)'
    BY <1>2, <1>3, <2>1, <2>2 DEF CallSeen
  <2> QED
    BY <1>2, <1>3, <2>3 DEF CallsSeen
<1>9. TextCounted'
  BY <1>1, <1>2, <1>3, <1>4 DEF TextCounted, Owed, NewRunner, NewForwarder
<1>10. Positions'
  BY <1>1, <1>2, <1>3 DEF Positions, Unstarted, Decided, Told, NewForwarder
<1>11. StreamInv'
  <2>1. InOrder(Sent') /\ Paired(Sent)' /\ NoKind(Sent', TerminalKinds)
        /\ NoKind(Sent', {"committed"}) /\ Len(Sent') = 0
    BY <1>4, NothingSaid
  <2>2. Numbered'
    BY <1>1, <2>1 DEF Numbered, Decided
  <2>3. FinishedIsEnded'
    BY <1>1, <2>1 DEF FinishedIsEnded, Decided
  <2> QED
    BY <2>1, <2>2, <2>3 DEF StreamInv
<1>12. StoreInv'
  <2>1. Settled'
    BY <1>1 DEF Settled, Decided, Told
  <2>2. RecordsAgree'
    BY <1>1, <1>5 DEF RecordsAgree
  <2>3. CommittedIsTerminal' /\ AnnouncedIsDurable'
    BY <1>1, <1>3 DEF CommittedIsTerminal, AnnouncedIsDurable
  <2>4. ShownIsStored'
    BY <1>4, <1>5 DEF ShownIsStored, Terminal
  <2> QED
    BY <2>1, <2>2, <2>3, <2>4 DEF StoreInv
<1> QED
  BY <1>6, <1>7, <1>8, <1>9, <1>10, <1>11, <1>12 DEF IInv, RunnerInv

(* The append failed. *)
LEMMA DropPermitKeeps ==
    ASSUME IInv, DropPermit
    PROVE  IInv'
<1>1. /\ phase = "launching" /\ phase' = "refused" /\ registered' = FALSE
      /\ cancelled' = cancelled /\ launch' = launch /\ UNCHANGED runnerVars
      /\ channel' = channel /\ forwarder' = forwarder /\ verdict' = verdict
      /\ row' = row /\ generation' = generation /\ bus' = bus
  BY DEF DropPermit, storeVars
<1>2. /\ Positions /\ RunnerInv /\ TypeOK /\ Numbered /\ Paired(Sent) /\ FinishedIsEnded
      /\ RecordsAgree /\ CommittedIsTerminal /\ AnnouncedIsDurable /\ ShownIsStored
  BY DEF IInv, RunnerInv, StreamInv, StoreInv
<1>3. RunnerInv'
  BY <1>1, <1>2, RunnerPartRests DEF TypeOK, Phase
<1>4. Positions'
  BY <1>1, <1>2 DEF Positions, Unstarted, Decided, Told, runnerVars
<1>5. Sent' = Sent /\ Shown' = Shown
  BY <1>1 DEF Sent, Shown
<1>6. StreamInv'
  BY <1>1, <1>2, <1>5 DEF StreamInv, Numbered, FinishedIsEnded, Decided
<1>7. StoreInv'
  BY <1>1, <1>2, <1>5
  DEF StoreInv, Settled, Decided, Told, RecordsAgree, CommittedIsTerminal,
      AnnouncedIsDurable, ShownIsStored
<1> QED
  BY <1>3, <1>4, <1>6, <1>7 DEF IInv

(* A cancellation only sets the watch. *)
LEMMA CancelKeeps ==
    ASSUME IInv, Cancel
    PROVE  IInv'
<1>1. /\ phase' = phase /\ registered' = registered /\ cancelled' = TRUE
      /\ launch' = launch /\ UNCHANGED runnerVars
      /\ channel' = channel /\ forwarder' = forwarder /\ verdict' = verdict
      /\ row' = row /\ generation' = generation /\ bus' = bus
  BY DEF Cancel, storeVars
<1>2. /\ queue' = queue /\ runner' = runner /\ withheld' = withheld /\ active' = active
      /\ completed' = completed /\ outbox' = outbox
  BY <1>1 DEF runnerVars
<1>3. Sent' = Sent /\ Shown' = Shown
  BY <1>1 DEF Sent, Shown
<1>4. /\ Positions /\ Numbered /\ Paired(Sent) /\ FinishedIsEnded /\ Settled
      /\ RecordsAgree /\ CommittedIsTerminal /\ AnnouncedIsDurable /\ ShownIsStored
      /\ TypeOK /\ RunnerSpeaks /\ CallsTracked /\ CallsSeen /\ TextCounted
  BY DEF IInv, StreamInv, StoreInv, RunnerInv
<1>5. TypeOK' /\ RunnerSpeaks'
  BY <1>1, <1>2, <1>4 DEF TypeOK, RunnerSpeaks
<1>6. CallsTracked' /\ TextCounted'
  BY <1>1, <1>2, <1>3, <1>4 DEF CallsTracked, IsCompleted, TextCounted, Owed
<1>7. CallsSeen'
  <2>1. SUFFICES ASSUME phase = "running", forwarder.pc # "failed"
                 PROVE  /\ outbox' # <<>> => Fits(Sent', Head(outbox'))
                        /\ \A x \in Tools : CallSeen(x)'
    BY <1>1 DEF CallsSeen
  <2>2. (outbox # <<>> => Fits(Sent, Head(outbox))) /\ \A x \in Tools : CallSeen(x)
    BY <1>4, <2>1 DEF CallsSeen
  <2>3. ASSUME NEW x \in Tools PROVE CallSeen(x)'
    <3>1. IsCompleted(x)' <=> IsCompleted(x)
      BY <1>2 DEF IsCompleted
    <3>2. CallSeen(x)
      BY <2>2
    <3> QED
      BY <1>2, <1>3, <3>1, <3>2 DEF CallSeen, Outgoing
  <2> QED
    BY <1>2, <1>3, <2>2, <2>3
<1>8. Positions'
  BY <1>1, <1>2, <1>4 DEF Positions
<1>9. StreamInv'
  BY <1>1, <1>2, <1>3, <1>4 DEF StreamInv, Numbered, FinishedIsEnded
<1>10. StoreInv'
  BY <1>1, <1>3, <1>4
  DEF StoreInv, Settled, RecordsAgree, CommittedIsTerminal, AnnouncedIsDurable,
      ShownIsStored
<1> QED
  BY <1>5, <1>6, <1>7, <1>8, <1>9, <1>10 DEF IInv, RunnerInv

(* A complete answer needs a runner that succeeded and a forwarder that    *)
(* did not fail.                                                           *)
LEMMA MergedIs ==
    ASSUME TypeOK
    PROVE  /\ MergedStatus \in Terminal
           /\ MergedStatus = "complete" => forwarder.pc # "failed" /\ runner.result = "ok"
  BY DEF MergedStatus, Terminal

(* The terminal event of each status. *)
LEMMA KindIs ==
    ASSUME NEW status \in Terminal
    PROVE  /\ TerminalKind(status) \in TerminalKinds
           /\ TerminalKind(status) = "finished" <=> status = "complete"
           /\ TerminalKind(status) = "cancelled" <=> status = "cancelled"
           /\ TerminalKind(status) = "failed" <=> status = "failed"
  BY DEF TerminalKind, Terminal, TerminalKinds

(* The join: the verdict is numbered after everything that was sent. *)
LEMMA ApplyResultKeeps ==
    ASSUME IInv, ApplyResult
    PROVE  IInv'
<1>1. /\ Positions /\ Numbered /\ Paired(Sent) /\ FinishedIsEnded
      /\ RecordsAgree /\ CommittedIsTerminal /\ AnnouncedIsDurable /\ ShownIsStored
      /\ TypeOK /\ RunnerSpeaks /\ CallsTracked /\ CallsSeen /\ TextCounted /\ RunnerInv
  BY DEF IInv, StreamInv, StoreInv, RunnerInv
<1>2. /\ phase = "running" /\ runner.pc = "done" /\ forwarder.pc # "running"
      /\ phase' = "finalize" /\ registered' = registered /\ cancelled' = cancelled
      /\ launch' = launch /\ UNCHANGED runnerVars /\ channel' = channel
      /\ forwarder' = forwarder /\ row' = row /\ generation' = generation /\ bus' = bus
      /\ verdict' = [status |-> MergedStatus, original |-> MergedStatus,
                     content |-> runner.text, seq |-> runner.seq + 1,
                     kind |-> TerminalKind(MergedStatus),
                     keep |-> \/ MergedStatus = "complete"
                              \/ launch.preserve /\ runner.text > 0]
  BY DEF ApplyResult, Joined, storeVars
<1>3. /\ MergedStatus \in Terminal
      /\ MergedStatus = "complete" => forwarder.pc # "failed" /\ runner.result = "ok"
  BY <1>1, MergedIs
<1>4. /\ TerminalKind(MergedStatus) \in TerminalKinds
      /\ TerminalKind(MergedStatus) = "finished" => MergedStatus = "complete"
  BY <1>3, KindIs
<1>5. /\ runner.text \in Nat /\ runner.seq \in Nat /\ runner.seq + 1 \in Nat
  BY <1>1 DEF TypeOK, Runner
<1>6. /\ verdict'.status = MergedStatus /\ verdict'.original = MergedStatus
      /\ verdict'.content = runner.text /\ verdict'.seq = runner.seq + 1
      /\ verdict'.kind = TerminalKind(MergedStatus)
      /\ MergedStatus = "complete" => verdict'.keep
  BY <1>2
<1>7. verdict' \in Verdict
  <2>1. launch.preserve \in BOOLEAN
    BY <1>1 DEF TypeOK, Launch
  <2> DEFINE keeps == MergedStatus = "complete" \/ (launch.preserve /\ runner.text > 0)
  <2>2. keeps \in BOOLEAN
    OBVIOUS
  <2>3. verdict' = [status |-> MergedStatus, original |-> MergedStatus,
                    content |-> runner.text, seq |-> runner.seq + 1,
                    kind |-> TerminalKind(MergedStatus), keep |-> keeps]
    BY <1>2
  <2> HIDE DEF keeps
  <2> QED
    BY <1>3, <1>4, <1>5, <2>2, <2>3 DEF Verdict
<1>8. channel = <<>> /\ outbox = <<>>
  BY <1>1, <1>2 DEF Positions, RunnerSpeaks
<1>9. Sent' = Sent /\ Shown' = Shown /\ Sent = bus /\ Sent \in Seq(Event) /\ Shown \in Nat
  BY <1>1, <1>2, <1>8, SentIs DEF Sent, Shown
<1>10. RunnerInv'
  BY <1>1, <1>2, <1>7, RunnerPartRests DEF TypeOK, Phase
<1>11. Positions'
  BY <1>1, <1>2, <1>8 DEF Positions, Unstarted, Decided, Told, runnerVars
<1>12. Numbered'
  <2>1. \A i \in 1..Len(Sent) : Sent[i].seq \in Nat /\ Sent[i].seq <= runner.seq
    BY <1>1, <1>2, SentIs DEF Numbered
  <2>2. \A i \in 1..Len(Sent') : Sent'[i].seq < verdict'.seq
    BY <1>5, <1>6, <1>9, <2>1
  <2> QED
    BY <1>1, <1>2, <1>9, <2>2 DEF Numbered, Decided
<1>13. FinishedIsEnded'
  <2>1. ASSUME MergedStatus = "complete" PROVE AllEnded(Sent)
    <3>1. active = {} /\ completed = <<>> /\ \A x \in Tools : CallSeen(x)
      BY <1>1, <1>2, <1>3, <2>1 DEF CallsTracked, CallsSeen
    <3>2. \A x : ~IsCompleted(x)
      <4>1. completed = <<>>
        BY <3>1
      <4> QED
        BY <4>1 DEF IsCompleted
    <3>3. \A k, x : ~Outgoing(k, x)
      BY <1>8 DEF Outgoing
    <3> QED
      BY <3>1, <3>2, <3>3 DEF CallSeen, AllEnded
  <2>2. verdict'.kind = "finished" => AllEnded(Sent')
    BY <1>4, <1>6, <1>9, <2>1
  <2> QED
    BY <1>1, <1>9, <2>2 DEF FinishedIsEnded
<1>14. Settled'
  <2>1. runner.text >= Shown
    BY <1>1, <1>2 DEF TextCounted
  <2>2. MergedStatus = "complete" => runner.text = Shown
    <3>1. Owed = 0 /\ TextSum(Sent) = Shown
      BY <1>8, <1>9 DEF Owed, Shown
    <3> QED
      BY <1>1, <1>2, <1>3, <1>9, <3>1 DEF TextCounted
  <2>3. generation' = "running"
    BY <1>1, <1>2 DEF RecordsAgree
  <2> QED
    BY <1>2, <1>3, <1>6, <1>9, <2>1, <2>2, <2>3 DEF Settled, Told
<1>15. RecordsAgree' /\ CommittedIsTerminal' /\ AnnouncedIsDurable' /\ ShownIsStored'
  BY <1>1, <1>2, <1>9
  DEF RecordsAgree, CommittedIsTerminal, AnnouncedIsDurable, ShownIsStored
<1> QED
  BY <1>1, <1>9, <1>10, <1>11, <1>12, <1>13, <1>14, <1>15 DEF IInv, StreamInv, StoreInv

(* The storage calls between the verdict and its announcement. *)
LEMMA QuietTaskKeeps ==
    ASSUME IInv, phase \in {"finalize", "compensate", "verify"},
           phase' \in {"compensate", "verify", "commit", "announce"},
           registered' = registered, cancelled' = cancelled, launch' = launch,
           UNCHANGED runnerVars, channel' = channel, forwarder' = forwarder, bus' = bus,
           verdict' \in Verdict, verdict'.seq = verdict.seq,
           verdict'.kind \in {verdict.kind, "failed"},
           row' \in Row, generation' \in {"absent", "running"} \cup Terminal,
           (row' = row /\ generation' = generation) \/ generation' # "running",
           Settled'
    PROVE  IInv'
<1>1. /\ Positions /\ Numbered /\ Paired(Sent) /\ FinishedIsEnded /\ Settled
      /\ RecordsAgree /\ CommittedIsTerminal /\ AnnouncedIsDurable /\ ShownIsStored
      /\ TypeOK /\ RunnerInv
  BY DEF IInv, StreamInv, StoreInv, RunnerInv
<1>2. RunnerInv'
  BY <1>1, RunnerPartRests DEF TypeOK, Phase
<1>3. Positions'
  BY <1>1 DEF Positions, Unstarted, Decided, Told, runnerVars
<1>4. Sent' = Sent /\ Shown' = Shown /\ Shown \in Nat /\ Sent = bus
  BY <1>1, SentIs DEF Sent, Shown, Positions
<1>5. Numbered'
  BY <1>1, <1>4 DEF Numbered, Decided
<1>6. FinishedIsEnded'
  BY <1>1, <1>4 DEF FinishedIsEnded, Decided
<1>7. /\ verdict'.original \in Terminal /\ verdict'.content >= Shown
      /\ verdict'.original = "complete" => verdict'.content = Shown
      /\ \/ generation' = "running"
         \/ /\ generation' \in {verdict'.original, "failed"}
            /\ row' = IF verdict'.keep
                      THEN [status |-> generation', content |-> verdict'.content]
                      ELSE NoRow
  BY <1>4 DEF Settled, Decided, Told
<1>8. CASE generation' = "running"
  <2>1. row' = row /\ generation' = generation
    BY <1>8
  <2>2. RecordsAgree' /\ ShownIsStored'
    BY <1>1, <1>4, <1>8, <2>1 DEF RecordsAgree, ShownIsStored, Terminal
  <2>3. CommittedIsTerminal' /\ AnnouncedIsDurable'
    BY <1>1, <2>1 DEF CommittedIsTerminal, AnnouncedIsDurable
  <2> QED
    BY <1>1, <1>2, <1>3, <1>4, <1>5, <1>6, <2>2, <2>3 DEF IInv, StreamInv, StoreInv
<1>9. CASE generation' # "running"
  <2>1. generation' \in {verdict'.original, "failed"} /\ generation' \in Terminal
    BY <1>7, <1>9 DEF Terminal
  <2>2. \/ row'.status = generation' /\ row'.content = verdict'.content
        \/ row'.status = "absent"
    BY <1>7, <1>9 DEF NoRow
  <2>3. RecordsAgree'
    BY <1>9, <2>1, <2>2 DEF RecordsAgree, Terminal
  <2>4. ShownIsStored'
    BY <1>4, <1>7, <2>1, <2>2 DEF ShownIsStored, Terminal
  <2>5. NoKind(bus, TerminalKinds) /\ NoKind(bus, {"committed"})
    BY <1>1, <1>4 DEF Numbered, Decided
  <2>6. CommittedIsTerminal' /\ AnnouncedIsDurable'
    BY <2>5 DEF CommittedIsTerminal, AnnouncedIsDurable, NoKind, TerminalKinds
  <2> QED
    BY <1>1, <1>2, <1>3, <1>4, <1>5, <1>6, <2>3, <2>4, <2>6 DEF IInv, StreamInv, StoreInv
<1> QED
  BY <1>8, <1>9

(* The rows a terminal transaction leaves. *)
LEMMA PersistIs ==
    ASSUME verdict \in Verdict, NEW status \in Terminal, Persist(status)
    PROVE  /\ row' \in Row /\ generation' = status
           /\ row' = IF verdict.keep THEN [status |-> generation', content |-> verdict.content]
                                     ELSE NoRow
<1>1. verdict.content \in Nat
  BY DEF Verdict
<1> QED
  BY <1>1 DEF Persist, Row, NoRow

(* The first transaction, whether it takes effect or is reported or not. *)
LEMMA FinalizeGenerationKeeps ==
    ASSUME IInv, NEW how \in Outcomes, FinalizeGeneration(how)
    PROVE  IInv'
<1>1. /\ Settled /\ TypeOK /\ phase = "finalize" /\ registered' = registered
      /\ cancelled' = cancelled /\ launch' = launch /\ UNCHANGED runnerVars
      /\ channel' = channel /\ forwarder' = forwarder /\ verdict' = verdict /\ bus' = bus
      /\ (IF how = "lost" THEN UNCHANGED storeVars ELSE Persist(verdict.status))
      /\ phase' = IF how = "done" THEN AfterPersist ELSE "compensate"
  BY DEF FinalizeGeneration, IInv, StoreInv, RunnerInv
<1>2. /\ verdict \in Verdict /\ row \in Row
      /\ generation \in {"absent", "running"} \cup Terminal
  BY <1>1 DEF TypeOK
<1>3. /\ verdict.original \in Terminal /\ verdict.status = verdict.original
      /\ verdict.content >= Shown /\ verdict.kind = TerminalKind(verdict.original)
      /\ verdict.original = "complete" => verdict.keep /\ verdict.content = Shown
      /\ generation = "running"
  BY <1>1 DEF Settled, Decided
<1>4. Shown' = Shown
  BY <1>1 DEF Shown
<1>5. CASE how = "lost"
  <2>1. row' = row /\ generation' = generation /\ phase' = "compensate"
    BY <1>1, <1>5 DEF storeVars
  <2>2. Settled'
    BY <1>1, <1>3, <1>4, <2>1 DEF Settled, Told
  <2>3. verdict'.kind \in {verdict.kind, "failed"} /\ verdict'.seq = verdict.seq
    BY <1>1
  <2> QED
    BY <1>1, <1>2, <2>1, <2>2, <2>3, QuietTaskKeeps
<1>6. CASE how # "lost"
  <2>1. /\ row' \in Row /\ generation' = verdict.status
        /\ row' = IF verdict.keep THEN [status |-> generation', content |-> verdict.content]
                                  ELSE NoRow
    BY <1>1, <1>2, <1>3, <1>6, PersistIs
  <2>2. /\ phase' \in {"compensate", "commit", "announce"}
        /\ phase' = "commit" => verdict.keep
    BY <1>1 DEF AfterPersist
  <2>3. generation' \in Terminal /\ generation' # "running"
    BY <1>3, <2>1 DEF Terminal
  <2>4. Settled'
    BY <1>1, <1>3, <1>4, <2>1, <2>2, <2>3 DEF Settled, Told
  <2>5. verdict'.kind \in {verdict.kind, "failed"} /\ verdict'.seq = verdict.seq
    BY <1>1
  <2> QED
    BY <1>1, <1>2, <2>1, <2>2, <2>3, <2>4, <2>5, QuietTaskKeeps
<1> QED
  BY <1>5, <1>6

(* The compensating one, which refuses a generation that is not running. *)
LEMMA CompensateGenerationKeeps ==
    ASSUME IInv, NEW how \in Outcomes, CompensateGeneration(how)
    PROVE  IInv'
<1>1. /\ Settled /\ TypeOK /\ phase = "compensate" /\ registered' = registered
      /\ cancelled' = cancelled /\ launch' = launch /\ UNCHANGED runnerVars
      /\ channel' = channel /\ forwarder' = forwarder /\ bus' = bus
      /\ how = "done" => generation = "running"
      /\ (IF generation = "running" /\ how # "lost" THEN Persist("failed")
                                                    ELSE UNCHANGED storeVars)
      /\ verdict' = [verdict EXCEPT !.status = "failed",
                        !.kind = IF how = "done" THEN "failed" ELSE verdict.kind]
      /\ phase' = IF how = "done" THEN AfterPersist ELSE "verify"
  BY DEF CompensateGeneration, IInv, StoreInv, RunnerInv
<1>2. /\ verdict \in Verdict /\ row \in Row
      /\ generation \in {"absent", "running"} \cup Terminal
  BY <1>1 DEF TypeOK
<1>3. /\ verdict.original \in Terminal
      /\ verdict.content >= Shown /\ verdict.kind = TerminalKind(verdict.original)
      /\ verdict.original = "complete" => verdict.keep /\ verdict.content = Shown
      /\ \/ generation = "running"
         \/ /\ generation \in {verdict.original, "failed"}
            /\ row = IF verdict.keep
                     THEN [status |-> generation, content |-> verdict.content]
                     ELSE NoRow
  BY <1>1 DEF Settled, Decided
<1>4. /\ verdict' \in Verdict /\ verdict'.status = "failed"
      /\ verdict'.original = verdict.original /\ verdict'.content = verdict.content
      /\ verdict'.seq = verdict.seq /\ verdict'.keep = verdict.keep
      /\ verdict'.kind = IF how = "done" THEN "failed" ELSE verdict.kind
  BY <1>1, <1>2 DEF Verdict, Terminal, TerminalKinds
<1>5. Shown' = Shown
  BY <1>1 DEF Shown
<1>6. CASE generation = "running" /\ how # "lost"
  <2>0. "failed" \in Terminal
    BY DEF Terminal
  <2>1. /\ row' \in Row /\ generation' = "failed"
        /\ row' = IF verdict.keep THEN [status |-> generation', content |-> verdict.content]
                                  ELSE NoRow
    BY <1>1, <1>2, <1>6, <2>0, PersistIs
  <2>2. /\ phase' \in {"verify", "commit", "announce"}
        /\ phase' = "commit" => verdict.keep
        /\ phase' # "verify" => how = "done"
    BY <1>1 DEF AfterPersist
  <2>3. /\ phase' = "verify" => verdict'.kind = TerminalKind(verdict'.original)
        /\ phase' # "verify" => verdict'.kind = "failed"
    BY <1>1, <1>3, <1>4, <2>2 DEF AfterPersist
  <2>4. Settled'
    <3>1. /\ verdict'.original \in Terminal /\ verdict'.content >= Shown'
          /\ verdict'.original = "complete" => verdict'.keep /\ verdict'.content = Shown'
      BY <1>3, <1>4, <1>5
    <3>2. /\ generation' \in {verdict'.original, "failed"}
          /\ row' = IF verdict'.keep
                    THEN [status |-> generation', content |-> verdict'.content]
                    ELSE NoRow
      BY <1>4, <2>1
    <3>3. phase' = "commit" => /\ verdict'.keep /\ generation' = verdict'.status
                               /\ generation' # "running"
      BY <1>4, <2>1, <2>2
    <3> QED
      BY <2>2, <2>3, <3>1, <3>2, <3>3 DEF Settled, Told
  <2> QED
    BY <1>1, <1>2, <1>4, <2>4, <2>0, <2>1, <2>2, <2>3, QuietTaskKeeps
<1>7. CASE ~(generation = "running" /\ how # "lost")
  <2>1. row' = row /\ generation' = generation /\ phase' = "verify" /\ how # "done"
    BY <1>1, <1>7 DEF storeVars
  <2>2. Settled'
    BY <1>3, <1>4, <1>5, <2>1 DEF Settled, Told
  <2> QED
    BY <1>1, <1>2, <1>4, <2>1, <2>2, QuietTaskKeeps
<1> QED
  BY <1>6, <1>7

(* The read that tells which of the two took effect. *)
LEMMA VerifyGenerationKeeps ==
    ASSUME IInv, NEW readable \in BOOLEAN, VerifyGeneration(readable)
    PROVE  IInv'
<1>1. /\ Settled /\ TypeOK /\ phase = "verify" /\ registered' = registered
      /\ cancelled' = cancelled /\ launch' = launch /\ UNCHANGED runnerVars
      /\ channel' = channel /\ forwarder' = forwarder /\ bus' = bus
      /\ row' = row /\ generation' = generation
  BY DEF VerifyGeneration, IInv, StoreInv, RunnerInv, storeVars
<1>2. /\ verdict \in Verdict /\ row \in Row
      /\ generation \in {"absent", "running"} \cup Terminal
  BY <1>1 DEF TypeOK
<1>3. /\ verdict.original \in Terminal
      /\ verdict.content >= Shown /\ verdict.kind = TerminalKind(verdict.original)
      /\ verdict.original = "complete" => verdict.keep /\ verdict.content = Shown
      /\ \/ generation = "running"
         \/ /\ generation \in {verdict.original, "failed"}
            /\ row = IF verdict.keep
                     THEN [status |-> generation, content |-> verdict.content]
                     ELSE NoRow
  BY <1>1 DEF Settled, Decided
<1>4. Shown' = Shown
  BY <1>1 DEF Shown
<1>5. CASE /\ generation = verdict.original
           /\ verdict' = [verdict EXCEPT !.status = verdict.original]
           /\ phase' = AfterPersist
  <2>1. /\ verdict' \in Verdict /\ verdict'.status = verdict.original
        /\ verdict'.original = verdict.original /\ verdict'.content = verdict.content
        /\ verdict'.seq = verdict.seq /\ verdict'.keep = verdict.keep
        /\ verdict'.kind = verdict.kind
    BY <1>2, <1>5 DEF Verdict
  <2>2. phase' \in {"commit", "announce"} /\ (phase' = "commit" => verdict.keep)
    BY <1>5 DEF AfterPersist
  <2>3. generation # "running"
    BY <1>3, <1>5 DEF Terminal
  <2>4. Settled'
    BY <1>1, <1>3, <1>4, <1>5, <2>1, <2>2, <2>3 DEF Settled, Told
  <2> QED
    BY <1>1, <1>2, <2>1, <2>2, <2>4, QuietTaskKeeps
<1>6. CASE verdict' = [verdict EXCEPT !.kind = "failed"] /\ phase' = "announce"
  <2>1. /\ verdict' \in Verdict /\ verdict'.kind = "failed"
        /\ verdict'.original = verdict.original /\ verdict'.content = verdict.content
        /\ verdict'.seq = verdict.seq /\ verdict'.keep = verdict.keep
    BY <1>2, <1>6 DEF Verdict, TerminalKinds
  <2>2. Settled'
    BY <1>1, <1>3, <1>4, <1>6, <2>1 DEF Settled, Told
  <2> QED
    BY <1>1, <1>2, <1>6, <2>1, <2>2, QuietTaskKeeps
<1> QED
  BY <1>5, <1>6 DEF VerifyGeneration
(* What the task says: the status that was stored, then the end. *)
LEMMA TaskNoteIs ==
    ASSUME NEW kind \in {"committed"} \cup TerminalKinds, NEW about \in {"none"} \cup Terminal
    PROVE  /\ Note(kind, about, 0) \in Event
           /\ Note(kind, about, 0).kind = kind /\ Note(kind, about, 0).about = about
<1>1. /\ kind \in {"started", "text", "reasoning", "toolStart", "toolArgs",
                   "toolEnd", "usage", "committed"} \cup TerminalKinds
      /\ about \in {"none"} \cup Tools \cup Terminal
      /\ 0 \in Nat
  OBVIOUS
<1> QED
  BY <1>1 DEF Note, Event


(* The two events the task publishes itself, after everything the runner   *)
(* sent.                                                                   *)
LEMMA PublishIs ==
    ASSUME IInv, phase \in {"commit", "announce"}, NEW m \in Event, m.seq = verdict.seq,
           m.kind \in {"committed"} \cup TerminalKinds,
           bus' = Append(bus, m), channel' = channel
    PROVE  /\ Sent = bus /\ Sent' = bus' /\ bus' \in Seq(Event) /\ Shown' = Shown
           /\ InOrder(Sent') /\ Paired(Sent)'
           /\ AllEnded(Sent) => AllEnded(Sent')
           /\ Len(bus') = Len(bus) + 1 /\ Len(bus) \in Nat /\ bus'[Len(bus) + 1] = m
           /\ \A i \in 1..Len(bus) : bus'[i] = bus[i] /\ bus[i].seq \in Nat
                                       /\ bus[i].seq < verdict.seq
           /\ NoKind(bus, TerminalKinds)
<1>1. TypeOK /\ Positions /\ Numbered /\ Paired(Sent) /\ channel = <<>>
  BY DEF IInv, RunnerInv, StreamInv, Positions
<1>2. Sent = bus /\ bus \in Seq(Event)
  BY <1>1, SentIs
<1>3. /\ bus' \in Seq(Event) /\ Len(bus') = Len(bus) + 1 /\ Len(bus) \in Nat
      /\ bus'[Len(bus) + 1] = m /\ \A i \in 1..Len(bus) : bus'[i] = bus[i]
  BY <1>2, AppendIs
<1>4. Sent' = bus'
  BY <1>1, <1>3, NothingWaits DEF Sent
<1>5. m.kind \notin {"toolStart", "toolArgs", "toolEnd", "text"}
  BY DEF TerminalKinds
<1>6. Shown' = Shown
  <2>1. TextOf(m) = 0 /\ TextSum(bus) \in Nat
    BY <1>2, <1>5, TextSumType DEF TextOf
  <2>2. TextSum(bus') = TextSum(bus) + TextOf(m)
    BY <1>2, TextSumAppend
  <2> QED
    BY <2>1, <2>2 DEF Shown
<1>7. /\ \A i \in 1..Len(bus) : bus[i].seq \in Nat /\ bus[i].seq < verdict.seq
      /\ NoKind(bus, TerminalKinds) /\ InOrder(bus)
  BY <1>1, <1>2, SentIs DEF Numbered, Decided
<1>8. InOrder(Sent')
  BY <1>2, <1>4, <1>7, InOrderAppend
<1>9. Paired(Sent)'
  <2>1. Fits(bus, m)
    BY <1>5 DEF Fits
  <2> QED
    BY <1>1, <1>2, <1>4, <2>1, PairedAppend
<1>10. AllEnded(Sent) => AllEnded(Sent')
  <2>1. \A kind \in {"toolStart", "toolEnd"} : \A id :
           Has(bus', kind, id) <=> Has(bus, kind, id)
    BY <1>2, <1>5, HasAppend
  <2> QED
    BY <1>2, <1>4, <2>1 DEF AllEnded
<1> QED
  BY <1>2, <1>3, <1>4, <1>6, <1>7, <1>8, <1>9, <1>10

(* MessageCommitted names the status that is stored. *)
LEMMA PublishCommittedKeeps ==
    ASSUME IInv, PublishCommitted
    PROVE  IInv'
<1> DEFINE m == [Note("committed", verdict.status, 0) EXCEPT !.seq = verdict.seq]
<1>1. /\ Positions /\ Numbered /\ FinishedIsEnded /\ Settled
      /\ RecordsAgree /\ CommittedIsTerminal /\ AnnouncedIsDurable /\ ShownIsStored
      /\ TypeOK /\ RunnerInv
  BY DEF IInv, StreamInv, StoreInv, RunnerInv
<1>2. /\ phase = "commit" /\ bus' = Append(bus, m)
      /\ verdict' = [verdict EXCEPT !.seq = verdict.seq + 1]
      /\ phase' = "announce" /\ registered' = registered /\ cancelled' = cancelled
      /\ launch' = launch /\ UNCHANGED runnerVars /\ channel' = channel
      /\ forwarder' = forwarder /\ row' = row /\ generation' = generation
  BY DEF PublishCommitted, storeVars
<1>3. verdict \in Verdict /\ verdict.seq \in Nat /\ verdict.seq + 1 \in Nat
  BY <1>1 DEF TypeOK, Verdict
<1>4. /\ verdict.original \in Terminal
      /\ verdict.content >= Shown
      /\ verdict.original = "complete" => verdict.keep /\ verdict.content = Shown
      /\ verdict.keep /\ generation = verdict.status
      /\ generation \in {verdict.original, "failed"}
      /\ row = [status |-> generation, content |-> verdict.content]
      /\ \/ verdict.kind = "failed"
         \/ /\ verdict.kind = TerminalKind(verdict.original)
            /\ generation = verdict.original
  BY <1>1, <1>2 DEF Settled, Decided
<1>5. verdict.status \in Terminal /\ row.status = verdict.status
  BY <1>4 DEF Terminal
<1>6. /\ m \in Event /\ m.seq = verdict.seq /\ m.kind = "committed"
      /\ m.about = verdict.status
  <2> DEFINE n == Note("committed", verdict.status, 0)
  <2>1. n \in Event /\ n.kind = "committed" /\ n.about = verdict.status
    BY <1>5, TaskNoteIs
  <2> HIDE DEF n
  <2>2. [n EXCEPT !.seq = verdict.seq] \in Event
        /\ [n EXCEPT !.seq = verdict.seq].seq = verdict.seq
        /\ [n EXCEPT !.seq = verdict.seq].kind = "committed"
        /\ [n EXCEPT !.seq = verdict.seq].about = verdict.status
    BY <1>3, <2>1, NumberIs
  <2> QED
    BY <2>2 DEF n
<1> HIDE DEF m
<1>7. /\ Sent = bus /\ Sent' = bus' /\ bus' \in Seq(Event) /\ Shown' = Shown
      /\ InOrder(Sent') /\ Paired(Sent)'
      /\ AllEnded(Sent) => AllEnded(Sent')
      /\ Len(bus') = Len(bus) + 1 /\ Len(bus) \in Nat /\ bus'[Len(bus) + 1] = m
      /\ \A i \in 1..Len(bus) : bus'[i] = bus[i] /\ bus[i].seq \in Nat
                                  /\ bus[i].seq < verdict.seq
      /\ NoKind(bus, TerminalKinds)
  BY <1>2, <1>6, PublishIs
<1>8. /\ verdict' \in Verdict /\ verdict'.seq = verdict.seq + 1
      /\ verdict'.original = verdict.original /\ verdict'.content = verdict.content
      /\ verdict'.keep = verdict.keep /\ verdict'.kind = verdict.kind
  BY <1>2, <1>3 DEF Verdict
<1>9. RunnerInv'
  BY <1>1, <1>2, <1>7, <1>8, RunnerPartRests DEF TypeOK, Phase
<1>10. Positions'
  BY <1>1, <1>2 DEF Positions, Unstarted, Decided, Told, runnerVars
<1>11. NoKind(bus', TerminalKinds)
  <2>1. bus \in Seq(Event) /\ m.kind \notin TerminalKinds
    BY <1>1, <1>6 DEF TypeOK, TerminalKinds
  <2> QED
    BY <1>2, <1>6, <1>7, <2>1, NoKindAppend
<1>12. Numbered'
  <2>1. ASSUME NEW i \in 1..Len(Sent') PROVE Sent'[i].seq < verdict'.seq
    <3>1. CASE i = Len(bus) + 1
      BY <1>3, <1>6, <1>7, <1>8, <3>1
    <3>2. CASE i \in 1..Len(bus)
      BY <1>3, <1>7, <1>8, <3>2
    <3> QED
      BY <1>7, <3>1, <3>2
  <2> QED
    BY <1>2, <1>7, <1>11, <2>1 DEF Numbered
<1>13. FinishedIsEnded'
  <2>1. verdict'.kind = "finished" => AllEnded(Sent')
    BY <1>1, <1>2, <1>7, <1>8 DEF FinishedIsEnded, Decided
  <2> QED
    BY <1>7, <1>11, <2>1 DEF FinishedIsEnded, NoKind, TerminalKinds
<1>14. Settled'
  BY <1>2, <1>4, <1>7, <1>8 DEF Settled, Told
<1>15. RecordsAgree' /\ ShownIsStored'
  BY <1>1, <1>2, <1>7 DEF RecordsAgree, ShownIsStored
<1>16. CommittedIsTerminal'
  <2>1. ASSUME NEW i \in 1..Len(bus'), bus'[i].kind = "committed"
        PROVE  bus'[i].about \in Terminal
    <3>1. CASE i = Len(bus) + 1
      BY <1>5, <1>6, <1>7, <3>1
    <3>2. CASE i \in 1..Len(bus)
      BY <1>1, <1>7, <2>1, <3>2 DEF CommittedIsTerminal
    <3> QED
      BY <1>7, <3>1, <3>2
  <2> QED
    BY <2>1 DEF CommittedIsTerminal
<1>17. AnnouncedIsDurable'
  <2>1. ASSUME NEW i \in 1..Len(bus')
        PROVE  /\ bus'[i].kind = "committed" =>
                     row'.status = bus'[i].about /\ generation' = bus'[i].about
               /\ bus'[i].kind \notin {"finished", "cancelled"}
    <3>1. CASE i = Len(bus) + 1
      BY <1>2, <1>4, <1>5, <1>6, <1>7, <3>1
    <3>2. CASE i \in 1..Len(bus)
      BY <1>1, <1>2, <1>7, <3>2 DEF AnnouncedIsDurable, NoKind, TerminalKinds
    <3> QED
      BY <1>7, <3>1, <3>2
  <2> QED
    BY <2>1 DEF AnnouncedIsDurable
<1> QED
  BY <1>7, <1>9, <1>10, <1>12, <1>13, <1>14, <1>15, <1>16, <1>17
  DEF IInv, StreamInv, StoreInv

(* The terminal event, last and once. *)
LEMMA PublishTerminalKeeps ==
    ASSUME IInv, PublishTerminal
    PROVE  IInv'
<1> DEFINE m == [Note(verdict.kind, "none", 0) EXCEPT !.seq = verdict.seq]
<1>1. /\ Positions /\ Numbered /\ FinishedIsEnded /\ Settled
      /\ RecordsAgree /\ CommittedIsTerminal /\ AnnouncedIsDurable /\ ShownIsStored
      /\ TypeOK /\ RunnerInv
  BY DEF IInv, StreamInv, StoreInv, RunnerInv
<1>2. /\ phase = "announce" /\ bus' = Append(bus, m) /\ verdict' = verdict
      /\ phase' = "retire" /\ registered' = registered /\ cancelled' = cancelled
      /\ launch' = launch /\ UNCHANGED runnerVars /\ channel' = channel
      /\ forwarder' = forwarder /\ row' = row /\ generation' = generation
  BY DEF PublishTerminal, storeVars
<1>3. verdict \in Verdict /\ verdict.seq \in Nat
  BY <1>1 DEF TypeOK, Verdict
<1>4. /\ verdict.original \in Terminal
      /\ verdict.content >= Shown
      /\ verdict.original = "complete" => verdict.keep /\ verdict.content = Shown
      /\ \/ generation = "running"
         \/ /\ generation \in {verdict.original, "failed"}
            /\ row = IF verdict.keep
                     THEN [status |-> generation, content |-> verdict.content]
                     ELSE NoRow
      /\ \/ verdict.kind = "failed"
         \/ /\ verdict.kind = TerminalKind(verdict.original)
            /\ generation = verdict.original
  BY <1>1, <1>2 DEF Settled, Decided
<1>5. /\ verdict.kind \in TerminalKinds
      /\ verdict.kind = "finished" => generation = "complete" /\ row.status = "complete"
      /\ verdict.kind = "cancelled" => generation = "cancelled"
  <2>1. "failed" \in TerminalKinds /\ "running" \notin Terminal
    BY DEF TerminalKinds, Terminal
  <2>2. CASE verdict.kind = "failed"
    BY <2>1, <2>2
  <2>3. CASE verdict.kind = TerminalKind(verdict.original)
             /\ generation = verdict.original
    <3>1. /\ verdict.kind \in TerminalKinds
          /\ verdict.kind = "finished" => verdict.original = "complete"
          /\ verdict.kind = "cancelled" => verdict.original = "cancelled"
      BY <1>4, <2>3, KindIs
    <3>2. verdict.original = "complete" => row.status = "complete"
      BY <1>4, <2>1, <2>3
    <3> QED
      BY <2>3, <3>1, <3>2
  <2> QED
    BY <1>4, <2>2, <2>3
<1>6. /\ m \in Event /\ m.seq = verdict.seq /\ m.kind = verdict.kind
  <2> DEFINE n == Note(verdict.kind, "none", 0)
  <2>1. n \in Event /\ n.kind = verdict.kind
    BY <1>5, TaskNoteIs
  <2> HIDE DEF n
  <2>2. [n EXCEPT !.seq = verdict.seq] \in Event
        /\ [n EXCEPT !.seq = verdict.seq].seq = verdict.seq
        /\ [n EXCEPT !.seq = verdict.seq].kind = verdict.kind
    BY <1>3, <2>1, NumberIs
  <2> QED
    BY <2>2 DEF n
<1> HIDE DEF m
<1>7. /\ Sent = bus /\ Sent' = bus' /\ bus' \in Seq(Event) /\ Shown' = Shown
      /\ InOrder(Sent') /\ Paired(Sent)'
      /\ AllEnded(Sent) => AllEnded(Sent')
      /\ Len(bus') = Len(bus) + 1 /\ Len(bus) \in Nat /\ bus'[Len(bus) + 1] = m
      /\ \A i \in 1..Len(bus) : bus'[i] = bus[i]
      /\ NoKind(bus, TerminalKinds)
  BY <1>2, <1>5, <1>6, PublishIs
<1>8. m.kind # "committed"
  BY <1>5, <1>6 DEF TerminalKinds
<1>9. RunnerInv'
  BY <1>1, <1>2, <1>3, <1>7, RunnerPartRests DEF TypeOK, Phase
<1>10. Positions'
  BY <1>1, <1>2 DEF Positions, Unstarted, Decided, Told, runnerVars
<1>11. Numbered'
  BY <1>2, <1>7 DEF Numbered, Decided
<1>12. FinishedIsEnded'
  <2>1. verdict.kind = "finished" => AllEnded(Sent')
    BY <1>1, <1>2, <1>7 DEF FinishedIsEnded, Decided
  <2>2. ASSUME NEW i \in 1..Len(Sent'), Sent'[i].kind = "finished" PROVE AllEnded(Sent')
    <3>1. CASE i = Len(bus) + 1
      BY <1>6, <1>7, <2>1, <2>2, <3>1
    <3>2. CASE i \in 1..Len(bus)
      BY <1>7, <2>2, <3>2 DEF NoKind, TerminalKinds
    <3> QED
      BY <1>7, <3>1, <3>2
  <2> QED
    BY <1>2, <2>2 DEF FinishedIsEnded, Decided
<1>13. Settled'
  <2>1. bus' # <<>> /\ bus'[Len(bus')].kind = verdict'.kind
    BY <1>2, <1>6, <1>7
  <2> QED
    BY <1>2, <1>4, <1>7, <2>1 DEF Settled, Told
<1>14. RecordsAgree' /\ ShownIsStored'
  BY <1>1, <1>2, <1>7 DEF RecordsAgree, ShownIsStored
<1>15. ASSUME NEW i \in 1..Len(bus')
       PROVE  /\ bus'[i].kind = "committed" =>
                    /\ row'.status = bus'[i].about /\ generation' = bus'[i].about
                    /\ bus'[i].about \in Terminal
              /\ bus'[i].kind = "finished" =>
                    row'.status = "complete" /\ generation' = "complete"
              /\ bus'[i].kind = "cancelled" => generation' = "cancelled"
  <2>1. CASE i = Len(bus) + 1
    BY <1>2, <1>5, <1>6, <1>7, <1>8, <2>1
  <2>2. CASE i \in 1..Len(bus)
    BY <1>1, <1>2, <1>7, <2>2 DEF AnnouncedIsDurable, CommittedIsTerminal
  <2> QED
    BY <1>7, <2>1, <2>2
<1>16. CommittedIsTerminal' /\ AnnouncedIsDurable'
  BY <1>15 DEF CommittedIsTerminal, AnnouncedIsDurable
<1> QED
  BY <1>7, <1>9, <1>10, <1>11, <1>12, <1>13, <1>14, <1>16
  DEF IInv, StreamInv, StoreInv

(* The registration is dropped. *)
LEMMA DropGuardKeeps ==
    ASSUME IInv, DropGuard
    PROVE  IInv'
<1>1. /\ phase = "retire" /\ phase' = "over" /\ registered' = FALSE
      /\ cancelled' = cancelled /\ launch' = launch /\ UNCHANGED runnerVars
      /\ channel' = channel /\ forwarder' = forwarder /\ verdict' = verdict
      /\ row' = row /\ generation' = generation /\ bus' = bus
  BY DEF DropGuard, storeVars
<1>2. /\ Positions /\ RunnerInv /\ TypeOK /\ Numbered /\ Paired(Sent) /\ FinishedIsEnded
      /\ Settled
      /\ RecordsAgree /\ CommittedIsTerminal /\ AnnouncedIsDurable /\ ShownIsStored
  BY DEF IInv, RunnerInv, StreamInv, StoreInv
<1>3. RunnerInv'
  BY <1>1, <1>2, RunnerPartRests DEF TypeOK, Phase
<1>4. Positions'
  BY <1>1, <1>2 DEF Positions, Unstarted, Decided, Told, runnerVars
<1>5. Sent' = Sent /\ Shown' = Shown
  BY <1>1 DEF Sent, Shown
<1>6. StreamInv'
  BY <1>1, <1>2, <1>5 DEF StreamInv, Numbered, FinishedIsEnded, Decided
<1>7. Settled'
  BY <1>1, <1>2, <1>5 DEF Settled, Decided, Told
<1>8. StoreInv'
  BY <1>1, <1>2, <1>5, <1>7
  DEF StoreInv, RecordsAgree, CommittedIsTerminal, AnnouncedIsDurable, ShownIsStored
<1> QED
  BY <1>3, <1>4, <1>6, <1>8 DEF IInv
-----------------------------------------------------------------------------
(* The process ends: what was published stays, as does the store. *)
LEMMA CrashKeeps ==
    ASSUME IInv, Crash
    PROVE  IInv'
<1>1. /\ TypeOK /\ Positions /\ Numbered /\ Paired(Sent) /\ FinishedIsEnded
      /\ RecordsAgree /\ CommittedIsTerminal /\ AnnouncedIsDurable /\ ShownIsStored
  BY DEF IInv, StreamInv, StoreInv, RunnerInv
<1>2. /\ phase \notin {"refused", "over", "crashed", "recovered"}
      /\ phase' = "crashed" /\ registered' = FALSE
      /\ queue' = <<>> /\ runner' = NewRunner /\ withheld' = [s \in Streams |-> 0]
      /\ active' = {} /\ completed' = <<>> /\ outbox' = <<>> /\ channel' = <<>>
      /\ forwarder' = NewForwarder /\ verdict' = NoVerdict
      /\ cancelled' = cancelled /\ launch' = launch /\ row' = row
      /\ generation' = generation /\ bus' = bus
  BY DEF Crash, storeVars
<1>3. /\ Sent \in Seq(Event) /\ bus \in Seq(Event) /\ Prefix(bus, Sent)
      /\ Sent' = bus /\ Shown' = Shown
  <2>1. bus' \o channel' = bus
    BY <1>1, <1>2, SentIs, NothingWaits
  <2> QED
    BY <1>1, <1>2, <2>1, SentIs DEF Sent, Shown
<1>4. Positions'
  BY <1>2 DEF Positions, Unstarted, Decided, Told, NewForwarder
<1>5. RunnerInv'
  <2>1. NewRunner \in Runner /\ NewForwarder \in Forwarder /\ NoVerdict \in Verdict
    BY GenerationAssumption DEF NewRunner, NewForwarder, NoVerdict, Runner, Forwarder, Verdict
  <2>2. TypeOK'
    <3>1. /\ queue' \in Seq(AnyInput) /\ Len(queue') <= QueueCap
          /\ outbox' \in Seq(Event) /\ Len(outbox') <= 1
          /\ channel' \in Seq(Event) /\ Len(channel') <= ChannelCap
          /\ completed' \in Seq(Tools)
      BY <1>2, GenerationAssumption
    <3>2. withheld' \in [Streams -> Nat] /\ active' \subseteq Tools
      BY <1>2
    <3>3. phase' \in Phase /\ registered' \in BOOLEAN
      BY <1>2 DEF Phase
    <3>4. /\ cancelled' \in BOOLEAN /\ launch' \in Launch /\ row' \in Row
          /\ generation' \in {"absent", "running"} \cup Terminal /\ bus' \in Seq(Event)
      BY <1>1, <1>2 DEF TypeOK
    <3> QED
      BY <1>2, <2>1, <3>1, <3>2, <3>3, <3>4 DEF TypeOK
  <2>3. RunnerSpeaks'
    BY <1>2, GenerationAssumption DEF RunnerSpeaks, NewRunner
  <2>4. CallsTracked'
    BY <1>2 DEF CallsTracked, IsCompleted
  <2>5. CallsSeen' /\ TextCounted'
    BY <1>2 DEF CallsSeen, TextCounted
  <2> QED
    BY <2>2, <2>3, <2>4, <2>5 DEF RunnerInv
<1>6. StreamInv'
  <2>1. InOrder(Sent') /\ Paired(Sent')
    BY <1>1, <1>3, InOrderPrefix, PairedPrefix DEF Numbered
  <2>2. (\E i \in 1..Len(bus) : bus[i].kind = "finished") => AllEnded(bus)
    <3>1. CASE phase = "running"
      <4>1. NoKind(bus, TerminalKinds)
        BY <1>1, <1>3, <3>1, NoKindPrefix DEF Numbered
      <4> QED
        BY <4>1 DEF NoKind, TerminalKinds
    <3>2. CASE phase # "running"
      <4>1. Sent = bus
        BY <1>1, <3>2, SentIs DEF Positions
      <4> QED
        BY <1>1, <4>1 DEF FinishedIsEnded
    <3> QED
      BY <3>1, <3>2
  <2>3. Numbered'
    BY <1>2, <2>1 DEF Numbered, Decided
  <2>4. FinishedIsEnded'
    BY <1>2, <1>3, <2>2 DEF FinishedIsEnded, Decided, AllEnded
  <2>5. Paired(Sent)'
    BY <2>1 DEF Paired, Before
  <2> QED
    BY <2>3, <2>4, <2>5 DEF StreamInv
<1>7. StoreInv'
  <2>1. Settled' /\ RecordsAgree' /\ CommittedIsTerminal' /\ AnnouncedIsDurable'
    BY <1>1, <1>2 DEF Settled, Decided, Told, RecordsAgree, CommittedIsTerminal,
                      AnnouncedIsDurable
  <2>2. phase # "recovered" /\ phase' # "recovered"
    BY <1>2
  <2>3. ShownIsStored'
    BY <1>1, <1>2, <1>3, <2>2 DEF ShownIsStored
  <2> QED
    BY <2>1, <2>3 DEF StoreInv
<1> QED
  BY <1>4, <1>5, <1>6, <1>7 DEF IInv

(* The restart cancels what was left running and touches nothing else. *)
LEMMA RecoverKeeps ==
    ASSUME IInv, NEW preserve \in BOOLEAN, Recover(preserve)
    PROVE  IInv'
<1>1. /\ TypeOK /\ RunnerInv /\ Positions /\ Numbered /\ Paired(Sent) /\ FinishedIsEnded
      /\ RecordsAgree /\ CommittedIsTerminal /\ AnnouncedIsDurable /\ ShownIsStored
  BY DEF IInv, StreamInv, StoreInv, RunnerInv
<1>2. /\ phase = "crashed" /\ phase' = "recovered" /\ registered' = registered
      /\ cancelled' = cancelled /\ launch' = launch /\ UNCHANGED runnerVars
      /\ channel' = channel /\ forwarder' = forwarder /\ verdict' = verdict /\ bus' = bus
      /\ row' = IF row.status # "pending" THEN row
                ELSE IF preserve THEN [row EXCEPT !.status = "cancelled"] ELSE NoRow
      /\ generation' = IF generation = "running" THEN "cancelled" ELSE generation
  BY DEF Recover
<1>3. Sent' = Sent /\ Shown' = Shown /\ Shown \in Nat
  BY <1>1, <1>2, SentIs DEF Sent, Shown
<1>4. /\ row' \in Row /\ generation' \in {"absent", "running"} \cup Terminal
      /\ row.status # "pending" => row' = row
      /\ row.status = "pending" => row'.status \in {"cancelled", "absent"}
  <2>1. row \in Row
    BY <1>1 DEF TypeOK
  <2>2. NoRow \in Row /\ NoRow.status = "absent"
    BY DEF NoRow, Row
  <2>3. [row EXCEPT !.status = "cancelled"] \in Row
        /\ [row EXCEPT !.status = "cancelled"].status = "cancelled"
    BY <2>1 DEF Row, Terminal
  <2>4. generation' \in {"absent", "running"} \cup Terminal
    BY <1>1, <1>2 DEF TypeOK, Terminal
  <2> QED
    BY <1>2, <2>1, <2>2, <2>3, <2>4
<1>5. Positions'
  BY <1>1, <1>2 DEF Positions, Unstarted, Decided, Told, runnerVars
<1>6. RunnerInv'
  <2>1. phase' \in Phase \ {"running"}
    BY <1>2 DEF Phase
  <2>2. registered' \in BOOLEAN /\ cancelled' \in BOOLEAN /\ verdict' \in Verdict
        /\ bus' \in Seq(Event)
    BY <1>1, <1>2 DEF TypeOK
  <2> QED
    BY <1>1, <1>2, <1>4, <2>1, <2>2, RunnerPartRests
<1>7. StreamInv'
  <2>1. Numbered'
    BY <1>1, <1>2, <1>3 DEF Numbered, Decided
  <2>2. Paired(Sent)'
    BY <1>1, <1>3 DEF Paired, Before
  <2>3. FinishedIsEnded'
    BY <1>1, <1>2, <1>3 DEF FinishedIsEnded, Decided, AllEnded
  <2> QED
    BY <2>1, <2>2, <2>3 DEF StreamInv
<1>8. StoreInv'
  <2>1. generation' # "running" /\ row'.status # "pending"
    BY <1>2, <1>4
  <2>2. Settled' /\ RecordsAgree' /\ CommittedIsTerminal'
    BY <1>1, <1>2, <2>1 DEF Settled, Decided, Told, RecordsAgree, CommittedIsTerminal
  <2>3. AnnouncedIsDurable'
    <3>1. SUFFICES ASSUME NEW i \in 1..Len(bus)
                   PROVE  /\ bus[i].kind = "committed" =>
                                row'.status = bus[i].about /\ generation' = bus[i].about
                          /\ bus[i].kind = "finished" =>
                                row'.status = "complete" /\ generation' = "complete"
                          /\ bus[i].kind = "cancelled" => generation' = "cancelled"
      BY <1>2 DEF AnnouncedIsDurable
    <3>2. /\ bus[i].kind = "committed" =>
                row.status = bus[i].about /\ generation = bus[i].about
          /\ bus[i].kind = "finished" =>
                row.status = "complete" /\ generation = "complete"
          /\ bus[i].kind = "cancelled" => generation = "cancelled"
          /\ bus[i].kind = "committed" => bus[i].about # "pending"
                                            /\ bus[i].about # "running"
      BY <1>1, <3>1 DEF AnnouncedIsDurable, CommittedIsTerminal, Terminal
    <3> QED
      BY <1>2, <1>4, <3>2
  <2>4. ShownIsStored'
    <3>1. row'.status = "complete" => row' = row
      BY <1>4
    <3> QED
      BY <1>1, <1>2, <1>3, <2>1, <3>1 DEF ShownIsStored
  <2> QED
    BY <2>2, <2>3, <2>4 DEF StoreInv
<1> QED
  BY <1>5, <1>6, <1>7, <1>8 DEF IInv

-----------------------------------------------------------------------------
(* The initial states have the invariant. *)
LEMMA InitIsGood ==
    ASSUME Init
    PROVE  IInv
<1>1. /\ phase = "launching" /\ registered = TRUE /\ cancelled = FALSE
      /\ launch \in Launch /\ queue = <<>> /\ runner = NewRunner
      /\ withheld = [s \in Streams |-> 0] /\ active = {} /\ completed = <<>>
      /\ outbox = <<>> /\ channel = <<>> /\ forwarder = NewForwarder
      /\ verdict = NoVerdict /\ row = NoRow /\ generation = "absent" /\ bus = <<>>
  BY DEF Init, Launch
<1>2. Sent = <<>>
  BY <1>1 DEF Sent
<1>3. TypeOK
  <2>1. /\ NewRunner \in Runner /\ NewForwarder \in Forwarder /\ NoVerdict \in Verdict
        /\ NoRow \in Row
    BY GenerationAssumption
       DEF NewRunner, NewForwarder, NoVerdict, NoRow, Runner, Forwarder, Verdict, Row
  <2>2. /\ queue \in Seq(AnyInput) /\ Len(queue) <= QueueCap
        /\ outbox \in Seq(Event) /\ Len(outbox) <= 1
        /\ channel \in Seq(Event) /\ Len(channel) <= ChannelCap
        /\ completed \in Seq(Tools) /\ bus \in Seq(Event)
    BY <1>1, GenerationAssumption
  <2>3. withheld \in [Streams -> Nat] /\ active \subseteq Tools
    BY <1>1
  <2>4. phase \in Phase /\ registered \in BOOLEAN /\ cancelled \in BOOLEAN
        /\ generation \in {"absent", "running"} \cup Terminal
    BY <1>1 DEF Phase
  <2> QED
    BY <1>1, <2>1, <2>2, <2>3, <2>4 DEF TypeOK
<1>4. Positions
  BY <1>1 DEF Positions, Unstarted, Decided, Told, NewForwarder
<1>5. RunnerSpeaks /\ CallsTracked /\ CallsSeen /\ TextCounted
  <2>1. RunnerSpeaks
    BY <1>1, GenerationAssumption DEF RunnerSpeaks, NewRunner
  <2>2. CallsTracked
    BY <1>1 DEF CallsTracked, IsCompleted
  <2> QED
    BY <1>1, <2>1, <2>2 DEF CallsSeen, TextCounted
<1>6. Numbered /\ Paired(Sent) /\ FinishedIsEnded
  BY <1>1, <1>2, NothingSaid DEF Numbered, FinishedIsEnded, Decided
<1>7. /\ Settled /\ RecordsAgree /\ CommittedIsTerminal /\ AnnouncedIsDurable
      /\ ShownIsStored
  <2>1. row.status = "absent"
    BY <1>1 DEF NoRow
  <2>2. Settled /\ RecordsAgree
    BY <1>1, <2>1 DEF Settled, Decided, Told, RecordsAgree
  <2>3. CommittedIsTerminal /\ AnnouncedIsDurable
    BY <1>1, NothingSaid DEF CommittedIsTerminal, AnnouncedIsDurable
  <2>4. ShownIsStored
    BY <2>1 DEF ShownIsStored, Terminal
  <2> QED
    BY <2>2, <2>3, <2>4
<1> QED
  BY <1>3, <1>4, <1>5, <1>6, <1>7 DEF IInv, RunnerInv, StreamInv, StoreInv

(* A step that changes nothing keeps it. *)
LEMMA StutterKeeps ==
    ASSUME IInv, UNCHANGED vars
    PROVE  IInv'
<1>1. /\ phase' = phase /\ registered' = registered /\ cancelled' = cancelled
      /\ launch' = launch /\ queue' = queue /\ runner' = runner /\ withheld' = withheld
      /\ active' = active /\ completed' = completed /\ outbox' = outbox
      /\ channel' = channel /\ forwarder' = forwarder /\ verdict' = verdict
      /\ row' = row /\ generation' = generation /\ bus' = bus
  BY DEF vars
<1>2. Sent' = Sent /\ Shown' = Shown
  BY <1>1 DEF Sent, Shown
<1>3. Positions'
  BY <1>1 DEF IInv, Positions
<1>4. RunnerInv'
  <2>1. TypeOK' /\ RunnerSpeaks'
    BY <1>1 DEF IInv, RunnerInv, TypeOK, RunnerSpeaks
  <2>2. \A id : IsCompleted(id)' <=> IsCompleted(id)
    BY <1>1 DEF IsCompleted
  <2>3. CallsTracked'
    BY <1>1, <2>2 DEF IInv, RunnerInv, CallsTracked
  <2>4. CallsSeen'
    <3>1. \A id \in Tools : CallSeen(id)' <=> CallSeen(id)
      BY <1>1, <1>2, <2>2 DEF CallSeen, Outgoing
    <3> QED
      BY <1>1, <1>2, <3>1 DEF IInv, RunnerInv, CallsSeen
  <2>5. TextCounted'
    BY <1>1, <1>2 DEF IInv, RunnerInv, TextCounted, Owed
  <2> QED
    BY <2>1, <2>3, <2>4, <2>5 DEF RunnerInv
<1>5. StreamInv'
  BY <1>1, <1>2 DEF IInv, StreamInv, Numbered, FinishedIsEnded, Paired, Before, AllEnded
<1>6. StoreInv'
  <2>1. Settled'
    BY <1>1, <1>2 DEF IInv, StoreInv, Settled
  <2> QED
    BY <1>1, <1>2, <2>1
       DEF IInv, StoreInv, RecordsAgree, CommittedIsTerminal, AnnouncedIsDurable,
           ShownIsStored
<1> QED
  BY <1>3, <1>4, <1>5, <1>6 DEF IInv

(* Every step keeps it: one case per action. *)
LEMMA NextKeeps ==
    ASSUME IInv, [Next]_vars
    PROVE  IInv'
<1>0. RunnerInv /\ Positions
  BY DEF IInv
<1>1. CASE RunnerAlone
  <2>1. RunnerInv' /\ RunnerMoves
    BY <1>0, <1>1, RunnerAloneKeeps
  <2>2. TypeOK'
    BY <2>1 DEF RunnerInv
  <2> QED
    BY <2>1, <2>2, MovesKeepRest DEF IInv
<1>2. CASE Emit
  BY <1>2, EmitKeeps
<1>3. CASE ForwarderStep
  BY <1>3, ForwarderStepDelivers, DeliveryKeeps
<1>4. CASE TaskStep
  BY <1>4, StartTaskKeeps, DropPermitKeeps, ApplyResultKeeps, FinalizeGenerationKeeps,
     CompensateGenerationKeeps, VerifyGenerationKeeps, PublishCommittedKeeps,
     PublishTerminalKeeps, DropGuardKeeps
     DEF TaskStep
<1>5. CASE Cancel
  BY <1>5, CancelKeeps
<1>6. CASE Crash
  BY <1>6, CrashKeeps
<1>7. CASE \E preserve \in BOOLEAN : Recover(preserve)
  BY <1>7, RecoverKeeps
<1>8. CASE UNCHANGED vars
  BY <1>8, StutterKeeps
<1>9. \/ RunnerAlone \/ Emit \/ ForwarderStep \/ TaskStep \/ Cancel \/ Crash
      \/ (\E preserve \in BOOLEAN : Recover(preserve)) \/ UNCHANGED vars
  BY DEF Next, RunnerStep, Environment, RunnerAlone
<1> QED
  BY <1>1, <1>2, <1>3, <1>4, <1>5, <1>6, <1>7, <1>8, <1>9

-----------------------------------------------------------------------------
(* What the invariant says to a subscriber. *)
LEMMA InvariantIsOneProtocol == IInv => EventsAreOneProtocol
<1>1. SUFFICES ASSUME IInv PROVE EventsAreOneProtocol
  OBVIOUS
<1>2. /\ TypeOK /\ Positions /\ Numbered /\ Paired(Sent) /\ FinishedIsEnded /\ RecordsAgree
  BY <1>1 DEF IInv, RunnerInv, StreamInv, StoreInv
<1>3. Sent \in Seq(Event) /\ bus \in Seq(Event) /\ Prefix(bus, Sent)
  BY <1>2, SentIs
<1>4. EventsInOrder
  <2>1. InOrder(bus)
    BY <1>2, <1>3, InOrderPrefix DEF Numbered
  <2> QED
    BY <2>1 DEF InOrder, EventsInOrder
<1>5. ToolCallsPaired
  <2>1. Paired(bus)
    BY <1>2, <1>3, PairedPrefix
  <2>2. (\E i \in 1..Len(bus) : bus[i].kind = "finished") => AllEnded(bus)
    <3>1. CASE phase = "running"
      <4>1. NoKind(bus, TerminalKinds)
        BY <1>2, <1>3, <3>1, NoKindPrefix DEF Numbered
      <4> QED
        BY <4>1 DEF NoKind, TerminalKinds
    <3>2. CASE phase # "running"
      <4>1. Sent = bus
        BY <1>2, <3>2, SentIs DEF Positions
      <4> QED
        BY <1>2, <4>1 DEF FinishedIsEnded
    <3> QED
      BY <3>1, <3>2
  <2> QED
    BY <1>3, <2>1, <2>2, PairedIsPaired
<1>6. ForwarderEndsFirst
  BY <1>1, <1>2, ForwarderRuns DEF ForwarderEndsFirst, RecordsAgree
<1> QED
  BY <1>2, <1>4, <1>5, <1>6 DEF EventsAreOneProtocol

(* What it says to a reader of the store. *)
LEMMA InvariantIsStored == IInv => ToldIsStored
<1>1. SUFFICES ASSUME IInv PROVE ToldIsStored
  OBVIOUS
<1>2. /\ TypeOK /\ Positions /\ Settled /\ RecordsAgree /\ AnnouncedIsDurable /\ ShownIsStored
  BY <1>1 DEF IInv, RunnerInv, StoreInv
<1>3. RetiredIsSettled
  <2>1. SUFFICES ASSUME ~registered, Up
                 PROVE  /\ generation # "absent" =>
                             bus # <<>> /\ bus[Len(bus)].kind \in TerminalKinds
                        /\ row.status = "pending" => bus[Len(bus)].kind = "failed"
    BY DEF RetiredIsSettled
  <2>2. phase \in {"refused", "over"}
    BY <1>2, <2>1 DEF Positions, Up, TypeOK, Phase
  <2>3. CASE phase = "refused"
    <3>1. generation = "absent" /\ row = NoRow
      BY <1>2, <2>3 DEF Positions, Unstarted
    <3> QED
      BY <3>1 DEF NoRow
  <2>4. CASE phase = "over"
    <3>1. /\ verdict.original \in Terminal
          /\ bus # <<>> /\ bus[Len(bus)].kind = verdict.kind
          /\ \/ verdict.kind = "failed"
             \/ /\ verdict.kind = TerminalKind(verdict.original)
                /\ generation = verdict.original
      BY <1>2, <2>4 DEF Settled, Told
    <3>2. verdict.kind \in TerminalKinds
      BY <3>1, KindIs DEF TerminalKinds
    <3>3. generation # "running" => row.status # "pending"
      BY <1>2 DEF RecordsAgree
    <3>4. verdict.original # "running"
      BY <3>1 DEF Terminal
    <3> QED
      BY <3>1, <3>2, <3>3, <3>4
  <2> QED
    BY <2>2, <2>3, <2>4
<1> QED
  BY <1>2, <1>3 DEF ToldIsStored

-----------------------------------------------------------------------------
(* The inductive invariant holds in every reachable state. *)
THEOREM Invariant == Spec => []IInv
<1>1. Init => IInv
  BY InitIsGood
<1>2. IInv /\ [Next]_vars => IInv'
  BY NextKeeps
<1> QED
  BY <1>1, <1>2, PTL DEF Spec

(* Subscribers see one protocol, for any tools, inputs and capacities:     *)
(* events strictly in order, well-formed tool calls, one end and nothing   *)
(* after it, although the runner, the forwarder and the task share the     *)
(* numbering and any of them may fail.                                     *)
THEOREM OneProtocol == Spec => []EventsAreOneProtocol
<1>1. IInv => EventsAreOneProtocol
  BY InvariantIsOneProtocol
<1> QED
  BY <1>1, Invariant, PTL

(* What was announced or shown is what the store holds, through failed     *)
(* checkpoints, lost or unreported transactions, a crash and the recovery. *)
THEOREM StoredAsTold == Spec => []ToldIsStored
<1>1. IInv => ToldIsStored
  BY InvariantIsStored
<1> QED
  BY <1>1, Invariant, PTL

-----------------------------------------------------------------------------
(* The contract.  No end is announced before the task announces it. *)
LEMMA NothingAnnounced ==
    ASSUME IInv, phase \in Unstarted \cup {"running"} \cup Decided
    PROVE  Announced = "none"
<1>1. TypeOK /\ Positions /\ Numbered
  BY DEF IInv, RunnerInv, StreamInv
<1>2. bus \in Seq(Event) /\ Sent \in Seq(Event) /\ Prefix(bus, Sent)
  BY <1>1, SentIs
<1>3. CASE phase \in Unstarted
  BY <1>1, <1>3 DEF Positions, Announced
<1>4. CASE phase \in {"running"} \cup Decided
  <2>1. NoKind(bus, TerminalKinds)
    BY <1>1, <1>2, <1>4, NoKindPrefix DEF Numbered
  <2>2. bus # <<>> => Len(bus) \in 1..Len(bus)
    BY <1>2
  <2> QED
    BY <2>1, <2>2 DEF NoKind, Announced
<1> QED
  BY <1>3, <1>4

(* A step that touches neither what is shown nor the store is no step of   *)
(* the contract.                                                           *)
LEMMA ContractStutters ==
    ASSUME bus' = bus, row' = row, generation' = generation, Up' = Up
    PROVE  UNCHANGED Contract!contractVars
  BY DEF Contract!contractVars, Shown, Announced

(* The forwarder streams. *)
LEMMA DeliveryStreams ==
    ASSUME IInv, IInv', Delivery
    PROVE  Contract!Stream
<1>1. /\ phase = "running" /\ phase' = phase /\ generation' = generation
      /\ Shown <= Shown' /\ launch' = launch
      /\ launch.preserve => forwarder'.seen = Shown'
      /\ \/ row' = row
         \/ /\ launch.preserve
            /\ row' = [row EXCEPT !.content = forwarder'.seen]
  BY DEF Delivery
<1>2. generation = "running" /\ row.status = "pending" /\ row'.status = "pending"
  BY <1>1 DEF IInv, StoreInv, RecordsAgree
<1>3. row.content <= Shown /\ row'.content <= Shown'
  BY <1>2 DEF IInv, StoreInv, ShownIsStored
<1>4. /\ row \in Row /\ row' \in Row /\ row.content \in Nat /\ row'.content \in Nat
  BY DEF IInv, RunnerInv, TypeOK, Row
<1>5. Shown \in Nat /\ Shown' \in Nat
  <2>1. bus \in Seq(Event) /\ bus' \in Seq(Event)
    BY DEF IInv, RunnerInv, TypeOK
  <2> QED
    BY <2>1, TextSumType DEF Shown
<1>6. row'.content >= row.content
  <2>1. CASE row' = row
    BY <1>4, <2>1
  <2>2. CASE launch.preserve /\ row' = [row EXCEPT !.content = forwarder'.seen]
    <3>1. row'.content = forwarder'.seen
      BY <1>4, <2>2 DEF Row
    <3> QED
      BY <1>1, <1>3, <1>4, <1>5, <2>2, <3>1
  <2> QED
    BY <1>1, <2>1, <2>2
<1>7. Announced = "none" /\ Announced' = "none"
  <2>1. Announced = "none"
    BY <1>1, NothingAnnounced
  <2>2. NoKind(bus, TerminalKinds)'
    <3>1. TypeOK' /\ Numbered'
      BY DEF IInv, RunnerInv, StreamInv
    <3>2. /\ bus' \in Seq(Event) /\ channel' \in Seq(Event)
          /\ NoKind(Sent', TerminalKinds) /\ Sent' = bus' \o channel'
      BY <1>1, <3>1 DEF TypeOK, Numbered, Sent
    <3>3. bus' \o channel' \in Seq(Event) /\ Prefix(bus', bus' \o channel')
      BY <3>2, ConcatIs, BusIsPrefix
    <3> QED
      BY <3>2, <3>3, NoKindPrefix
  <2>3. bus' # <<>> => Len(bus') \in 1..Len(bus')
    BY DEF IInv, RunnerInv, TypeOK
  <2>4. Announced' = "none"
    BY <2>2, <2>3 DEF NoKind, Announced
  <2> QED
    BY <2>1, <2>4
<1>8. Up /\ Up' = Up
  BY <1>1 DEF Up
<1> QED
  BY <1>1, <1>2, <1>3, <1>5, <1>6, <1>7, <1>8 DEF Contract!Stream

(* The append begins. *)
LEMMA StartTaskBegins ==
    ASSUME IInv, StartTask
    PROVE  Contract!Begin
<1>1. /\ phase = "launching" /\ phase' = "running" /\ bus' = bus
      /\ row' = [status |-> "pending", content |-> 0] /\ generation' = "running"
  BY DEF StartTask
<1>2. generation = "absent"
  BY <1>1 DEF IInv, Positions, Unstarted
<1>3. Up /\ Up' = Up
  BY <1>1 DEF Up
<1>4. Shown' = Shown /\ Announced' = Announced
  BY <1>1 DEF Shown, Announced
<1> QED
  BY <1>1, <1>2, <1>3, <1>4 DEF Contract!Begin

(* A transaction that takes effect settles the outcome; one that does not  *)
(* is invisible.                                                           *)
LEMMA PersistSettles ==
    ASSUME IInv, phase \in {"finalize", "compensate"}, generation = "running",
           NEW status \in Terminal, status \in {verdict.original, "failed"},
           Persist(status), bus' = bus, phase' \in Phase, Up'
    PROVE  Contract!Settle(status)
<1>1. TypeOK /\ Settled
  BY DEF IInv, RunnerInv, StoreInv
<1>2. /\ verdict.content >= Shown
      /\ verdict.original = "complete" => verdict.keep /\ verdict.content = Shown
  BY <1>1 DEF Settled, Decided
<1>3. Announced = "none" /\ Announced' = Announced /\ Shown' = Shown
  BY NothingAnnounced DEF Decided, Announced, Shown
<1>4. verdict \in Verdict
  BY <1>1 DEF TypeOK
<1>5. /\ generation' = status
      /\ row' = IF verdict.keep THEN [status |-> status, content |-> verdict.content]
                                ELSE NoRow
  BY DEF Persist
<1>6. Up /\ Up' = Up
  BY DEF Up
<1>7. status = "complete" => verdict.original = "complete"
  OBVIOUS
<1>8. Contract!Kept(status) \/ (status # "complete" /\ row' = Contract!Absent)
  <2>1. CASE verdict.keep
    <3>1. row'.status = status /\ row'.content = verdict.content
      BY <1>5, <2>1
    <3> QED
      BY <1>2, <1>7, <3>1 DEF Contract!Kept
  <2>2. CASE ~verdict.keep
    BY <1>2, <1>5, <1>7, <2>2 DEF Contract!Absent, NoRow
  <2> QED
    BY <2>1, <2>2
<1> QED
  BY <1>3, <1>5, <1>6, <1>8 DEF Contract!Settle

(* The first transaction. *)
LEMMA FinalizeSettles ==
    ASSUME IInv, NEW how \in Outcomes, FinalizeGeneration(how)
    PROVE  (\E status \in Terminal : Contract!Settle(status)) \/ UNCHANGED Contract!contractVars
<1>1. /\ phase = "finalize" /\ phase' \in {"commit", "announce", "compensate"} /\ bus' = bus
      /\ IF how = "lost" THEN UNCHANGED storeVars ELSE Persist(verdict.status)
  BY DEF FinalizeGeneration, AfterPersist
<1>2. /\ verdict.original \in Terminal /\ verdict.status = verdict.original
      /\ generation = "running"
  BY <1>1 DEF IInv, StoreInv, Settled, Decided
<1>3. Up /\ Up' /\ phase' \in Phase
  BY <1>1 DEF Up, Phase
<1>4. CASE how = "lost"
  <2>1. row' = row /\ generation' = generation
    BY <1>1, <1>4 DEF storeVars
  <2> QED
    BY <1>1, <1>3, <2>1, ContractStutters
<1>5. CASE how # "lost"
  <2>1. Persist(verdict.status)
    BY <1>1, <1>5
  <2>2. Contract!Settle(verdict.status)
    BY <1>1, <1>2, <1>3, <2>1, PersistSettles
  <2> QED
    BY <1>2, <2>2
<1> QED
  BY <1>4, <1>5

(* The compensating transaction. *)
LEMMA CompensateSettles ==
    ASSUME IInv, NEW how \in Outcomes, CompensateGeneration(how)
    PROVE  (\E status \in Terminal : Contract!Settle(status)) \/ UNCHANGED Contract!contractVars
<1>1. /\ phase = "compensate" /\ phase' \in {"commit", "announce", "verify"} /\ bus' = bus
      /\ IF generation = "running" /\ how # "lost" THEN Persist("failed")
                                                  ELSE UNCHANGED storeVars
  BY DEF CompensateGeneration, AfterPersist
<1>2. Up /\ Up' /\ phase' \in Phase
  BY <1>1 DEF Up, Phase
<1>3. CASE generation = "running" /\ how # "lost"
  <2>1. Persist("failed") /\ "failed" \in Terminal
    BY <1>1, <1>3 DEF Terminal
  <2>2. Contract!Settle("failed")
    BY <1>1, <1>2, <1>3, <2>1, PersistSettles
  <2> QED
    BY <2>1, <2>2
<1>4. CASE ~(generation = "running" /\ how # "lost")
  <2>1. row' = row /\ generation' = generation
    BY <1>1, <1>4 DEF storeVars
  <2> QED
    BY <1>1, <1>2, <2>1, ContractStutters
<1> QED
  BY <1>3, <1>4

(* The stored status is no end of the stream. *)
LEMMA PublishCommittedStutters ==
    ASSUME IInv, PublishCommitted
    PROVE  UNCHANGED Contract!contractVars
<1> DEFINE m == [Note("committed", verdict.status, 0) EXCEPT !.seq = verdict.seq]
<1>1. /\ phase = "commit" /\ phase' = "announce" /\ bus' = Append(bus, m)
      /\ row' = row /\ generation' = generation
  BY DEF PublishCommitted, storeVars
<1>2. m.kind = "committed"
  BY DEF Note
<1> HIDE DEF m
<1>3. bus \in Seq(Event)
  BY DEF IInv, RunnerInv, TypeOK
<1>4. Announced = "none"
  BY <1>1, NothingAnnounced DEF Decided
<1>5. verdict.seq \in Nat /\ verdict.status \in Terminal
  <2>1. TypeOK /\ Settled
    BY DEF IInv, RunnerInv, StoreInv
  <2>2. verdict.seq \in Nat
    BY <2>1 DEF TypeOK, Verdict
  <2>3. /\ generation # "running" /\ generation = verdict.status
        /\ \/ generation = "running"
           \/ generation \in {verdict.original, "failed"}
        /\ verdict.original \in Terminal
    BY <1>1, <2>1 DEF Settled, Decided
  <2> QED
    BY <2>2, <2>3 DEF Terminal
<1>6. m \in Event
  <2>1. Note("committed", verdict.status, 0) \in Event
    BY <1>5, TaskNoteIs
  <2> QED
    BY <1>5, <2>1, NumberIs DEF m
<1>7. bus'[Len(bus')].kind = "committed"
  BY <1>1, <1>2, <1>3, <1>6, AppendIs
<1>8. Announced' = "none"
  BY <1>7 DEF Announced, TerminalKinds
<1>9. Shown' = Shown
  <2>1. TextOf(m) = 0 /\ TextSum(bus) \in Nat
        /\ TextSum(Append(bus, m)) = TextSum(bus) + TextOf(m)
    BY <1>2, <1>3, <1>6, TextSumAppend DEF TextOf
  <2> QED
    BY <1>1, <2>1 DEF Shown
<1>10. Up' = Up
  BY <1>1 DEF Up
<1> QED
  BY <1>1, <1>4, <1>8, <1>9, <1>10 DEF Contract!contractVars

(* The end is announced, and it is what was stored. *)
LEMMA PublishTerminalAnnounces ==
    ASSUME IInv, PublishTerminal
    PROVE  Contract!Announce
<1> DEFINE m == [Note(verdict.kind, "none", 0) EXCEPT !.seq = verdict.seq]
<1>1. /\ phase = "announce" /\ phase' = "retire" /\ bus' = Append(bus, m)
      /\ row' = row /\ generation' = generation
  BY DEF PublishTerminal, storeVars
<1>2. TypeOK /\ Settled /\ bus \in Seq(Event) /\ verdict.seq \in Nat
  BY DEF IInv, RunnerInv, StoreInv, TypeOK, Verdict
<1>3. /\ verdict.original \in Terminal
      /\ generation = "running" \/ generation \in {verdict.original, "failed"}
      /\ \/ verdict.kind = "failed"
         \/ /\ verdict.kind = TerminalKind(verdict.original)
            /\ generation = verdict.original
  BY <1>1, <1>2 DEF Settled, Decided
<1>4. /\ verdict.kind \in TerminalKinds
      /\ verdict.kind = "finished" => generation = "complete"
      /\ verdict.kind = "cancelled" => generation = "cancelled"
      /\ generation # "absent"
  <2>1. verdict.original # "absent"
    BY <1>3 DEF Terminal
  <2>2. CASE verdict.kind = "failed"
    BY <1>3, <2>1, <2>2 DEF TerminalKinds
  <2>3. CASE /\ verdict.kind = TerminalKind(verdict.original)
             /\ generation = verdict.original
    BY <1>3, <2>1, <2>3, KindIs
  <2> QED
    BY <1>3, <2>2, <2>3
<1>5. m \in Event /\ m.kind = verdict.kind
  <2>1. /\ Note(verdict.kind, "none", 0) \in Event
        /\ Note(verdict.kind, "none", 0).kind = verdict.kind
    BY <1>4, TaskNoteIs
  <2> QED
    BY <1>2, <2>1, NumberIs
<1> HIDE DEF m
<1>6. bus' # <<>> /\ bus'[Len(bus')].kind = verdict.kind
  BY <1>1, <1>2, <1>5, AppendIs
<1>7. Announced = "none" /\ Announced' = verdict.kind
  BY <1>1, <1>4, <1>6, NothingAnnounced DEF Decided, Announced
<1>8. Shown' = Shown
  <2>1. TextOf(m) = 0 /\ TextSum(bus) \in Nat
        /\ TextSum(Append(bus, m)) = TextSum(bus) + TextOf(m)
    BY <1>2, <1>4, <1>5, TextSumAppend DEF TextOf, TerminalKinds
  <2> QED
    BY <1>1, <2>1 DEF Shown
<1>9. Up /\ Up' = Up
  BY <1>1 DEF Up
<1> QED
  BY <1>1, <1>4, <1>7, <1>8, <1>9 DEF Contract!Announce, TerminalKinds

(* The process dies, whatever it was doing. *)
LEMMA CrashDies ==
    ASSUME Crash
    PROVE  Contract!Die
<1>1. /\ phase \notin {"crashed", "recovered"} /\ phase' = "crashed"
      /\ row' = row /\ generation' = generation /\ bus' = bus
  BY DEF Crash, storeVars
<1>2. Up /\ Up' = FALSE /\ Shown' = Shown /\ Announced' = Announced
  BY <1>1 DEF Up, Shown, Announced
<1> QED
  BY <1>1, <1>2 DEF Contract!Die

(* The restart cancels what was left running, or finds nothing to do. *)
LEMMA RecoverRestarts ==
    ASSUME IInv, NEW preserve \in BOOLEAN, Recover(preserve)
    PROVE  Contract!Restart \/ UNCHANGED Contract!contractVars
<1>1. /\ phase = "crashed" /\ phase' = "recovered" /\ bus' = bus
      /\ row' = IF row.status # "pending" THEN row
                ELSE IF preserve THEN [row EXCEPT !.status = "cancelled"] ELSE NoRow
      /\ generation' = IF generation = "running" THEN "cancelled" ELSE generation
  BY DEF Recover
<1>2. (generation = "running" <=> row.status = "pending") /\ row \in Row
  BY DEF IInv, RunnerInv, StoreInv, RecordsAgree, TypeOK
<1>3. ~Up /\ Up' = Up
  BY <1>1 DEF Up
<1>4. CASE generation = "running"
  <2>1. [row EXCEPT !.status = "cancelled"] = [status |-> "cancelled", content |-> row.content]
    BY <1>2 DEF Row
  <2>2. row' \in {Contract!Absent, [status |-> "cancelled", content |-> row.content]}
    BY <1>1, <1>2, <1>4, <2>1 DEF Contract!Absent, NoRow
  <2>3. Shown' = Shown /\ Announced' = Announced
    BY <1>1 DEF Shown, Announced
  <2> QED
    BY <1>1, <1>3, <1>4, <2>2, <2>3 DEF Contract!Restart
<1>5. CASE generation # "running"
  BY <1>1, <1>2, <1>3, <1>5, ContractStutters
<1> QED
  BY <1>4, <1>5

(* The task's steps in the contract. *)
LEMMA TaskKeepsContract ==
    ASSUME IInv, TaskStep
    PROVE  Contract!Next \/ UNCHANGED Contract!contractVars
<1>1. CASE StartTask
  BY <1>1, StartTaskBegins DEF Contract!Next
<1>2. CASE DropPermit \/ ApplyResult \/ (\E readable \in BOOLEAN : VerifyGeneration(readable))
           \/ DropGuard
  <2>1. bus' = bus /\ row' = row /\ generation' = generation
    BY <1>2 DEF DropPermit, ApplyResult, VerifyGeneration, DropGuard, storeVars
  <2>2. Up /\ Up'
    BY <1>2 DEF DropPermit, ApplyResult, VerifyGeneration, DropGuard, AfterPersist, Up
  <2> QED
    BY <2>1, <2>2, ContractStutters
<1>3. CASE \E how \in Outcomes : FinalizeGeneration(how)
  BY <1>3, FinalizeSettles DEF Contract!Next, Terminal
<1>4. CASE \E how \in Outcomes : CompensateGeneration(how)
  BY <1>4, CompensateSettles DEF Contract!Next, Terminal
<1>5. CASE PublishCommitted
  BY <1>5, PublishCommittedStutters
<1>6. CASE PublishTerminal
  BY <1>6, PublishTerminalAnnounces DEF Contract!Next
<1> QED
  BY <1>1, <1>2, <1>3, <1>4, <1>5, <1>6 DEF TaskStep

(* The generation keeps its contract: text only while it runs and no       *)
(* checkpoint ahead of it, one outcome, stored before it is announced and  *)
(* never changed after, a complete answer that is the text shown, and a    *)
(* restart that cancels what was left.  Every step of the runner, the      *)
(* forwarder, the task, a crash or the recovery is a step of the contract  *)
(* or changes nothing it speaks of.                                        *)
THEOREM ContractKept == Spec => KeepsContract
<1>1. Init => Contract!Init
  <2>1. SUFFICES ASSUME Init PROVE Contract!Init
    OBVIOUS
  <2>2. /\ phase = "launching" /\ bus = <<>> /\ row = NoRow /\ generation = "absent"
    BY <2>1 DEF Init
  <2>3. Shown = 0 /\ Announced = "none" /\ Up = TRUE
    BY <2>2, TextSumEmpty DEF Shown, Announced, Up
  <2> QED
    BY <2>2, <2>3 DEF Contract!Init, Contract!Absent, NoRow
<1>2. IInv /\ IInv' /\ [Next]_vars => [Contract!Next]_(Contract!contractVars)
  <2>1. SUFFICES ASSUME IInv, IInv', [Next]_vars
                 PROVE  Contract!Next \/ UNCHANGED Contract!contractVars
    OBVIOUS
  <2>2. CASE RunnerAlone
    <3>1. RunnerMoves
      BY <2>1, <2>2, RunnerAloneKeeps DEF IInv
    <3>2. phase' = phase /\ bus' = bus /\ row' = row /\ generation' = generation
      BY <3>1, FrameOfRunner DEF RunnerMoves
    <3>3. Up' = Up
      BY <3>2 DEF Up
    <3> QED
      BY <3>2, <3>3, ContractStutters
  <2>3. CASE Emit \/ Cancel \/ UNCHANGED vars
    <3>1. phase' = phase /\ bus' = bus /\ row' = row /\ generation' = generation
      BY <2>3 DEF Emit, Cancel, vars, storeVars
    <3>2. Up' = Up
      BY <3>1 DEF Up
    <3> QED
      BY <3>1, <3>2, ContractStutters
  <2>4. CASE ForwarderStep
    BY <2>1, <2>4, ForwarderStepDelivers, DeliveryStreams DEF Contract!Next
  <2>5. CASE TaskStep
    BY <2>1, <2>5, TaskKeepsContract
  <2>6. CASE Crash
    BY <2>6, CrashDies DEF Contract!Next
  <2>7. CASE \E preserve \in BOOLEAN : Recover(preserve)
    BY <2>1, <2>7, RecoverRestarts DEF Contract!Next
  <2>8. \/ RunnerAlone \/ Emit \/ ForwarderStep \/ TaskStep \/ Cancel \/ Crash
        \/ (\E preserve \in BOOLEAN : Recover(preserve)) \/ UNCHANGED vars
    BY <2>1 DEF Next, RunnerStep, Environment, RunnerAlone
  <2> QED
    BY <2>2, <2>3, <2>4, <2>5, <2>6, <2>7, <2>8
<1> QED
  BY <1>1, <1>2, Invariant, PTL DEF Spec, KeepsContract, Contract!Spec

=============================================================================
