-------------------------- MODULE ChatStreamProofs --------------------------
(***************************************************************************)
(* Theorems about the way from Core's broadcast to the screen, for every   *)
(* number of rooms, branches, streams and events and every capacity of the *)
(* broadcast and of the registry.                                          *)
(*                                                                         *)
(* TextHasNoGap says what is on the screen and what is in a channel; that  *)
(* the two fit together is what makes it inductive.  The sequence number   *)
(* of the forwarder, the items in the channel, the number of the verifier  *)
(* and the length of the text form one line of numbers (Lines, Written),   *)
(* as long as the renderer listens or is still going to (Listening).  A    *)
(* stream that stops being listened to never comes back: a stream is used  *)
(* once (UsedOnce), and a reconciliation of the present epoch has silenced *)
(* its stream and dropped its pending text (Silenced).  Placed carries the *)
(* room along with every read, start and errand that is still on its way,  *)
(* and says which room an errand has left on the screen.                   *)
(***************************************************************************)
EXTENDS ChatStream, FiniteSetTheorems, TLAPS

(* The text on the screen and the text that waits for the timer. *)
Text == painted \o pending

(* A generation that has not ended has room for its terminal event. *)
Ended(g) == \E i \in 1..Len(bus) : bus[i].gen = g /\ bus[i].kind = "terminal"
Numbered == \A g \in Stream : Ended(g) \/ Sent(g) <= MaxEvents

(* Streams are used once, and a receiver is silent until it forwards. *)
Waiting == {"asked", "started", "selecting"}
Started == {"started", "selecting", "ready"}
Fresh(s) == streams[s] = NoStream /\ channel[s] = <<>> /\ recons[s] = NoRecon /\ current # s
UsedAt(s) ==
    /\ starts[s].pc = "none" => Fresh(s)
    /\ starts[s].pc # "none" => starts[s].branch \in made
    /\ streams[s].pc \in {"none", "registered"} =>
          streams[s].last = 0 /\ channel[s] = <<>>
UsedOnce == \A s \in Stream : UsedAt(s)

(* What is on its way to the renderer, item by item. *)
InLine(items, s) ==
    \A i \in 1..Len(items) :
        /\ items[i] = Reconcile => i = Len(items)
        /\ items[i] # Reconcile => items[i].gen = s
        /\ i > 1 /\ items[i] # Reconcile => items[i].seq = items[i - 1].seq + 1
EndsWith(items, n) ==
    items # <<>> => items[Len(items)] # Reconcile /\ items[Len(items)].seq = n
Forwarded(s) ==
    /\ InLine(channel[s], s)
    /\ streams[s].pc # "gone" => EndsWith(channel[s], streams[s].last)

(* The renderer takes what comes next, or will once the start returns. *)
Listening(s) == Owns(s) /\ (verifier.on \/ starts[s].pc \in Waiting)
BeginsAfter(items, n) ==
    items # <<>> /\ items[1] # Reconcile => items[1].seq = n + 1
Continues(s) ==
    /\ channel[s] = <<>> /\ streams[s].pc # "gone" => streams[s].last = verifier.last
    /\ BeginsAfter(channel[s], verifier.last)
LineAt(s) == Forwarded(s) /\ (Listening(s) => Continues(s))
Lines == \A s \in Stream : LineAt(s)

(* The text is the beginning of the present epoch's generation, which was  *)
(* started in its room, and the verifier knows how much there is of it.    *)
TextOf(text, g) == \A i \in 1..Len(text) : text[i] = Delta(g, i)
CountAt(s) ==
    /\ Listening(s) => Len(Text) = verifier.last
    /\ Owns(s) /\ starts[s].pc \in Waiting => verifier.last = 0
Housed(s) == RoomOf[starts[s].branch] = starts[s].room
Written ==
    /\ TextOf(Text, current)
    /\ Len(Text) # 0 => Housed(current)
    /\ ~verifier.on => verifier.last = 0
    /\ \A s \in Stream : CountAt(s)

(* A reconciliation of the present epoch has silenced its stream. *)
SilencedAt(s) ==
    recons[s].pc # "none" /\ current = s =>
        active = None /\ pending = <<>> /\ recons[s].room = room
Silenced == \A s \in Stream : SilencedAt(s)

(* What is shown, loaded, answered or read again belongs to its room. *)
ReadAt(s) ==
    /\ recons[s].pc # "none" => recons[s].room \in Rooms
    /\ recons[s].pc \in {"list", "apply"} => RoomOf[recons[s].branch] = recons[s].room
StartedAt(s) == starts[s].pc \in Started => Housed(s)
SentAt(e) ==
    /\ errands[e].pc \in {"asked", "answered"} => errands[e].room \in Rooms
    /\ errands[e].pc = "answered" =>
          errands[e].branch \in made /\ RoomOf[errands[e].branch] = errands[e].room
Shown ==
    /\ stray = NoStray => shown \in {view, NoBranch}
    /\ view # NoBranch => RoomOf[view] \in {room, stray.view}
    /\ shown # NoBranch => RoomOf[shown] \in {room, stray.shown}
LoadPlaced ==
    load.pc \in {"listing", "branch"} => load.branch \in made /\ RoomOf[load.branch] = room
Placed ==
    /\ Shown
    /\ current # None => starts[current].room = room
    /\ LoadPlaced
    /\ \A r \in Rooms : RoomOf[selected[r]] = r
    /\ \A s \in Stream : ReadAt(s) /\ StartedAt(s)
    /\ \A e \in Errand : SentAt(e)

(* The inductive invariant. *)
IInv == TypeOK /\ Numbered /\ UsedOnce /\ Lines /\ Written /\ Silenced /\ Placed

-----------------------------------------------------------------------------
(* Shapes. *)

(* A stream is a number other than that of no stream. *)
LEMMA StreamNumbers == ASSUME NEW s \in Stream PROVE s \in Nat /\ s # None /\ s \in 0..MaxStreams
BY StreamAssumption DEF Stream, None

(* The record sets change only with the branches that exist. *)
LEMMA SameShapes ==
    ASSUME made' = made
    PROVE  Place' = Place /\ Command' = Command /\ Loading' = Loading
           /\ Reconciliation' = Reconciliation /\ ErrandRecord' = ErrandRecord
BY DEF Place, Command, Loading, Reconciliation, ErrandRecord

(* They grow with the branches. *)
LEMMA GrownShapes ==
    ASSUME made \subseteq made'
    PROVE  /\ Place \subseteq Place'
           /\ Command \subseteq Command'
           /\ Loading \subseteq Loading'
           /\ Reconciliation \subseteq Reconciliation'
           /\ ErrandRecord \subseteq ErrandRecord'
<1>1. Place \subseteq Place'
  BY DEF Place
<1>2. Command \subseteq Command'
  BY <1>1 DEF Command
<1>3. Loading \subseteq Loading'
  BY <1>1 DEF Loading
<1>4. Reconciliation \subseteq Reconciliation'
  BY <1>1 DEF Reconciliation
<1>5. ErrandRecord \subseteq ErrandRecord'
  BY <1>1 DEF ErrandRecord
<1> QED
  BY <1>1, <1>2, <1>3, <1>4, <1>5

(* The records of nothing have their shapes. *)
LEMMA Constants ==
    /\ NoStream \in Receiver /\ Gone \in Receiver
    /\ NoStart \in Command /\ NoVerifier \in Verifier /\ NoChat \in Pane
    /\ NoLoad \in Loading /\ NoRecon \in Reconciliation
    /\ NoErrand \in ErrandRecord /\ Done \in ErrandRecord /\ NoStray \in Strays
<1>1. NoStream \in Receiver /\ Gone \in Receiver
  BY DEF NoStream, Gone, Receiver
<1>2. NoStart \in Command /\ NoLoad \in Loading /\ NoRecon \in Reconciliation
  BY DEF NoStart, Command, NoLoad, Loading, NoRecon, Reconciliation, Place
<1>3. NoVerifier \in Verifier /\ NoChat \in Pane
  BY StreamAssumption DEF NoVerifier, Verifier, NoChat, Pane, None
<1>4. NoErrand \in ErrandRecord /\ Done \in ErrandRecord /\ NoStray \in Strays
  BY DEF NoErrand, Done, ErrandRecord, NoStray, Strays, Place
<1> QED
  BY <1>1, <1>2, <1>3, <1>4

(* What those records say. *)
LEMMA Fields ==
    /\ NoStream.pc = "none" /\ NoStream.last = 0 /\ Gone.pc = "gone" /\ Gone.last = 0
    /\ NoStart.pc = "none" /\ NoStart.branch = NoBranch
    /\ NoVerifier.last = 0 /\ ~NoVerifier.on
    /\ NoLoad.pc = "none" /\ NoRecon.pc = "none"
    /\ NoErrand.pc = "none" /\ Done.pc = "over"
    /\ NoStray.view = NoBranch /\ NoStray.shown = NoBranch
BY DEF NoStream, Gone, NoStart, NoVerifier, NoLoad, NoRecon, NoErrand, Done, NoStray

(* The events of the broadcast. *)
LEMMA EventShape ==
    ASSUME NEW e \in Events
    PROVE  /\ e # Reconcile /\ e.gen \in Stream /\ e.seq \in Nat /\ e.seq # 0
           /\ e.kind \in {"delta", "terminal"}
           /\ e.kind = "delta" => e = Delta(e.gen, e.seq)
           /\ e.kind = "terminal" => e = Terminal(e.gen, e.seq)
<1>1. e.gen \in Stream /\ e.seq \in 1..(MaxEvents + 1) /\ e.kind \in {"delta", "terminal"}
  BY DEF Events
<1>2. e = [kind |-> e.kind, gen |-> e.gen, seq |-> e.seq]
  BY DEF Events
<1>3. e.seq \in Nat /\ e.seq # 0
  BY <1>1, StreamAssumption
<1>4. Reconcile.seq = 0
  BY DEF Reconcile
<1> QED
  BY <1>1, <1>2, <1>3, <1>4 DEF Delta, Terminal

(* The events Core builds are events. *)
LEMMA EventIn ==
    ASSUME NEW g \in Stream, NEW n \in 1..(MaxEvents + 1)
    PROVE  /\ Delta(g, n) \in Events /\ Terminal(g, n) \in Events
           /\ Delta(g, n).gen = g /\ Terminal(g, n).gen = g
           /\ Delta(g, n).seq = n /\ Terminal(g, n).seq = n
           /\ Terminal(g, n).kind = "terminal"
BY DEF Delta, Terminal, Events

-----------------------------------------------------------------------------
(* Facts about the parts of the invariant that most steps leave alone. *)

(* A stream nothing has touched stays used as it was. *)
LEMMA UsedFrame ==
    ASSUME NEW s \in Stream, UsedAt(s),
           starts'[s] = starts[s], streams'[s] = streams[s],
           channel'[s] = channel[s], recons'[s] = recons[s],
           current' # s \/ current' = current, made \subseteq made'
    PROVE  UsedAt(s)'
BY DEF UsedAt, Fresh

(* Its line stays, if the renderer does not begin to listen. *)
LEMMA LineFrame ==
    ASSUME NEW s \in Stream, LineAt(s),
           streams'[s].pc = streams[s].pc, streams'[s].last = streams[s].last,
           channel'[s] = channel[s],
           Listening(s)' => Listening(s) /\ verifier'.last = verifier.last
    PROVE  LineAt(s)'
BY DEF LineAt, Forwarded, Continues

(* So does the count of its text. *)
LEMMA CountFrame ==
    ASSUME NEW s \in Stream, CountAt(s), Text' = Text,
           verifier'.last = verifier.last,
           Listening(s)' => Listening(s),
           starts'[s].pc \in Waiting => starts[s].pc \in Waiting,
           Owns(s)' => Owns(s)
    PROVE  CountAt(s)'
BY DEF CountAt

(* Its silence stays while the epoch stays, or is not its own. *)
LEMMA SilentFrame ==
    ASSUME NEW s \in Stream, SilencedAt(s), recons'[s] = recons[s],
           current' # s \/ (UNCHANGED <<current, active, pending, room>>)
    PROVE  SilencedAt(s)'
BY DEF SilencedAt

(* Numbered looks at the broadcast only. *)
LEMMA NumberedSame == Numbered /\ UNCHANGED bus => Numbered'
BY DEF Numbered, Ended, Sent

(* UsedOnce looks at the streams, commands, channels and branches. *)
LEMMA UsedSame ==
    UsedOnce /\ UNCHANGED <<starts, streams, channel, recons, current, made>> => UsedOnce'
BY DEF UsedOnce, UsedAt, Fresh

(* Lines looks at the streams, channels, commands and the epoch. *)
LEMMA LinesSame ==
    Lines /\ UNCHANGED <<channel, streams, current, active, verifier, starts>> => Lines'
BY DEF Lines, LineAt, Forwarded, Listening, Continues, Owns

(* Written looks at the text, the commands and the epoch. *)
LEMMA WrittenSame ==
    Written /\ UNCHANGED <<painted, pending, current, active, verifier, starts>> => Written'
BY DEF Written, CountAt, Listening, Owns, Text, Housed

(* Silenced looks at the reconciliations, the epoch and the room. *)
LEMMA SilencedSame ==
    Silenced /\ UNCHANGED <<recons, current, active, pending, room>> => Silenced'
BY DEF Silenced, SilencedAt

(* Placed looks at the view, the store's selections, the reads, the starts *)
(* and the errands.                                                        *)
LEMMA PlacedSame ==
    Placed /\ UNCHANGED <<shown, view, room, starts, current, load, selected, recons, made,
                           errands, stray>>
      => Placed'
BY DEF Placed, ReadAt, Shown, LoadPlaced, StartedAt, Housed, SentAt

(* What a stream has is at its place, whatever happens to another one. *)
LEMMA StreamTypes ==
    ASSUME TypeOK, NEW s \in Stream
    PROVE  /\ streams[s] \in Receiver /\ channel[s] \in Seq(Events \cup {Reconcile})
           /\ starts[s] \in Command /\ recons[s] \in Reconciliation
BY DEF TypeOK

-----------------------------------------------------------------------------
(* Core. *)

(* One more event of generation g is counted for g alone. *)
LEMMA SentMore ==
    ASSUME NEW g \in Stream, NEW h \in Stream, NEW e \in Events, e.gen = g,
           bus \in Seq(Events), bus' = Append(bus, e)
    PROVE  /\ Sent(h) \in Nat
           /\ Sent(h)' = IF h = g THEN Sent(h) + 1 ELSE Sent(h)
           /\ Ended(h) => Ended(h)'
           /\ h = g /\ e.kind = "terminal" => Ended(h)'
<1> DEFINE S == {i \in 1..Len(bus) : bus[i].gen = h}
           T == {i \in 1..Len(bus') : bus'[i].gen = h}
           n == Len(bus) + 1
<1>1. Len(bus) \in Nat /\ n \in Nat /\ Len(bus') = n /\ bus'[n] = e
  BY DEF Events
<1>2. \A i \in 1..Len(bus) : bus'[i] = bus[i] /\ i \in 1..n
  BY <1>1
<1>3. IsFiniteSet(1..Len(bus)) /\ IsFiniteSet(S)
  <2>1. IsFiniteSet(1..Len(bus))
    BY <1>1, FS_Interval
  <2>2. S \subseteq 1..Len(bus)
    OBVIOUS
  <2> QED
    BY <2>1, <2>2, FS_Subset
<1>4. T = IF h = g THEN S \cup {n} ELSE S
  BY <1>1, <1>2
<1>5. n \notin S
  BY <1>1
<1>6. Cardinality(S) \in Nat
  BY <1>3, FS_CardinalityType
<1>7. Cardinality(S \cup {n}) = Cardinality(S) + 1
  BY <1>3, <1>5, FS_AddElement
<1>8. Sent(h) = Cardinality(S) /\ Sent(h)' = Cardinality(T)
  BY DEF Sent
<1>9. Ended(h) => Ended(h)'
  BY <1>1, <1>2 DEF Ended
<1>10. h = g /\ e.kind = "terminal" => Ended(h)'
  BY <1>1 DEF Ended
<1> HIDE DEF S, T, n
<1> QED
  BY <1>4, <1>6, <1>7, <1>8, <1>9, <1>10

(* An event that Core may send keeps the invariant. *)
LEMMA BusStep ==
    ASSUME IInv, NEW g \in Stream, NEW e \in Events, e.gen = g, bus' = Append(bus, e),
           e.kind = "terminal" \/ Sent(g) < MaxEvents,
           UNCHANGED <<rows, made, selected, backVars, callVars, epochVars, textVars, viewVars,
                       recons>>
    PROVE  IInv'
<1>1. bus \in Seq(Events)
  BY DEF IInv, TypeOK
<1>2. bus' \in Seq(Events)
  BY <1>1
<1>3. TypeOK'
  <2> USE DEF backVars, callVars, epochVars, textVars, viewVars
  <2>1. TypeOK
    BY DEF IInv
  <2> QED
    BY <1>2, <2>1, SameShapes DEF TypeOK
<1>4. Numbered'
  <2> SUFFICES ASSUME NEW h \in Stream PROVE Ended(h)' \/ Sent(h)' <= MaxEvents
    BY DEF Numbered
  <2>1. Ended(h) \/ Sent(h) <= MaxEvents
    BY DEF IInv, Numbered
  <2> QED
    BY <1>1, <2>1, SentMore, StreamAssumption
<1>5. UsedOnce'
  BY UsedSame DEF IInv, backVars, callVars, epochVars
<1>6. Lines'
  BY LinesSame DEF IInv, backVars, callVars, epochVars
<1>7. Written'
  BY WrittenSame DEF IInv, callVars, epochVars, textVars
<1>8. Silenced'
  BY SilencedSame DEF IInv, epochVars, textVars, viewVars
<1>9. Placed'
  BY PlacedSame DEF IInv, callVars, epochVars, viewVars
<1> QED
  BY <1>3, <1>4, <1>5, <1>6, <1>7, <1>8, <1>9 DEF IInv

(* A delta leaves room for the terminal event. *)
LEMMA PublishStep ==
    ASSUME IInv, NEW g \in Stream, Publish(g)
    PROVE  IInv'
<1>1. bus \in Seq(Events)
  BY DEF IInv, TypeOK
<1>2. Sent(g) \in Nat
  <2>1. IsFiniteSet(1..Len(bus))
    BY <1>1, FS_Interval
  <2>2. IsFiniteSet({i \in 1..Len(bus) : bus[i].gen = g})
    BY <2>1, FS_Subset
  <2> QED
    BY <2>2, FS_CardinalityType DEF Sent
<1>3. Sent(g) + 1 \in 1..(MaxEvents + 1)
  BY <1>2, StreamAssumption DEF Publish
<1>4. Delta(g, Sent(g) + 1) \in Events /\ Delta(g, Sent(g) + 1).gen = g
  BY <1>3, EventIn
<1> QED
  BY <1>4, BusStep DEF Publish

(* The terminal event is sent once, so its number is in range. *)
LEMMA PublishTerminalStep ==
    ASSUME IInv, NEW g \in Stream, PublishTerminal(g)
    PROVE  IInv'
<1>1. bus \in Seq(Events)
  BY DEF IInv, TypeOK
<1>2. Sent(g) \in Nat
  <2>1. IsFiniteSet(1..Len(bus))
    BY <1>1, FS_Interval
  <2>2. IsFiniteSet({i \in 1..Len(bus) : bus[i].gen = g})
    BY <2>1, FS_Subset
  <2> QED
    BY <2>2, FS_CardinalityType DEF Sent
<1>3. ~Ended(g)
  <2> SUFFICES ASSUME NEW i \in 1..Len(bus), bus[i].gen = g, bus[i].kind = "terminal"
               PROVE  FALSE
    BY DEF Ended
  <2>1. bus[i] \in Events
    BY <1>1
  <2>2. bus[i] = Terminal(g, bus[i].seq)
    BY <2>1, EventShape
  <2> QED
    BY <2>2 DEF PublishTerminal
<1>4. Sent(g) + 1 \in 1..(MaxEvents + 1)
  BY <1>2, <1>3, StreamAssumption DEF IInv, Numbered
<1> DEFINE e == Terminal(g, Sent(g) + 1)
<1>5. e \in Events /\ e.gen = g /\ e.kind = "terminal"
  BY <1>4, EventIn
<1>6. bus' = Append(bus, e) /\
      UNCHANGED <<rows, made, selected, backVars, callVars, epochVars, textVars, viewVars,
                       recons>>
  BY DEF PublishTerminal
<1> HIDE DEF e
<1> QED
  BY <1>5, <1>6, BusStep

(* A step that changes nothing the parts beyond the types look at. *)
LEMMA QuietStep ==
    ASSUME IInv, TypeOK',
           UNCHANGED <<bus, made, selected, backVars, starts, epochVars, textVars, viewVars,
                       recons>>
    PROVE  IInv'
<1>4. Numbered'
  BY NumberedSame DEF IInv
<1>5. UsedOnce'
  BY UsedSame DEF IInv, backVars, epochVars
<1>6. Lines'
  BY LinesSame DEF IInv, backVars, epochVars
<1>7. Written'
  BY WrittenSame DEF IInv, epochVars, textVars
<1>8. Silenced'
  BY SilencedSame DEF IInv, epochVars, textVars, viewVars
<1>9. Placed'
  BY PlacedSame DEF IInv, epochVars, viewVars
<1> QED
  BY <1>4, <1>5, <1>6, <1>7, <1>8, <1>9 DEF IInv

(* Settling a row is seen by the types only. *)
LEMMA SettleStep ==
    ASSUME IInv, NEW g \in Stream, Settle(g)
    PROVE  IInv'
<1>1. TypeOK'
  <2> USE DEF backVars, callVars, epochVars, textVars, viewVars
  <2>1. TypeOK
    BY DEF IInv
  <2>2. rows' \in [Stream -> {"none", "pending", "settled"}]
    BY <2>1 DEF TypeOK, Settle
  <2> QED
    BY <2>1, <2>2, SameShapes DEF TypeOK, Settle
<1> QED
  BY <1>1, QuietStep DEF Settle, callVars

(* The store selects a branch of the room it belongs to. *)
LEMMA StoreSelectsStep ==
    ASSUME IInv, NEW b \in Branches, StoreSelects(b)
    PROVE  IInv'
<1>1. TypeOK /\ Placed
  BY DEF IInv
<1>2. b \in made /\ RoomOf[b] \in Rooms
  BY <1>1, StreamAssumption DEF StoreSelects, TypeOK
<1>3. selected' \in [Rooms -> made] /\ choices' \subseteq made
  BY <1>1, <1>2 DEF StoreSelects, TypeOK
<1>4. \A r \in Rooms : selected'[r] = IF r = RoomOf[b] THEN b ELSE selected[r]
  BY <1>1 DEF StoreSelects, TypeOK
<1>5. TypeOK'
  <2> USE DEF backVars, epochVars, textVars, viewVars
  <2> QED
    BY <1>1, <1>3, SameShapes DEF TypeOK, StoreSelects
<1>6. Numbered'
  BY NumberedSame DEF IInv, StoreSelects
<1>7. UsedOnce'
  BY UsedSame DEF IInv, backVars, epochVars, StoreSelects
<1>8. Lines'
  BY LinesSame DEF IInv, backVars, epochVars, StoreSelects
<1>9. Written'
  BY WrittenSame DEF IInv, epochVars, textVars, StoreSelects
<1>10. Silenced'
  BY SilencedSame DEF IInv, epochVars, textVars, viewVars, StoreSelects
<1>11. Placed'
  <2>1. UNCHANGED <<shown, view, room, starts, current, load, recons, made, errands, stray>>
    BY DEF StoreSelects, epochVars, viewVars
  <2>2. \A r \in Rooms : RoomOf[selected'[r]] = r
    BY <1>1, <1>4 DEF Placed
  <2> QED
    BY <1>1, <2>1, <2>2 DEF Placed, ReadAt, Shown, LoadPlaced, StartedAt, Housed, SentAt
<1> QED
  BY <1>5, <1>6, <1>7, <1>8, <1>9, <1>10, <1>11 DEF IInv

-----------------------------------------------------------------------------
(* The backend. *)

(* Registering changes the state of a receiver only. *)
LEMMA ReceiverChanges ==
    ASSUME NEW r \in Receiver
    PROVE  /\ [r EXCEPT !.pc = "registered"] \in Receiver
           /\ [r EXCEPT !.pc = "registered"].pc = "registered"
           /\ [r EXCEPT !.pc = "registered"].last = r.last
           /\ r.pc \in {"none", "registered", "forwarding", "gone"} /\ r.last \in Nat
           /\ r.position \in Nat
BY DEF Receiver

(* The progress of a command leaves its room and branch alone. *)
LEMMA CommandChanges ==
    ASSUME NEW c \in Command,
           NEW p \in {"none", "asked", "started", "selecting", "failed", "ready", "over"}
    PROVE  /\ [c EXCEPT !.pc = p] \in Command
           /\ [c EXCEPT !.pc = p].pc = p
           /\ [c EXCEPT !.pc = p].branch = c.branch
           /\ [c EXCEPT !.pc = p].room = c.room
           /\ c.branch \in Place /\ c.fork \in BOOLEAN
BY DEF Command

(* Skipping an event changes the position only. *)
LEMMA PositionChanges ==
    ASSUME NEW r \in Receiver, NEW n \in Nat
    PROVE  /\ [r EXCEPT !.position = n] \in Receiver
           /\ [r EXCEPT !.position = n].pc = r.pc
           /\ [r EXCEPT !.position = n].last = r.last
BY DEF Receiver

(* Taking an event changes the position and the last number. *)
LEMMA LastChanges ==
    ASSUME NEW r \in Receiver, NEW n \in Nat, NEW e, e.seq \in Nat
    PROVE  /\ [r EXCEPT !.position = n, !.last = e.seq] \in Receiver
           /\ r.pc = "forwarding" =>
                 [r EXCEPT !.position = n, !.last = e.seq].pc = "forwarding"
           /\ [r EXCEPT !.position = n, !.last = e.seq].last = e.seq
BY DEF Receiver

(* Starting to forward keeps the last number. *)
LEMMA ForwardChanges ==
    ASSUME NEW r \in Receiver, NEW n \in Nat
    PROVE  /\ [r EXCEPT !.pc = "forwarding", !.position = n] \in Receiver
           /\ [r EXCEPT !.pc = "forwarding", !.position = n].pc = "forwarding"
           /\ [r EXCEPT !.pc = "forwarding", !.position = n].last = r.last
BY DEF Receiver

(* A disposal changes the mark only. *)
LEMMA MarkChanges ==
    ASSUME NEW r \in Receiver, NEW d \in BOOLEAN
    PROVE  /\ [r EXCEPT !.dispose = d] \in Receiver
           /\ [r EXCEPT !.dispose = d].pc = r.pc
           /\ [r EXCEPT !.dispose = d].last = r.last
           /\ d = r.dispose => [r EXCEPT !.dispose = d] = r
           /\ r.dispose \in BOOLEAN
BY DEF Receiver

(* Text belongs to a stream. *)
LEMMA TextInStream ==
    ASSUME TypeOK, TextOf(Text, current), Len(Text) # 0
    PROVE  current # None
<1>1. Text \in Seq(Events)
  BY DEF TypeOK, Text
<1>2. 1 \in 1..Len(Text) /\ Text[1] \in Events
  BY <1>1
<1>3. Text[1].gen \in Stream /\ Text[1].gen # None
  BY <1>2, EventShape, StreamNumbers
<1>4. Text[1] = Delta(current, 1)
  BY <1>2 DEF TextOf
<1> QED
  BY <1>3, <1>4 DEF Delta

(* A step of stream s in the backend that touches its receiver, its        *)
(* command, its channel and its row; it may make the command's branch.     *)
LEMMA BackendStepIn ==
    ASSUME IInv, NEW s \in Stream,
           NEW r \in Receiver, NEW c, c \in Command', NEW q \in Seq(Events \cup {Reconcile}),
           streams' = [streams EXCEPT ![s] = r],
           starts' = [starts EXCEPT ![s] = c],
           channel' = [channel EXCEPT ![s] = q],
           disposals' \subseteq Stream,
           made \subseteq made', made' \subseteq Branches,
           rows' \in [Stream -> {"none", "pending", "settled"}],
           selected' \in [Rooms -> made'], \A x \in Rooms : RoomOf[selected'[x]] = x,
           UNCHANGED <<bus, choices, epochVars, textVars, viewVars, recons>>,
           c.pc # "none" => c.branch \in made', c.room = starts[s].room,
           Housed(s) \/ c.pc \in Started => RoomOf[c.branch] = c.room,
           c.pc = "none" <=> starts[s].pc = "none",
           c.pc \in Waiting => starts[s].pc \in Waiting,
           starts[s].pc = "none" => r = streams[s] /\ q = channel[s],
           r.pc \in {"none", "registered"} => r.last = 0 /\ q = <<>>,
           InLine(q, s), r.pc # "gone" => EndsWith(q, r.last),
           Listening(s) =>
              /\ q = <<>> /\ r.pc # "gone" => r.last = verifier.last
              /\ BeginsAfter(q, verifier.last)
    PROVE  IInv'
<1> USE DEF backVars, epochVars, textVars, viewVars
<1>1. TypeOK
  BY DEF IInv
<1>2. TypeOK'
  <2>1. streams' \in [Stream -> Receiver]
        /\ channel' \in [Stream -> Seq(Events \cup {Reconcile})]
    BY <1>1 DEF TypeOK
  <2>2. starts' \in [Stream -> Command']
    BY <1>1, GrownShapes DEF TypeOK
  <2>3. recons' \in [Stream -> Reconciliation']
    BY <1>1, GrownShapes DEF TypeOK
  <2>4. load' \in Loading' /\ view' \in Place' /\ shown' \in Place'
    BY <1>1, GrownShapes DEF TypeOK
  <2>5. choices' \subseteq made' /\ errands' \in [Errand -> ErrandRecord']
    BY <1>1, GrownShapes DEF TypeOK
  <2> QED
    BY <1>1, <2>1, <2>2, <2>3, <2>4, <2>5 DEF TypeOK
<1>3. \A t \in Stream : t # s => starts'[t] = starts[t] /\ streams'[t] = streams[t]
                                /\ channel'[t] = channel[t]
  BY <1>1 DEF TypeOK
<1>4. starts'[s] = c /\ streams'[s] = r /\ channel'[s] = q
  BY <1>1 DEF TypeOK
<1>5. Numbered'
  BY NumberedSame DEF IInv
<1>6. UsedOnce'
  <2> SUFFICES ASSUME NEW t \in Stream PROVE UsedAt(t)'
    BY DEF UsedOnce
  <2>1. UsedAt(t)
    BY DEF IInv, UsedOnce
  <2>2. CASE t # s
    BY <1>3, <2>1, <2>2, UsedFrame
  <2>3. CASE t = s
    BY <1>4, <2>1, <2>3 DEF UsedAt, Fresh
  <2> QED
    BY <2>2, <2>3
<1>7. \A t \in Stream : Listening(t)' => Listening(t)
  BY <1>3, <1>4 DEF Listening, Owns
<1>8. Lines'
  <2> SUFFICES ASSUME NEW t \in Stream PROVE LineAt(t)'
    BY DEF Lines
  <2>1. LineAt(t)
    BY DEF IInv, Lines
  <2>2. CASE t # s
    BY <1>3, <1>7, <2>1, <2>2, LineFrame
  <2>3. CASE t = s
    BY <1>4, <1>7, <2>1, <2>3 DEF LineAt, Forwarded, Continues
  <2> QED
    BY <2>2, <2>3
<1>9. Written'
  <2>1. Written
    BY DEF IInv
  <2>2. Text' = Text
    BY DEF Text
  <2>3. \A t \in Stream : CountAt(t)'
    <3> TAKE t \in Stream
    <3>1. CountAt(t)
      BY <2>1 DEF Written
    <3>2. starts'[t].pc \in Waiting => starts[t].pc \in Waiting
      BY <1>3, <1>4
    <3> QED
      BY <1>7, <2>2, <3>1, <3>2, CountFrame DEF Owns
  <2>4. Len(Text) # 0 => current # None
    BY <1>1, <2>1, TextInStream DEF Written
  <2>5. current # None => current \in Stream
    BY <1>1, StreamAssumption DEF TypeOK, None, Stream
  <2>6. current # None /\ Housed(current) => Housed(current)'
    BY <1>3, <1>4, <2>5 DEF Housed
  <2> QED
    BY <2>1, <2>2, <2>3, <2>4, <2>6 DEF Written
<1>10. Silenced'
  BY SilencedSame DEF IInv
<1>11. Placed'
  <2>1. Placed
    BY DEF IInv
  <2>2. current # None => current \in Stream
    BY <1>1, StreamAssumption DEF TypeOK, None, Stream
  <2>3. current # None => starts'[current].room = starts[current].room
    BY <1>3, <1>4, <2>2
  <2>4. \A t \in Stream : StartedAt(t)'
    BY <1>3, <1>4, <2>1 DEF Placed, StartedAt, Housed
  <2>5. Shown' /\ LoadPlaced' /\ (\A e \in Errand : SentAt(e)')
    BY <2>1 DEF Placed, Shown, LoadPlaced, SentAt
  <2>6. \A t \in Stream : ReadAt(t)'
    BY <2>1 DEF Placed, ReadAt
  <2> QED
    BY <2>1, <2>3, <2>4, <2>5, <2>6 DEF Placed
<1> QED
  BY <1>2, <1>5, <1>6, <1>8, <1>9, <1>10, <1>11 DEF IInv

(* The same where no branch is made. *)
LEMMA BackendStepOf ==
    ASSUME IInv, NEW s \in Stream,
           NEW r \in Receiver, NEW c \in Command, NEW q \in Seq(Events \cup {Reconcile}),
           streams' = [streams EXCEPT ![s] = r],
           starts' = [starts EXCEPT ![s] = c],
           channel' = [channel EXCEPT ![s] = q],
           disposals' \subseteq Stream,
           UNCHANGED <<bus, rows, made, selected, choices, epochVars, textVars, viewVars, recons>>,
           c.branch = starts[s].branch, c.room = starts[s].room,
           c.pc = "none" <=> starts[s].pc = "none",
           c.pc \in Started => starts[s].pc \in Started,
           c.pc \in Waiting => starts[s].pc \in Waiting,
           starts[s].pc = "none" => r = streams[s] /\ q = channel[s],
           r.pc \in {"none", "registered"} => r.last = 0 /\ q = <<>>,
           InLine(q, s), r.pc # "gone" => EndsWith(q, r.last),
           Listening(s) =>
              /\ q = <<>> /\ r.pc # "gone" => r.last = verifier.last
              /\ BeginsAfter(q, verifier.last)
    PROVE  IInv'
<1>1. c \in Command'
  BY SameShapes
<1>2. made \subseteq made' /\ made' \subseteq Branches
      /\ rows' \in [Stream -> {"none", "pending", "settled"}]
  BY DEF IInv, TypeOK
<1>3. UsedAt(s)
  BY DEF IInv, UsedOnce
<1>4. c.pc # "none" => c.branch \in made'
  BY <1>3 DEF UsedAt
<1>5. Housed(s) \/ c.pc \in Started => RoomOf[c.branch] = c.room
  BY DEF IInv, Placed, StartedAt, Housed
<1>6. selected' \in [Rooms -> made'] /\ \A x \in Rooms : RoomOf[selected'[x]] = x
  BY DEF IInv, TypeOK, Placed
<1> QED
  BY <1>1, <1>2, <1>4, <1>5, <1>6, BackendStepIn

(* Writing back what is there changes nothing. *)
LEMMA SameEntry ==
    ASSUME NEW S, NEW T, NEW f \in [S -> T], NEW s \in S
    PROVE  f = [f EXCEPT ![s] = f[s]]
OBVIOUS

(* What the invariant says of one stream. *)
LEMMA SilentStream ==
    ASSUME IInv, NEW s \in Stream
    PROVE  /\ streams[s] \in Receiver /\ channel[s] \in Seq(Events \cup {Reconcile})
           /\ starts[s] \in Command
           /\ streams = [streams EXCEPT ![s] = streams[s]]
           /\ starts = [starts EXCEPT ![s] = starts[s]]
           /\ channel = [channel EXCEPT ![s] = channel[s]]
           /\ UsedAt(s) /\ LineAt(s) /\ CountAt(s) /\ SilencedAt(s) /\ ReadAt(s)
           /\ StartedAt(s)
<1>1. TypeOK
  BY DEF IInv
<1>2. streams = [streams EXCEPT ![s] = streams[s]] /\ channel = [channel EXCEPT ![s] = channel[s]]
      /\ starts = [starts EXCEPT ![s] = starts[s]]
  BY <1>1 DEF TypeOK
<1>3. UsedAt(s) /\ LineAt(s) /\ CountAt(s) /\ SilencedAt(s) /\ ReadAt(s) /\ StartedAt(s)
  BY DEF IInv, UsedOnce, Lines, Written, Silenced, Placed
<1> QED
  BY <1>1, <1>2, <1>3, StreamTypes

(* A registered receiver has forwarded nothing. *)
LEMMA RegisterStep ==
    ASSUME IInv, NEW s \in Stream, Register(s)
    PROVE  IInv'
<1> DEFINE r == [streams[s] EXCEPT !.pc = "registered"]
<1>1. /\ streams[s] \in Receiver /\ channel[s] \in Seq(Events \cup {Reconcile})
      /\ starts[s] \in Command /\ UsedAt(s) /\ LineAt(s)
      /\ starts = [starts EXCEPT ![s] = starts[s]]
      /\ channel = [channel EXCEPT ![s] = channel[s]]
  BY SilentStream
<1>2. r \in Receiver /\ r.pc = "registered" /\ r.last = streams[s].last
  BY <1>1, ReceiverChanges
<1>3. streams' = [streams EXCEPT ![s] = r]
  BY DEF Register
<1>4. starts[s].pc = "asked" /\ streams[s].pc = "none"
  BY DEF Register
<1>5. r.last = 0 /\ channel[s] = <<>>
  BY <1>1, <1>2, <1>4 DEF UsedAt
<1>6. UNCHANGED <<coreVars, channel, callVars, epochVars, textVars, viewVars, recons>>
  BY DEF Register
<1>7. disposals' \subseteq Stream
  BY <1>6 DEF IInv, TypeOK, callVars
<1> HIDE DEF r
<1>8. InLine(channel[s], s) /\ EndsWith(channel[s], r.last)
  BY <1>5 DEF InLine, EndsWith
<1>9. Listening(s) => r.last = verifier.last /\ BeginsAfter(channel[s], verifier.last)
  BY <1>1, <1>2, <1>4, <1>5 DEF LineAt, Continues
<1> QED
  BY <1>1, <1>2, <1>3, <1>4, <1>5, <1>6, <1>7, <1>8, <1>9, BackendStepOf DEF coreVars, callVars

(* A start that fails has forwarded nothing. *)
LEMMA StartFailsStep ==
    ASSUME IInv, NEW s \in Stream, StartFails(s)
    PROVE  IInv'
<1> DEFINE c == [starts[s] EXCEPT !.pc = "failed"]
<1>1. /\ streams[s] \in Receiver /\ channel[s] \in Seq(Events \cup {Reconcile})
      /\ starts[s] \in Command /\ UsedAt(s) /\ LineAt(s)
      /\ channel = [channel EXCEPT ![s] = channel[s]]
  BY SilentStream
<1>2. c \in Command /\ c.pc = "failed" /\ c.branch = starts[s].branch
      /\ c.room = starts[s].room
  BY <1>1, CommandChanges
<1>3. streams' = [streams EXCEPT ![s] = Gone] /\ starts' = [starts EXCEPT ![s] = c]
  BY DEF StartFails
<1>4. starts[s].pc = "asked" /\ streams[s].pc \in {"none", "registered"}
  BY DEF StartFails
<1>5. channel[s] = <<>>
  BY <1>1, <1>4 DEF UsedAt
<1>6. UNCHANGED <<coreVars, channel, disposals, choices, epochVars, textVars, viewVars, recons>>
  BY DEF StartFails
<1>7. disposals' \subseteq Stream
  BY <1>6 DEF IInv, TypeOK
<1>8. InLine(channel[s], s) /\ BeginsAfter(channel[s], verifier.last)
  BY <1>5 DEF InLine, BeginsAfter
<1>9. Gone \in Receiver /\ Gone.pc = "gone" /\ c.pc \notin Waiting /\ c.pc \notin Started
  BY <1>2, Constants, Fields DEF Waiting, Started
<1> HIDE DEF c
<1> QED
  BY <1>1, <1>2, <1>3, <1>4, <1>6, <1>7, <1>8, <1>9, BackendStepOf DEF coreVars

(* A disposed receiver leaves a line without a gap. *)
LEMMA StopForwardingStep ==
    ASSUME IInv, NEW s \in Stream, StopForwarding(s)
    PROVE  IInv'
<1>1. /\ streams[s] \in Receiver /\ channel[s] \in Seq(Events \cup {Reconcile})
      /\ starts[s] \in Command /\ UsedAt(s) /\ LineAt(s)
      /\ channel = [channel EXCEPT ![s] = channel[s]]
      /\ starts = [starts EXCEPT ![s] = starts[s]]
  BY SilentStream
<1>2. streams' = [streams EXCEPT ![s] = Gone] /\ streams[s].pc = "forwarding"
  BY DEF StopForwarding
<1>3. starts[s].pc # "none"
  BY <1>1, <1>2, Fields DEF UsedAt, Fresh
<1>4. UNCHANGED <<coreVars, channel, callVars, epochVars, textVars, viewVars, recons>>
  BY DEF StopForwarding
<1>5. disposals' \subseteq Stream
  BY <1>4 DEF IInv, TypeOK, callVars
<1>6. Gone \in Receiver /\ Gone.pc = "gone"
  BY Constants, Fields
<1>7. InLine(channel[s], s) /\ (Listening(s) => BeginsAfter(channel[s], verifier.last))
  BY <1>1 DEF LineAt, Forwarded, Continues
<1> QED
  BY <1>1, <1>2, <1>3, <1>4, <1>5, <1>6, <1>7, BackendStepOf DEF coreVars, callVars

(* Disposing of a receiver is only a mark on it. *)
LEMMA Marked ==
    ASSUME IInv, NEW s \in Stream
    PROVE  \E r \in Receiver :
              /\ Disposed(s) = [streams EXCEPT ![s] = r]
              /\ r.pc = streams[s].pc /\ r.last = streams[s].last
              /\ streams[s] = NoStream => r = streams[s]
<1> DEFINE d == streams[s].dispose \/ s \in Slots
           r == [streams[s] EXCEPT !.dispose = d]
<1>1. streams[s] \in Receiver
  BY SilentStream
<1>2. streams[s].dispose \in BOOLEAN /\ d \in BOOLEAN
  BY <1>1, MarkChanges
<1>3. streams[s] = NoStream => s \notin Slots
  BY Fields DEF Slots
<1>4. streams[s] = NoStream => d = streams[s].dispose
  BY <1>2, <1>3, Zenon
<1> HIDE DEF d
<1>5. /\ r \in Receiver /\ r.pc = streams[s].pc /\ r.last = streams[s].last
      /\ streams[s] = NoStream => r = streams[s]
  BY <1>1, <1>2, <1>4, MarkChanges
<1>6. Disposed(s) = [streams EXCEPT ![s] = r]
  BY DEF Disposed, d
<1> HIDE DEF r
<1> QED
  BY <1>5, <1>6

(* A disposal does not touch the line. *)
LEMMA DisposeStep ==
    ASSUME IInv, NEW s \in Stream, DisposeChatStream(s)
    PROVE  IInv'
<1>1. /\ streams[s] \in Receiver /\ channel[s] \in Seq(Events \cup {Reconcile})
      /\ starts[s] \in Command /\ UsedAt(s) /\ LineAt(s)
      /\ channel = [channel EXCEPT ![s] = channel[s]]
      /\ starts = [starts EXCEPT ![s] = starts[s]]
  BY SilentStream
<1>2. PICK r \in Receiver :
              /\ Disposed(s) = [streams EXCEPT ![s] = r]
              /\ r.pc = streams[s].pc /\ r.last = streams[s].last
              /\ streams[s] = NoStream => r = streams[s]
  BY Marked
<1>3. streams' = [streams EXCEPT ![s] = r]
  BY <1>2 DEF DisposeChatStream
<1>4. UNCHANGED <<coreVars, channel, starts, choices, epochVars, textVars, viewVars, recons>>
  BY DEF DisposeChatStream
<1>5. disposals' \subseteq Stream
  BY DEF IInv, TypeOK, DisposeChatStream
<1>6. starts[s].pc = "none" => r = streams[s]
  BY <1>1, <1>2 DEF UsedAt, Fresh
<1>7. r.pc \in {"none", "registered"} => r.last = 0 /\ channel[s] = <<>>
  BY <1>1, <1>2 DEF UsedAt
<1>8. /\ InLine(channel[s], s) /\ (r.pc # "gone" => EndsWith(channel[s], r.last))
      /\ Listening(s) =>
            /\ channel[s] = <<>> /\ r.pc # "gone" => r.last = verifier.last
            /\ BeginsAfter(channel[s], verifier.last)
  BY <1>1, <1>2 DEF LineAt, Forwarded, Continues
<1> QED
  BY <1>1, <1>2, <1>3, <1>4, <1>5, <1>6, <1>7, <1>8, BackendStepOf DEF coreVars

(* A fork answers on a new branch of the same room. *)
LEMMA StartGenerationStep ==
    ASSUME IInv, NEW s \in Stream, StartGeneration(s)
    PROVE  IInv'
<1> DEFINE r == [streams[s] EXCEPT !.pc = "forwarding", !.position = Len(bus)]
<1>1. /\ streams[s] \in Receiver /\ channel[s] \in Seq(Events \cup {Reconcile})
      /\ starts[s] \in Command /\ UsedAt(s) /\ LineAt(s)
      /\ channel = [channel EXCEPT ![s] = channel[s]]
  BY SilentStream
<1>2. Len(bus) \in Nat
  BY DEF IInv, TypeOK
<1>3. r \in Receiver /\ r.pc = "forwarding" /\ r.last = streams[s].last
  BY <1>1, <1>2, ForwardChanges
<1>4. streams' = [streams EXCEPT ![s] = r] /\ starts[s].pc = "asked"
      /\ streams[s].pc = "registered"
  BY DEF StartGeneration
<1> HIDE DEF r
<1>5. channel[s] = <<>> /\ r.last = 0
  BY <1>1, <1>3, <1>4 DEF UsedAt
<1>6. UNCHANGED <<bus, channel, disposals, choices, epochVars, textVars, viewVars, recons>>
  BY DEF StartGeneration
<1>7. disposals' \subseteq Stream /\ made \subseteq Branches
  BY <1>6 DEF IInv, TypeOK
<1>8. rows' \in [Stream -> {"none", "pending", "settled"}]
  BY DEF IInv, TypeOK, StartGeneration
<1>9. InLine(channel[s], s) /\ EndsWith(channel[s], r.last)
  BY <1>5 DEF InLine, EndsWith
<1>10. Listening(s) => r.last = verifier.last /\ BeginsAfter(channel[s], verifier.last)
  BY <1>1, <1>3, <1>4, <1>5 DEF LineAt, Continues
<1>11. starts[s].branch \in made /\ RoomOf[starts[s].branch] = starts[s].room
  BY <1>1, <1>4 DEF UsedAt, StartGeneration
<1>12. selected \in [Rooms -> made] /\ \A x \in Rooms : RoomOf[selected[x]] = x
  BY DEF IInv, TypeOK, Placed
<1> DEFINE Goes(c) ==
          /\ starts' = [starts EXCEPT ![s] = c] /\ c.pc = "started"
          /\ made \subseteq made' /\ made' \subseteq Branches
          /\ c.branch \in made' /\ c.room = starts[s].room /\ RoomOf[c.branch] = c.room
          /\ selected' \in [Rooms -> made'] /\ \A x \in Rooms : RoomOf[selected'[x]] = x
<1>13. \E c \in Command' : Goes(c)
  <2>1. CASE starts' = [starts EXCEPT ![s].pc = "started"] /\ UNCHANGED <<made, selected>>
    <3> DEFINE c == [starts[s] EXCEPT !.pc = "started"]
    <3>1. /\ c \in Command /\ c.pc = "started" /\ c.branch = starts[s].branch
          /\ c.room = starts[s].room
      BY <1>1, CommandChanges
    <3>2. starts' = [starts EXCEPT ![s] = c]
      BY <2>1
    <3> HIDE DEF c
    <3> QED
      BY <1>7, <1>11, <1>12, <2>1, <3>1, <3>2, SameShapes
  <2>2. CASE \E b \in Branches \ made :
                /\ RoomOf[b] = starts[s].room
                /\ starts' = [starts EXCEPT ![s].pc = "started", ![s].branch = b]
                /\ made' = made \cup {b}
                /\ selected' = [selected EXCEPT ![starts[s].room] = b]
    <3>1. PICK b \in Branches \ made :
                /\ RoomOf[b] = starts[s].room
                /\ starts' = [starts EXCEPT ![s].pc = "started", ![s].branch = b]
                /\ made' = made \cup {b}
                /\ selected' = [selected EXCEPT ![starts[s].room] = b]
      BY <2>2
    <3> DEFINE c == [starts[s] EXCEPT !.pc = "started", !.branch = b]
    <3>2. b \in Place' /\ starts[s] \in Command'
      BY <1>1, <3>1, GrownShapes DEF Place
    <3>3. c \in Command' /\ c.pc = "started" /\ c.branch = b /\ c.room = starts[s].room
      BY <3>2 DEF Command
    <3>4. starts' = [starts EXCEPT ![s] = c]
      BY <3>1
    <3>5. selected' \in [Rooms -> made']
      BY <1>12, <3>1
    <3>6. \A x \in Rooms : RoomOf[selected'[x]] = x
      <4> TAKE x \in Rooms
      <4>1. selected'[x] = IF x = starts[s].room THEN b ELSE selected[x]
        BY <1>12, <3>1
      <4> QED
        BY <1>12, <3>1, <4>1
    <3> HIDE DEF c
    <3> QED
      BY <1>7, <3>1, <3>3, <3>4, <3>5, <3>6
  <2> QED
    BY <2>1, <2>2 DEF StartGeneration
<1>14. PICK c \in Command' : Goes(c)
  BY <1>13
<1>15. starts[s].pc \in Waiting
  BY <1>4 DEF Waiting
<1>16. channel' = [channel EXCEPT ![s] = channel[s]]
  BY <1>1, <1>6
<1> QED
  BY <1>1, <1>3, <1>4, <1>5, <1>6, <1>7, <1>8, <1>9, <1>10, <1>14, <1>15, <1>16, BackendStepIn

(* One more item at the end of the line. *)
LEMMA OneMore ==
    ASSUME NEW q \in Seq(Events \cup {Reconcile}), NEW e \in Events \cup {Reconcile},
           NEW s \in Stream, NEW n \in Nat, InLine(q, s), EndsWith(q, n),
           e # Reconcile => e.gen = s /\ e.seq = n + 1
    PROVE  /\ Append(q, e) \in Seq(Events \cup {Reconcile}) /\ Append(q, e) # <<>>
           /\ InLine(Append(q, e), s)
           /\ e # Reconcile => EndsWith(Append(q, e), e.seq)
           /\ \A v \in Nat : BeginsAfter(q, v) /\ (q = <<>> => n = v) =>
                 BeginsAfter(Append(q, e), v)
<1> DEFINE p == Append(q, e)
<1>1. p \in Seq(Events \cup {Reconcile}) /\ Len(p) = Len(q) + 1 /\ Len(q) \in Nat
      /\ p[Len(q) + 1] = e
  OBVIOUS
<1>2. \A i \in 1..Len(q) : p[i] = q[i]
  OBVIOUS
<1>3. p # <<>> /\ (q = <<>> <=> Len(q) = 0)
  <2>1. p # <<>>
    BY <1>1
  <2>2. q = <<>> <=> Len(q) = 0
    OBVIOUS
  <2> QED
    BY <2>1, <2>2
<1> HIDE DEF p
<1>4. \A i \in 1..Len(q) : q[i] # Reconcile
  BY <1>1, <1>3 DEF InLine, EndsWith
<1>5. InLine(p, s)
  <2> SUFFICES ASSUME NEW i \in 1..Len(p)
               PROVE  /\ p[i] = Reconcile => i = Len(p)
                      /\ p[i] # Reconcile => p[i].gen = s
                      /\ i > 1 /\ p[i] # Reconcile => p[i].seq = p[i - 1].seq + 1
    BY DEF InLine
  <2>1. CASE i \in 1..Len(q)
    <3>1. p[i] = q[i] /\ q[i] # Reconcile
      BY <1>2, <1>4, <2>1
    <3>2. i > 1 => i - 1 \in 1..Len(q) /\ p[i - 1] = q[i - 1]
      BY <1>1, <1>2, <2>1
    <3> QED
      BY <2>1, <3>1, <3>2 DEF InLine
  <2>2. CASE i = Len(q) + 1
    <3>1. i > 1 => Len(q) \in 1..Len(q) /\ i - 1 = Len(q) /\ q # <<>>
      BY <1>1, <1>3, <2>2
    <3>2. i > 1 => p[i - 1].seq = n
      BY <1>2, <3>1 DEF EndsWith
    <3> QED
      BY <1>1, <2>2, <3>2
  <2> QED
    BY <1>1, <2>1, <2>2
<1>6. e # Reconcile => EndsWith(p, e.seq)
  BY <1>1 DEF EndsWith
<1>7. \A v \in Nat : BeginsAfter(q, v) /\ (q = <<>> => n = v) => BeginsAfter(p, v)
  <2> SUFFICES ASSUME NEW v \in Nat, BeginsAfter(q, v), q = <<>> => n = v
               PROVE  p[1] # Reconcile => p[1].seq = v + 1
    BY DEF BeginsAfter
  <2>1. CASE q = <<>>
    BY <1>1, <1>3, <2>1
  <2>2. CASE q # <<>>
    <3>1. 1 \in 1..Len(q)
      BY <1>1, <1>3, <2>2
    <3> QED
      BY <1>2, <2>2, <3>1 DEF BeginsAfter
  <2> QED
    BY <2>1, <2>2
<1> QED
  BY <1>1, <1>3, <1>5, <1>6, <1>7 DEF p

(* The filter appends the next number or asks to reconcile, and then ends. *)
LEMMA RecvStep ==
    ASSUME IInv, NEW s \in Stream, Recv(s)
    PROVE  IInv'
<1> DEFINE next == streams[s].position + 1
           event == bus[next]
<1>1. /\ streams[s] \in Receiver /\ channel[s] \in Seq(Events \cup {Reconcile})
      /\ starts[s] \in Command /\ UsedAt(s) /\ LineAt(s)
      /\ channel = [channel EXCEPT ![s] = channel[s]]
      /\ starts = [starts EXCEPT ![s] = starts[s]]
  BY SilentStream
<1>2. streams[s].position \in Nat /\ next \in Nat /\ streams[s].last \in Nat
  <2>1. streams[s].position \in Nat /\ streams[s].last \in Nat
    BY <1>1, ReceiverChanges
  <2> QED
    BY <2>1
<1>3. streams[s].pc = "forwarding" /\ streams[s].position < Len(bus)
  BY DEF Recv, Forwarding
<1>4. event \in Events
  BY <1>2, <1>3 DEF IInv, TypeOK
<1> HIDE DEF next, event
<1>5. event # Reconcile /\ event.seq \in Nat
  BY <1>4, EventShape
<1>6. starts[s].pc # "none"
  BY <1>1, <1>3, Fields DEF UsedAt, Fresh
<1>7. UNCHANGED <<coreVars, callVars, epochVars, textVars, viewVars, recons>>
  BY DEF Recv
<1>8. disposals' \subseteq Stream
  BY <1>7 DEF IInv, TypeOK, callVars
<1>9. InLine(channel[s], s) /\ EndsWith(channel[s], streams[s].last)
  BY <1>1, <1>3 DEF LineAt, Forwarded
<1>10. Listening(s) =>
          /\ BeginsAfter(channel[s], verifier.last)
          /\ channel[s] = <<>> => streams[s].last = verifier.last
  BY <1>1, <1>3 DEF LineAt, Continues
<1>11. verifier.last \in Nat
  BY DEF IInv, TypeOK, Verifier
<1>12. Gone \in Receiver /\ Gone.pc = "gone"
  BY Constants, Fields
<1>13. CASE streams' = [streams EXCEPT ![s] = Gone]
            /\ channel' = [channel EXCEPT ![s] = Append(@, Reconcile)]
  <2> DEFINE q == Append(channel[s], Reconcile)
  <2>1. /\ q \in Seq(Events \cup {Reconcile}) /\ q # <<>> /\ InLine(q, s)
        /\ Listening(s) => BeginsAfter(q, verifier.last)
    BY <1>1, <1>2, <1>9, <1>10, <1>11, OneMore
  <2>2. channel' = [channel EXCEPT ![s] = q]
    BY <1>13
  <2> HIDE DEF q
  <2> QED
    BY <1>1, <1>6, <1>7, <1>8, <1>12, <1>13, <2>1, <2>2, BackendStepOf DEF coreVars, callVars
<1>14. CASE streams' = [streams EXCEPT ![s].position = next] /\ UNCHANGED channel
  <2> DEFINE r == [streams[s] EXCEPT !.position = next]
  <2>1. r \in Receiver /\ r.pc = "forwarding" /\ r.last = streams[s].last
    BY <1>1, <1>2, <1>3, PositionChanges
  <2>2. streams' = [streams EXCEPT ![s] = r]
    BY <1>14
  <2> HIDE DEF r
  <2> QED
    BY <1>1, <1>6, <1>7, <1>8, <1>9, <1>10, <1>14, <2>1, <2>2, BackendStepOf
    DEF coreVars, callVars
<1>15. CASE /\ event.gen = s /\ event.seq = streams[s].last + 1
            /\ streams' = [streams EXCEPT ![s] =
                  IF event.kind = "terminal" THEN Gone ELSE
                  [streams[s] EXCEPT !.position = next, !.last = event.seq]]
            /\ channel' = [channel EXCEPT ![s] = Append(@, event)]
  <2> DEFINE q == Append(channel[s], event)
             f == [streams[s] EXCEPT !.position = next, !.last = event.seq]
             r == IF event.kind = "terminal" THEN Gone ELSE f
  <2>1. /\ q \in Seq(Events \cup {Reconcile}) /\ q # <<>> /\ InLine(q, s)
        /\ EndsWith(q, event.seq)
        /\ Listening(s) => BeginsAfter(q, verifier.last)
    BY <1>1, <1>2, <1>4, <1>5, <1>9, <1>10, <1>11, <1>15, OneMore
  <2>2. channel' = [channel EXCEPT ![s] = q]
    BY <1>15
  <2>3. streams' = [streams EXCEPT ![s] = r]
    BY <1>15
  <2>4. f \in Receiver /\ f.pc = "forwarding" /\ f.last = event.seq
    <3>1. next \in Nat /\ event.seq \in Nat /\ streams[s] \in Receiver
      BY <1>1, <1>2, <1>5
    <3>2. f \in Receiver /\ f.pc = "forwarding" /\ f.last = event.seq
      BY <1>3, <3>1, LastChanges
    <3> QED
      BY <1>3, <3>2
  <2> HIDE DEF q, f
  <2>5. r \in Receiver /\ r.pc \in {"forwarding", "gone"}
        /\ (r.pc # "gone" => r.last = event.seq)
    BY <1>12, <2>4
  <2> HIDE DEF r
  <2> QED
    BY <1>1, <1>6, <1>7, <1>8, <2>1, <2>2, <2>3, <2>5, BackendStepOf DEF coreVars, callVars
<1>16. \/ streams' = [streams EXCEPT ![s] = Gone]
            /\ channel' = [channel EXCEPT ![s] = Append(@, Reconcile)]
       \/ streams' = [streams EXCEPT ![s].position = next] /\ UNCHANGED channel
       \/ /\ event.gen = s /\ event.seq = streams[s].last + 1
          /\ streams' = [streams EXCEPT ![s] =
                  IF event.kind = "terminal" THEN Gone ELSE
                  [streams[s] EXCEPT !.position = next, !.last = event.seq]]
          /\ channel' = [channel EXCEPT ![s] = Append(@, event)]
  BY Zenon DEF Recv, event, next
<1> QED
  BY <1>13, <1>14, <1>15, <1>16

-----------------------------------------------------------------------------
(* The renderer. *)

(* The epoch's stream, and what disposing of it adds. *)
LEMMA Epoch ==
    ASSUME TypeOK
    PROVE  /\ current # None => current \in Stream
           /\ active # None => active = current
           /\ disposals \subseteq Stream
           /\ DetachedDisposals \subseteq Stream
           /\ \A s \in Stream : WithDisposal(s) \subseteq Stream
           /\ verifier.last \in Nat /\ verifier.on \in BOOLEAN
           /\ None \in 0..MaxStreams
<1>1. current # None => current \in Stream
  BY StreamAssumption DEF TypeOK, None, Stream
<1>2. active # None => active = current
  BY DEF TypeOK, None
<1>3. disposals \subseteq Stream
  BY DEF TypeOK
<1>4. \A s \in Stream : WithDisposal(s) \subseteq Stream
  BY <1>3 DEF WithDisposal
<1>5. DetachedDisposals \subseteq Stream
  BY <1>1, <1>2, <1>3, <1>4 DEF DetachedDisposals
<1>6. verifier.last \in Nat /\ verifier.on \in BOOLEAN
  BY DEF TypeOK, Verifier
<1> QED
  BY <1>1, <1>2, <1>3, <1>4, <1>5, <1>6, StreamAssumption DEF None

(* A command of stream s makes progress. *)
LEMMA UsedByCommand ==
    ASSUME IInv, NEW s \in Stream, NEW c \in Command,
           starts' = [starts EXCEPT ![s] = c], c.pc # "none", starts[s].pc # "none",
           c.branch = starts[s].branch,
           UNCHANGED <<streams, channel, current, made>>,
           \A t \in Stream : t # s => recons'[t] = recons[t]
    PROVE  UsedOnce'
<1> SUFFICES ASSUME NEW t \in Stream PROVE UsedAt(t)'
  BY DEF UsedOnce
<1>1. UsedAt(t)
  BY DEF IInv, UsedOnce
<1>2. starts'[t] = IF t = s THEN c ELSE starts[t]
  BY DEF IInv, TypeOK
<1>3. CASE t # s
  BY <1>1, <1>2, <1>3, UsedFrame
<1>4. CASE t = s
  BY <1>1, <1>2, <1>4 DEF UsedAt
<1> QED
  BY <1>3, <1>4

(* Lines stay if nobody begins to listen. *)
LEMMA LinesStay ==
    ASSUME Lines, UNCHANGED <<streams, channel>>,
           \A t \in Stream : Listening(t)' => Listening(t) /\ verifier'.last = verifier.last
    PROVE  Lines'
<1> SUFFICES ASSUME NEW t \in Stream PROVE LineAt(t)'
  BY DEF Lines
<1>1. LineAt(t)
  BY DEF Lines
<1> QED
  BY <1>1, LineFrame

(* So does what is written, if the text stays. *)
LEMMA WrittenStays ==
    ASSUME Written, UNCHANGED <<painted, pending, current, verifier>>,
           Len(Text) # 0 /\ Housed(current) => Housed(current)',
           \A t \in Stream : /\ Listening(t)' => Listening(t)
                             /\ starts'[t].pc \in Waiting => starts[t].pc \in Waiting
                             /\ Owns(t)' => Owns(t)
    PROVE  Written'
<1>1. Text' = Text
  BY DEF Text
<1>2. \A t \in Stream : CountAt(t)'
  <2> TAKE t \in Stream
  <2>1. CountAt(t)
    BY DEF Written
  <2> QED
    BY <1>1, <2>1, CountFrame
<1> QED
  BY <1>1, <1>2 DEF Written

(* Nothing is shown, loaded or selected anew. *)
LEMMA PlacedStays ==
    ASSUME IInv, made' = made,
           UNCHANGED <<shown, view, room, load, selected, errands, stray>>,
           current' = None \/ (current' = current /\ (current # None =>
               starts'[current].room = starts[current].room)),
           \A t \in Stream : ReadAt(t)', \A t \in Stream : StartedAt(t)'
    PROVE  Placed'
<1>1. Placed
  BY DEF IInv
<1>2. Shown' /\ LoadPlaced' /\ (\A e \in Errand : SentAt(e)')
  BY <1>1 DEF Placed, Shown, LoadPlaced, SentAt
<1> QED
  BY <1>1, <1>2 DEF Placed

(* The commands after one of them has made progress. *)
LEMMA CommandFacts ==
    ASSUME IInv, NEW s \in Stream, NEW c \in Command,
           starts' = [starts EXCEPT ![s] = c], c.pc # "none",
           c.branch = starts[s].branch, c.room = starts[s].room,
           c.pc \in Waiting => starts[s].pc \in Waiting,
           c.pc \in Started => starts[s].pc \in Started
    PROVE  /\ starts' \in [Stream -> Command]
           /\ \A t \in Stream : starts'[t] = IF t = s THEN c ELSE starts[t]
           /\ \A t \in Stream : starts'[t].pc \in Waiting => starts[t].pc \in Waiting
           /\ \A t \in Stream : starts'[t].branch = starts[t].branch
           /\ \A t \in Stream : StartedAt(t)'
           /\ current # None => starts'[current].room = starts[current].room
           /\ Len(Text) # 0 /\ Housed(current) =>
                 RoomOf[starts'[current].branch] = starts'[current].room
<1>1. starts \in [Stream -> Command]
  BY DEF IInv, TypeOK
<1>2. starts' \in [Stream -> Command]
  BY <1>1
<1>3. \A t \in Stream : starts'[t] = IF t = s THEN c ELSE starts[t]
  BY <1>1
<1>4. current # None => current \in Stream
  BY Epoch DEF IInv
<1>5. Len(Text) # 0 => current # None
  BY TextInStream DEF IInv, Written
<1>6. \A t \in Stream : starts'[t].branch = starts[t].branch /\ starts'[t].room = starts[t].room
  BY <1>3
<1>7. \A t \in Stream : StartedAt(t)'
  <2> TAKE t \in Stream
  <2>1. StartedAt(t)
    BY DEF IInv, Placed
  <2> QED
    BY <1>3, <1>6, <2>1 DEF StartedAt, Housed
<1> QED
  BY <1>2, <1>3, <1>4, <1>5, <1>6, <1>7 DEF Housed

(* A step that only moves one command on, and commands on their way. *)
LEMMA CommandStep ==
    ASSUME IInv, NEW s \in Stream, NEW c \in Command,
           starts' = [starts EXCEPT ![s] = c], c.pc # "none", starts[s].pc # "none",
           c.branch = starts[s].branch, c.room = starts[s].room,
           c.pc \in Waiting => starts[s].pc \in Waiting,
           c.pc \in Started => starts[s].pc \in Started,
           disposals' \subseteq Stream, choices' \subseteq made, chat' \in Pane,
           UNCHANGED <<coreVars, backVars, current, active, verifier, textVars, viewVars, recons>>
    PROVE  IInv'
<1> USE DEF coreVars, backVars, textVars, viewVars
<1>1. TypeOK
  BY DEF IInv
<1>2. /\ starts' \in [Stream -> Command]
      /\ \A t \in Stream : starts'[t].pc \in Waiting => starts[t].pc \in Waiting
      /\ \A t \in Stream : StartedAt(t)'
      /\ current # None => starts'[current].room = starts[current].room
      /\ Len(Text) # 0 /\ Housed(current) =>
            RoomOf[starts'[current].branch] = starts'[current].room
  BY CommandFacts
<1>3. TypeOK'
  BY <1>1, <1>2, SameShapes DEF TypeOK
<1>4. Numbered'
  BY NumberedSame DEF IInv
<1>5. UsedOnce'
  BY UsedByCommand
<1>6. \A t \in Stream : (Listening(t)' => Listening(t)) /\ (Owns(t)' => Owns(t))
  BY <1>2 DEF Listening, Owns
<1>7. Lines'
  BY <1>6, LinesStay DEF IInv
<1>8. Written'
  BY <1>2, <1>6, WrittenStays DEF IInv, Housed
<1>9. Silenced'
  BY SilencedSame DEF IInv
<1>10. Placed'
  <2>1. \A t \in Stream : ReadAt(t)'
    BY DEF IInv, Placed, ReadAt
  <2> QED
    BY <1>2, <2>1, PlacedStays
<1> QED
  BY <1>3, <1>4, <1>5, <1>7, <1>8, <1>9, <1>10 DEF IInv

(* An answered fork selects a branch that exists. *)
LEMMA ForkReturnsStep ==
    ASSUME IInv, NEW s \in Stream, ForkReturns(s)
    PROVE  IInv'
<1>1. starts[s] \in Command /\ UsedAt(s) /\ starts[s].pc = "started"
  BY SilentStream DEF ForkReturns
<1>2. choices \cup {BranchOf(s)} \subseteq made /\ choices \subseteq made
  BY <1>1 DEF IInv, TypeOK, UsedAt, BranchOf
<1>3. chat \in Pane /\ disposals \subseteq Stream /\ WithDisposal(s) \subseteq Stream
  BY Epoch DEF IInv, TypeOK
<1>4. UNCHANGED <<coreVars, backVars, epochVars, textVars, viewVars, recons>>
  BY DEF ForkReturns
<1>5. CASE Owns(s)
  <2> DEFINE c == [starts[s] EXCEPT !.pc = "selecting"]
  <2>1. c \in Command /\ c.pc = "selecting" /\ c.branch = starts[s].branch
        /\ c.room = starts[s].room
    BY <1>1, CommandChanges
  <2>2. /\ starts' = [starts EXCEPT ![s] = c]
        /\ choices' = choices \cup {BranchOf(s)} /\ disposals' = disposals
    BY <1>5 DEF ForkReturns
  <2>3. starts[s].pc \in Waiting /\ starts[s].pc \in Started
    BY <1>1 DEF Waiting, Started
  <2> HIDE DEF c
  <2> QED
    BY <1>1, <1>2, <1>3, <1>4, <2>1, <2>2, <2>3, CommandStep DEF epochVars
<1>6. CASE ~Owns(s)
  <2> DEFINE c == [starts[s] EXCEPT !.pc = "over"]
  <2>1. c \in Command /\ c.pc = "over" /\ c.branch = starts[s].branch
        /\ c.room = starts[s].room
    BY <1>1, CommandChanges
  <2>2. /\ starts' = [starts EXCEPT ![s] = c]
        /\ choices' = choices /\ disposals' = WithDisposal(s)
    BY <1>6 DEF ForkReturns
  <2>3. c.pc \notin Waiting /\ c.pc \notin Started
    BY <2>1 DEF Waiting, Started
  <2> HIDE DEF c
  <2> QED
    BY <1>1, <1>2, <1>3, <1>4, <2>1, <2>2, <2>3, CommandStep DEF epochVars
<1> QED
  BY <1>5, <1>6

(* The verifier and the silence of a stream that is owned. *)
LEMMA OwnedFacts ==
    ASSUME IInv, NEW s \in Stream, Owns(s)
    PROVE  /\ ~InFlight /\ recons[s].pc = "none"
           /\ \A t \in Stream : current = t => t = s
<1>1. current = s /\ active = s /\ s # None
  BY StreamNumbers DEF Owns
<1>2. recons[s].pc = "none"
  BY <1>1 DEF IInv, Silenced, SilencedAt
<1> QED
  BY <1>1, <1>2 DEF InFlight

(* A reconciliation begins with the open room. *)
LEMMA ReconChanges ==
    /\ [NoRecon EXCEPT !.pc = "dispose", !.room = room].pc = "dispose"
    /\ [NoRecon EXCEPT !.pc = "dispose", !.room = room].room = room
    /\ room \in Rooms => [NoRecon EXCEPT !.pc = "dispose", !.room = room] \in Reconciliation
BY DEF NoRecon, Reconciliation, Place

(* A start that returns goes on listening, or has shown no text yet. *)
LEMMA StartReturnsStep ==
    ASSUME IInv, NEW s \in Stream, StartReturns(s)
    PROVE  IInv'
<1> DEFINE c == [starts[s] EXCEPT !.pc = "ready"]
<1>1. starts[s] \in Command /\ UsedAt(s) /\ CountAt(s) /\ starts[s].pc = "started"
  BY SilentStream DEF StartReturns
<1>2. c \in Command /\ c.pc = "ready" /\ c.branch = starts[s].branch /\ c.room = starts[s].room
  BY <1>1, CommandChanges
<1>3. starts' = [starts EXCEPT ![s] = c]
  BY DEF StartReturns
<1>4. starts[s].pc \in Waiting /\ c.pc \notin Waiting /\ starts[s].pc \in Started
  BY <1>1, <1>2 DEF Waiting, Started
<1> HIDE DEF c
<1>5. chat \in Pane /\ disposals \subseteq Stream /\ WithDisposal(s) \subseteq Stream
      /\ choices \subseteq made
  BY Epoch DEF IInv, TypeOK
<1>6. UNCHANGED <<coreVars, backVars, choices, current, verifier, textVars, viewVars>>
  BY DEF StartReturns
<1>7. CASE ~Owns(s)
  BY <1>1, <1>2, <1>3, <1>4, <1>5, <1>6, <1>7, CommandStep DEF StartReturns
<1>8. CASE Owns(s) /\ verifier.on
  <2>1. chat' \in Pane
    BY <1>8, StreamNumbers DEF StartReturns, Pane
  <2> QED
    BY <1>1, <1>2, <1>3, <1>4, <1>5, <1>6, <1>8, <2>1, CommandStep DEF StartReturns
<1>9. CASE Owns(s) /\ ~verifier.on
  <2> DEFINE x == [NoRecon EXCEPT !.pc = "dispose", !.room = room]
  <2>1. ~InFlight
    BY <1>9, OwnedFacts
  <2>2. active' = None /\ recons' = [recons EXCEPT ![s] = x] /\ disposals' = disposals
        /\ chat' = chat
    BY <1>9, <2>1 DEF StartReturns, Reconciling
  <2>3. TypeOK /\ room \in Rooms
    BY DEF IInv, TypeOK
  <2>4. x.pc = "dispose" /\ x.room = room /\ x \in Reconciliation
    BY <2>3, ReconChanges
  <2> HIDE DEF x
  <2>5. \A t \in Stream : recons'[t] = IF t = s THEN x ELSE recons[t]
    BY <2>2, <2>3 DEF TypeOK
  <2>6. /\ starts' \in [Stream -> Command]
        /\ \A t \in Stream : starts'[t].pc \in Waiting => starts[t].pc \in Waiting
        /\ \A t \in Stream : StartedAt(t)'
        /\ current # None => starts'[current].room = starts[current].room
        /\ Len(Text) # 0 /\ Housed(current) =>
              RoomOf[starts'[current].branch] = starts'[current].room
    BY <1>2, <1>3, <1>4, CommandFacts
  <2>7. TypeOK'
    <3>1. recons' \in [Stream -> Reconciliation]
      BY <2>2, <2>3, <2>4 DEF TypeOK
    <3>2. active' \in {0, current}
      BY <2>2 DEF None
    <3> USE DEF coreVars, backVars, textVars, viewVars
    <3> QED
      BY <1>6, <2>2, <2>3, <2>6, <3>1, <3>2, SameShapes DEF TypeOK
  <2>8. Numbered'
    BY <1>6, NumberedSame DEF IInv, coreVars
  <2>9. UsedOnce'
    BY <1>1, <1>2, <1>3, <1>6, <2>5, UsedByCommand DEF coreVars, backVars
  <2>10. \A t \in Stream : ~Owns(t)'
    BY <2>2, StreamNumbers DEF Owns
  <2>11. Lines'
    BY <1>6, <2>10, LinesStay DEF IInv, Listening, backVars
  <2>12. Written'
    BY <1>6, <2>6, <2>10, WrittenStays DEF IInv, Listening, textVars, Housed
  <2>13. pending = <<>>
    <3>1. Listening(s)
      BY <1>4, <1>9 DEF Listening
    <3>2. Len(Text) = 0
      BY <1>1, <1>4, <1>9, <3>1 DEF CountAt
    <3>3. painted \in Seq(Events) /\ pending \in Seq(Events)
      BY <2>3 DEF TypeOK
    <3> QED
      BY <3>2, <3>3 DEF Text
  <2>14. Silenced'
    <3> SUFFICES ASSUME NEW t \in Stream PROVE SilencedAt(t)'
      BY DEF Silenced
    <3>1. current = s
      BY <1>9 DEF Owns
    <3> QED
      BY <1>6, <2>2, <2>4, <2>5, <2>13, <3>1 DEF SilencedAt, textVars, viewVars
  <2>15. Placed'
    <3>1. \A t \in Stream : ReadAt(t)'
      <4> TAKE t \in Stream
      <4>1. ReadAt(t)
        BY DEF IInv, Placed
      <4> QED
        BY <2>3, <2>4, <2>5, <4>1 DEF ReadAt
    <3> QED
      BY <1>6, <2>6, <3>1, PlacedStays DEF coreVars, viewVars
  <2> QED
    BY <2>7, <2>8, <2>9, <2>11, <2>12, <2>14, <2>15 DEF IInv
<1> QED
  BY <1>7, <1>8, <1>9

(* A fork is shown in its own room, with a verifier that has seen nothing. *)
LEMMA ForkShownStep ==
    ASSUME IInv, NEW s \in Stream, ForkShown(s)
    PROVE  IInv'
<1> DEFINE c == [starts[s] EXCEPT !.pc = "ready"]
<1>1. starts[s] \in Command /\ UsedAt(s) /\ CountAt(s) /\ starts[s].pc = "selecting"
  BY SilentStream DEF ForkShown
<1>2. c \in Command /\ c.pc = "ready" /\ c.branch = starts[s].branch /\ starts[s].branch \in Place
      /\ c.room = starts[s].room
  BY <1>1, CommandChanges
<1>3. starts' = [starts EXCEPT ![s] = c]
  BY DEF ForkShown
<1>4. starts[s].pc \in Waiting /\ c.pc \notin Waiting /\ starts[s].pc \in Started
  BY <1>1, <1>2 DEF Waiting, Started
<1> HIDE DEF c
<1>5. chat \in Pane /\ disposals \subseteq Stream /\ WithDisposal(s) \subseteq Stream
      /\ choices \subseteq made
  BY Epoch DEF IInv, TypeOK
<1>6. UNCHANGED <<coreVars, backVars, choices, current, active, textVars, room, load, moves,
                  errands, recons>>
  BY DEF ForkShown
<1>7. CASE ~Owns(s)
  BY <1>1, <1>2, <1>3, <1>4, <1>5, <1>6, <1>7, CommandStep DEF ForkShown, viewVars
<1>8. CASE Owns(s)
  <2>1. /\ verifier' = [on |-> TRUE, last |-> 0] /\ view' = starts[s].branch
        /\ shown' = starts[s].branch /\ chat' = [phase |-> "ready", gen |-> s]
        /\ disposals' = disposals /\ stray' = NoStray
    BY <1>8 DEF ForkShown, BranchOf
  <2>2. verifier' \in Verifier /\ chat' \in Pane /\ verifier'.on /\ verifier'.last = 0
    BY <2>1, StreamNumbers DEF Verifier, Pane
  <2>3. verifier.last = 0 /\ Listening(s)
    BY <1>1, <1>4, <1>8 DEF CountAt, Listening
  <2>4. TypeOK
    BY DEF IInv
  <2>5. /\ starts' \in [Stream -> Command]
        /\ \A t \in Stream : starts'[t].pc \in Waiting => starts[t].pc \in Waiting
        /\ \A t \in Stream : StartedAt(t)'
        /\ current # None => starts'[current].room = starts[current].room
        /\ Len(Text) # 0 /\ Housed(current) =>
              RoomOf[starts'[current].branch] = starts'[current].room
    BY <1>2, <1>3, <1>4, CommandFacts
  <2>6. TypeOK'
    <3> USE DEF coreVars, backVars, textVars, viewVars
    <3> QED
      BY <1>2, <1>6, <2>1, <2>2, <2>4, <2>5, SameShapes, Constants DEF TypeOK
  <2>7. Numbered'
    BY <1>6, NumberedSame DEF IInv, coreVars
  <2>8. UsedOnce'
    BY <1>1, <1>2, <1>3, <1>6, UsedByCommand DEF coreVars, backVars
  <2>9. \A t \in Stream : Owns(t)' => Owns(t) /\ t = s
    BY <1>6, <1>8 DEF Owns
  <2>10. Lines'
    BY <1>6, <2>2, <2>3, <2>9, LinesStay DEF IInv, Listening, backVars
  <2>11. Written'
    <3>1. Written /\ Text' = Text /\ current' = current
      BY <1>6 DEF IInv, Text, textVars
    <3>2. Len(Text) = 0
      BY <1>1, <2>3 DEF CountAt
    <3>3. \A t \in Stream : CountAt(t)'
      BY <2>2, <3>1, <3>2 DEF CountAt
    <3> QED
      BY <2>2, <3>1, <3>2, <3>3 DEF Written
  <2>12. Silenced'
    BY <1>6, SilencedSame DEF IInv, textVars
  <2>13. Placed'
    <3>1. Placed
      BY DEF IInv
    <3>2. current = s /\ current # None
      BY <1>8, StreamNumbers DEF Owns
    <3>3. RoomOf[starts[s].branch] = room
      BY <1>4, <3>1, <3>2 DEF Placed, StartedAt, Housed
    <3>4. Shown'
      BY <1>6, <2>1, <3>3 DEF Shown
    <3>5. LoadPlaced' /\ (\A e \in Errand : SentAt(e)') /\ (\A t \in Stream : ReadAt(t)')
      BY <1>6, <3>1 DEF Placed, LoadPlaced, SentAt, ReadAt, coreVars
    <3> QED
      BY <1>6, <2>5, <3>1, <3>2, <3>4, <3>5 DEF Placed, coreVars
  <2> QED
    BY <2>6, <2>7, <2>8, <2>10, <2>11, <2>12, <2>13 DEF IInv
<1> QED
  BY <1>7, <1>8

(* A beginning of the text is a text too. *)
LEMMA PaintedText ==
    ASSUME TypeOK, TextOf(Text, current)
    PROVE  TextOf(painted, current) /\ (Len(painted) # 0 => Len(Text) # 0)
<1>1. painted \in Seq(Events) /\ pending \in Seq(Events)
  BY DEF TypeOK
<1>2. Len(painted) \in Nat /\ Len(pending) \in Nat /\ Len(Text) = Len(painted) + Len(pending)
      /\ \A i \in 1..Len(painted) : Text[i] = painted[i]
  BY <1>1 DEF Text
<1>3. \A i \in 1..Len(painted) : i \in 1..Len(Text)
  BY <1>2
<1> QED
  BY <1>2, <1>3 DEF TextOf

(* No text adds nothing. *)
LEMMA NoText ==
    ASSUME NEW p \in Seq(Events)
    PROVE  p \o <<>> = p /\ <<>> \o p = p /\ <<>> \in Seq(Events)
BY DEF Events

(* A start that fails silences its stream and drops the pending text. *)
LEMMA StartThrowsStep ==
    ASSUME IInv, NEW s \in Stream, StartThrows(s)
    PROVE  IInv'
<1> DEFINE c == [starts[s] EXCEPT !.pc = "over"]
<1>1. starts[s] \in Command /\ UsedAt(s) /\ CountAt(s) /\ starts[s].pc # "none"
  BY SilentStream DEF StartThrows
<1>2. c \in Command /\ c.pc = "over" /\ c.branch = starts[s].branch /\ c.room = starts[s].room
  BY <1>1, CommandChanges
<1>3. starts' = [starts EXCEPT ![s] = c]
  BY DEF StartThrows
<1>4. c.pc \notin Waiting /\ c.pc \notin Started
  BY <1>2 DEF Waiting, Started
<1> HIDE DEF c
<1>5. chat \in Pane /\ WithDisposal(s) \subseteq Stream /\ choices \subseteq made
  BY Epoch DEF IInv, TypeOK
<1>6. UNCHANGED <<coreVars, backVars, choices, current, verifier, painted, viewVars, recons>>
      /\ disposals' = WithDisposal(s)
  BY DEF StartThrows
<1>7. TypeOK /\ Written
  BY DEF IInv
<1>8. CASE current # s
  <2>1. active # s /\ UNCHANGED <<chat, pending, active>>
    BY <1>7, <1>8, Epoch, StreamNumbers DEF StartThrows
  <2> QED
    BY <1>1, <1>2, <1>3, <1>4, <1>5, <1>6, <2>1, CommandStep DEF textVars
<1>9. CASE current = s
  <2>1. active' = None /\ chat' = [phase |-> "error", gen |-> None] /\ pending' = <<>>
    BY <1>7, <1>9, Epoch DEF StartThrows
  <2>2. chat' \in Pane /\ active' \in {0, current}
    BY <2>1, StreamAssumption DEF Pane, None
  <2>3. painted \in Seq(Events) /\ pending' \in Seq(Events) /\ Text' = painted
    BY <1>6, <1>7, <2>1, NoText DEF TypeOK, Text
  <2>4. /\ starts' \in [Stream -> Command]
        /\ \A t \in Stream : StartedAt(t)'
        /\ current # None => starts'[current].room = starts[current].room
        /\ Len(Text) # 0 /\ Housed(current) =>
              RoomOf[starts'[current].branch] = starts'[current].room
    BY <1>2, <1>3, <1>4, CommandFacts
  <2>5. TypeOK'
    <3> USE DEF coreVars, backVars, viewVars
    <3> QED
      BY <1>5, <1>6, <1>7, <2>2, <2>3, <2>4, SameShapes DEF TypeOK
  <2>6. Numbered'
    BY <1>6, NumberedSame DEF IInv, coreVars
  <2>7. UsedOnce'
    BY <1>1, <1>2, <1>3, <1>6, UsedByCommand DEF coreVars, backVars
  <2>8. \A t \in Stream : ~Owns(t)'
    BY <2>1, StreamNumbers DEF Owns
  <2>9. Lines'
    BY <1>6, <2>8, LinesStay DEF IInv, Listening, backVars
  <2>10. Written'
    <3>1. TextOf(painted, current) /\ (Len(painted) # 0 => Len(Text) # 0)
      BY <1>7, PaintedText DEF Written
    <3>2. Len(Text') # 0 => Housed(current)'
      BY <1>6, <1>7, <2>3, <2>4, <3>1 DEF Written, Housed
    <3> QED
      BY <1>6, <1>7, <2>3, <2>8, <3>1, <3>2 DEF Written, CountAt, Listening
  <2>11. Silenced'
    BY <1>6, <2>1 DEF IInv, Silenced, SilencedAt, viewVars
  <2>12. Placed'
    <3>1. \A t \in Stream : ReadAt(t)'
      BY <1>6 DEF IInv, Placed, ReadAt
    <3> QED
      BY <1>6, <2>4, <3>1, PlacedStays DEF coreVars, viewVars
  <2> QED
    BY <2>5, <2>6, <2>7, <2>9, <2>10, <2>11, <2>12 DEF IInv
<1> QED
  BY <1>8, <1>9

(* The line without its first item. *)
LEMMA OneLess ==
    ASSUME NEW q \in Seq(Events \cup {Reconcile}), q # <<>>, NEW s \in Stream, InLine(q, s)
    PROVE  /\ Tail(q) \in Seq(Events \cup {Reconcile})
           /\ Head(q) \in Events \cup {Reconcile} /\ Head(q) = q[1]
           /\ InLine(Tail(q), s)
           /\ \A n \in Nat : EndsWith(q, n) => EndsWith(Tail(q), n)
           /\ Tail(q) = <<>> => q[Len(q)] = q[1]
           /\ Tail(q) # <<>> => q[1] # Reconcile
           /\ Tail(q) # <<>> /\ Tail(q)[1] # Reconcile => Tail(q)[1].seq = q[1].seq + 1
           /\ q[1] # Reconcile => q[1].gen = s
<1> DEFINE p == Tail(q)
<1>1. /\ p \in Seq(Events \cup {Reconcile}) /\ Len(q) \in Nat \ {0} /\ Len(p) = Len(q) - 1
      /\ Head(q) = q[1] /\ q[1] \in Events \cup {Reconcile}
      /\ \A i \in 1..Len(p) : p[i] = q[i + 1]
  OBVIOUS
<1>2. p = <<>> <=> Len(p) = 0
  BY <1>1
<1> HIDE DEF p
<1>3. \A i \in 1..Len(p) : i + 1 \in 1..Len(q) /\ i + 1 > 1 /\ (i + 1) - 1 = i
  BY <1>1
<1>4. InLine(p, s)
  <2> SUFFICES ASSUME NEW i \in 1..Len(p)
               PROVE  /\ p[i] = Reconcile => i = Len(p)
                      /\ p[i] # Reconcile => p[i].gen = s
                      /\ i > 1 /\ p[i] # Reconcile => p[i].seq = p[i - 1].seq + 1
    BY DEF InLine
  <2>1. p[i] = q[i + 1] /\ i + 1 \in 1..Len(q) /\ (i + 1 = Len(q) => i = Len(p))
    BY <1>1, <1>3
  <2>2. i > 1 => p[i - 1] = q[i]
    BY <1>1
  <2>3. p[i] # Reconcile => p[i].seq = q[i].seq + 1
    BY <1>3, <2>1 DEF InLine
  <2> QED
    BY <2>1, <2>2, <2>3 DEF InLine
<1>5. \A n \in Nat : EndsWith(q, n) => EndsWith(p, n)
  BY <1>1, <1>2 DEF EndsWith
<1>6. p = <<>> => q[Len(q)] = q[1]
  <2>1. p = <<>> => Len(q) = 1
    BY <1>1, <1>2
  <2> QED
    BY <2>1
<1>7. 1 \in 1..Len(q) /\ (p # <<>> => 1 \in 1..Len(p) /\ 1 # Len(q))
  BY <1>1, <1>2
<1>8. p # <<>> => q[1] # Reconcile
  BY <1>7 DEF InLine
<1>9. p # <<>> /\ p[1] # Reconcile => p[1].seq = q[1].seq + 1
  <2> SUFFICES ASSUME p # <<>>, p[1] # Reconcile PROVE p[1].seq = q[1].seq + 1
    OBVIOUS
  <2>1. p[1] = q[2] /\ 2 \in 1..Len(q) /\ 2 - 1 = 1
    BY <1>1, <1>7
  <2> QED
    BY <2>1 DEF InLine
<1>10. q[1] # Reconcile => q[1].gen = s
  BY <1>7 DEF InLine
<1> QED
  BY <1>1, <1>4, <1>5, <1>6, <1>8, <1>9, <1>10 DEF p

(* What one delivery leaves in the channel. *)
LEMMA DeliverFacts ==
    ASSUME IInv, NEW s \in Stream, Deliver(s), UNCHANGED <<streams, starts, made>>,
           UNCHANGED <<current, recons>> \/ (current' = current /\ starts[s].pc # "none" /\
              \A t \in Stream : t # s => recons'[t] = recons[t])
    PROVE  /\ channel' \in [Stream -> Seq(Events \cup {Reconcile})]
           /\ \A t \in Stream : t # s => channel'[t] = channel[t]
           /\ channel'[s] = Tail(channel[s]) /\ channel[s] # <<>>
           /\ channel[s] \in Seq(Events \cup {Reconcile})
           /\ InLine(channel[s], s)
           /\ Forwarded(s)'
           /\ UsedOnce'
<1>1. channel[s] # <<>> /\ channel' = [channel EXCEPT ![s] = Tail(channel[s])]
  BY DEF Deliver
<1>2. /\ channel \in [Stream -> Seq(Events \cup {Reconcile})]
      /\ channel[s] \in Seq(Events \cup {Reconcile}) /\ streams[s] \in Receiver
  BY DEF IInv, TypeOK
<1>3. UsedAt(s) /\ LineAt(s)
  BY SilentStream
<1>4. InLine(channel[s], s) /\ (streams[s].pc # "gone" => EndsWith(channel[s], streams[s].last))
  BY <1>3 DEF LineAt, Forwarded
<1>5. Tail(channel[s]) \in Seq(Events \cup {Reconcile}) /\ InLine(Tail(channel[s]), s)
      /\ \A n \in Nat : EndsWith(channel[s], n) => EndsWith(Tail(channel[s]), n)
  BY <1>1, <1>2, <1>4, OneLess
<1>6. channel' \in [Stream -> Seq(Events \cup {Reconcile})]
  BY <1>1, <1>2, <1>5
<1>7. channel'[s] = Tail(channel[s]) /\ \A t \in Stream : t # s => channel'[t] = channel[t]
  BY <1>1, <1>2
<1>8. streams[s].last \in Nat
  BY <1>2, ReceiverChanges
<1>9. Forwarded(s)'
  BY <1>4, <1>5, <1>7, <1>8 DEF Forwarded
<1>10. UsedOnce'
  <2> SUFFICES ASSUME NEW t \in Stream PROVE UsedAt(t)'
    BY DEF UsedOnce
  <2>1. UsedAt(t)
    BY DEF IInv, UsedOnce
  <2>2. CASE t # s
    BY <1>7, <2>1, <2>2, UsedFrame
  <2>3. CASE t = s
    BY <1>1, <1>3, <2>3 DEF UsedAt, Fresh
  <2> QED
    BY <2>2, <2>3
<1> QED
  BY <1>1, <1>2, <1>4, <1>6, <1>7, <1>9, <1>10

(* An item nobody listens to is dropped from its line. *)
LEMMA DropItemStep ==
    ASSUME IInv, NEW s \in Stream, DropItem(s)
    PROVE  IInv'
<1>1. UNCHANGED <<coreVars, streams, starts, choices, epochVars, textVars, viewVars, recons>>
      /\ disposals' = WithDisposal(s) /\ ~Owns(s) /\ Deliver(s)
  BY DEF DropItem
<1> USE DEF coreVars, epochVars, textVars, viewVars
<1>2. /\ channel' \in [Stream -> Seq(Events \cup {Reconcile})]
      /\ \A t \in Stream : t # s => channel'[t] = channel[t]
      /\ Forwarded(s)' /\ UsedOnce'
  BY <1>1, DeliverFacts
<1>3. TypeOK /\ WithDisposal(s) \subseteq Stream
  BY Epoch DEF IInv
<1>4. TypeOK'
  BY <1>1, <1>2, <1>3, SameShapes DEF TypeOK
<1>5. Numbered'
  BY <1>1, NumberedSame DEF IInv
<1>6. Lines'
  <2> SUFFICES ASSUME NEW t \in Stream PROVE LineAt(t)'
    BY DEF Lines
  <2>1. LineAt(t)
    BY DEF IInv, Lines
  <2>2. Listening(t)' => Listening(t)
    BY <1>1 DEF Listening, Owns
  <2>3. CASE t # s
    BY <1>1, <1>2, <2>1, <2>2, <2>3, LineFrame
  <2>4. CASE t = s
    BY <1>1, <1>2, <2>2, <2>4 DEF LineAt, Listening
  <2> QED
    BY <2>3, <2>4
<1>7. Written'
  BY <1>1, WrittenSame DEF IInv
<1>8. Silenced'
  BY <1>1, SilencedSame DEF IInv
<1>9. Placed'
  BY <1>1, PlacedSame DEF IInv
<1> QED
  BY <1>2, <1>4, <1>5, <1>6, <1>7, <1>8, <1>9 DEF IInv

(* The verifier takes the next delta: line, number and text move together. *)
LEMMA ApplyDeltaStep ==
    ASSUME IInv, NEW s \in Stream, ApplyDelta(s)
    PROVE  IInv'
<1> DEFINE event == Head(channel[s])
<1>1. /\ UNCHANGED <<coreVars, streams, callVars, current, active, chat, painted, viewVars,
                      recons>>
      /\ Owns(s) /\ Deliver(s) /\ starts[s].pc = "ready"
  BY DEF ApplyDelta
<1> USE DEF coreVars, viewVars, callVars
<1>2. /\ channel' \in [Stream -> Seq(Events \cup {Reconcile})]
      /\ \A t \in Stream : t # s => channel'[t] = channel[t]
      /\ channel'[s] = Tail(channel[s]) /\ channel[s] # <<>>
      /\ channel[s] \in Seq(Events \cup {Reconcile}) /\ InLine(channel[s], s)
      /\ Forwarded(s)' /\ UsedOnce'
  BY <1>1, DeliverFacts
<1>3. TypeOK /\ Written /\ LineAt(s) /\ StartedAt(s)
  BY DEF IInv, Lines, Placed
<1>4. Numbered'
  BY <1>1, NumberedSame DEF IInv
<1>5. Placed'
  BY <1>1, PlacedSame DEF IInv
<1>6. recons[s].pc = "none" /\ current = s
  BY <1>1, OwnedFacts DEF Owns
<1>7. Silenced'
  <2> SUFFICES ASSUME NEW t \in Stream PROVE SilencedAt(t)'
    BY DEF Silenced
  <2>1. recons'[t].pc # "none" => current' # t
    BY <1>1, <1>6
  <2> QED
    BY <2>1 DEF SilencedAt
<1>8. starts[s].pc \notin Waiting
  BY <1>1 DEF Waiting
<1>9. \A t \in Stream : Owns(t)' => t = s
  BY <1>1, <1>6 DEF Owns
<1>10. CASE ~verifier.on /\ UNCHANGED <<verifier, pending>>
  <2>1. TypeOK'
    BY <1>1, <1>2, <1>3, <1>10, SameShapes DEF TypeOK
  <2>2. \A t \in Stream : ~Listening(t)'
    BY <1>1, <1>8, <1>9, <1>10 DEF Listening
  <2>3. Lines'
    <3> SUFFICES ASSUME NEW t \in Stream PROVE LineAt(t)'
      BY DEF Lines
    <3>1. LineAt(t)
      BY DEF IInv, Lines
    <3>2. CASE t # s
      BY <1>1, <1>2, <2>2, <3>1, <3>2, LineFrame
    <3>3. CASE t = s
      BY <1>2, <2>2, <3>3 DEF LineAt
    <3> QED
      BY <3>2, <3>3
  <2>4. Written'
    BY <1>1, <1>10, WrittenSame DEF IInv
  <2> QED
    BY <1>2, <1>4, <1>5, <1>7, <2>1, <2>3, <2>4 DEF IInv
<1>11. CASE /\ verifier.on /\ IsNext(event)
            /\ verifier' = [verifier EXCEPT !.last = event.seq]
            /\ pending' = Append(pending, event)
  <2> DEFINE n == verifier.last
             q == channel[s]
  <2>1. n \in Nat /\ verifier \in Verifier /\ Listening(s)
    BY <1>1, <1>3, <1>11, Epoch DEF TypeOK, Listening
  <2>2. /\ event \in Events \cup {Reconcile} /\ event = q[1]
        /\ Tail(q) = <<>> => q[Len(q)] = q[1]
        /\ Tail(q) # <<>> /\ Tail(q)[1] # Reconcile => Tail(q)[1].seq = q[1].seq + 1
        /\ q[1] # Reconcile => q[1].gen = s
    BY <1>2, OneLess
  <2>3. event.kind = "delta" /\ event.seq = n + 1
    BY <1>11 DEF IsNext
  <2>4. event \in Events /\ event # Reconcile
    BY <2>2, <2>3 DEF Reconcile
  <2>5. event.gen = s
    BY <2>2, <2>4
  <2>6. event = Delta(s, n + 1)
    BY <2>3, <2>4, <2>5, EventShape
  <2>7. /\ Len(Text) = n /\ painted \in Seq(Events) /\ pending \in Seq(Events)
        /\ \A i \in 1..Len(Text) : Text[i] = Delta(current, i)
    BY <1>3, <2>1 DEF TypeOK, Written, CountAt, TextOf
  <2> HIDE DEF event
  <2>8. /\ pending' \in Seq(Events) /\ Text' = Append(Text, event) /\ Text \in Seq(Events)
    BY <1>1, <1>11, <2>4, <2>7 DEF Text
  <2>9. verifier' \in Verifier /\ verifier'.on /\ verifier'.last = n + 1
    BY <1>11, <2>1, <2>3 DEF Verifier
  <2>10. TypeOK'
    BY <1>1, <1>2, <1>3, <2>8, <2>9, SameShapes DEF TypeOK
  <2>11. Len(Text') = n + 1 /\ \A i \in 1..Len(Text') : Text'[i] = Delta(current, i)
    <3>1. Len(Text') = n + 1 /\ Text'[n + 1] = event
          /\ \A i \in 1..n : Text'[i] = Text[i]
      BY <2>1, <2>7, <2>8
    <3>2. \A i \in 1..(n + 1) : i \in 1..n \/ i = n + 1
      BY <2>1
    <3> HIDE DEF n
    <3> QED
      BY <1>6, <2>6, <2>7, <3>1, <3>2
  <2>12. Written'
    <3>1. \A t \in Stream : CountAt(t)'
      BY <1>1, <1>8, <1>9, <2>9, <2>11 DEF CountAt
    <3>2. Housed(current)'
      BY <1>1, <1>3, <1>6 DEF StartedAt, Started, Housed
    <3> QED
      BY <1>1, <2>9, <2>11, <3>1, <3>2 DEF Written, TextOf
  <2>13. Lines'
    <3> SUFFICES ASSUME NEW t \in Stream PROVE LineAt(t)'
      BY DEF Lines
    <3>1. LineAt(t)
      BY DEF IInv, Lines
    <3>2. CASE t # s
      BY <1>1, <1>2, <1>9, <3>1, <3>2, LineFrame DEF Listening
    <3>3. CASE t = s
      <4>1. streams[s].pc # "gone" /\ Tail(q) = <<>> => streams[s].last = n + 1
        BY <1>2, <1>3, <2>2, <2>3 DEF LineAt, Forwarded, EndsWith
      <4>2. BeginsAfter(Tail(q), n + 1)
        BY <2>2, <2>3 DEF BeginsAfter
      <4> HIDE DEF n
      <4>3. Continues(s)'
        BY <1>1, <1>2, <2>9, <4>1, <4>2 DEF Continues
      <4> QED
        BY <1>2, <3>3, <4>3 DEF LineAt
    <3> QED
      BY <3>2, <3>3
  <2> QED
    BY <1>2, <1>4, <1>5, <1>7, <2>10, <2>12, <2>13 DEF IInv
<1> QED
  BY <1>10, <1>11 DEF ApplyDelta

(* A reconciliation silences its stream and drops the pending text. *)
LEMMA BeginReconcileStep ==
    ASSUME IInv, NEW s \in Stream, BeginReconcile(s)
    PROVE  IInv'
<1> DEFINE x == [NoRecon EXCEPT !.pc = "dispose", !.room = room]
<1>1. /\ UNCHANGED <<coreVars, streams, callVars, current, verifier, chat, painted, viewVars>>
      /\ Owns(s) /\ Deliver(s) /\ starts[s].pc = "ready" /\ pending' = <<>>
  BY DEF BeginReconcile
<1>2. ~InFlight /\ current = s
  BY <1>1, OwnedFacts DEF Owns
<1>3. active' = None /\ recons' = [recons EXCEPT ![s] = x]
  BY <1>2 DEF BeginReconcile, Reconciling
<1>4. TypeOK /\ room \in Rooms /\ Written
  BY DEF IInv, TypeOK
<1>5. x.pc = "dispose" /\ x.room = room /\ x \in Reconciliation
  BY <1>4, ReconChanges
<1> HIDE DEF x
<1> USE DEF coreVars, viewVars, callVars
<1>6. \A t \in Stream : recons'[t] = IF t = s THEN x ELSE recons[t]
  BY <1>3, <1>4 DEF TypeOK
<1>7. /\ channel' \in [Stream -> Seq(Events \cup {Reconcile})]
      /\ \A t \in Stream : t # s => channel'[t] = channel[t]
      /\ Forwarded(s)' /\ UsedOnce'
  BY <1>1, <1>6, DeliverFacts
<1>8. TypeOK'
  <2>1. recons' \in [Stream -> Reconciliation]
    BY <1>3, <1>4, <1>5 DEF TypeOK
  <2>2. active' \in {0, current} /\ pending' \in Seq(Events)
    BY <1>1, <1>3 DEF None
  <2> QED
    BY <1>1, <1>4, <1>7, <2>1, <2>2, SameShapes DEF TypeOK
<1>9. Numbered'
  BY <1>1, NumberedSame DEF IInv
<1>10. \A t \in Stream : ~Owns(t)'
  BY <1>3, StreamNumbers DEF Owns
<1>11. Lines'
  <2> SUFFICES ASSUME NEW t \in Stream PROVE LineAt(t)'
    BY DEF Lines
  <2>1. LineAt(t)
    BY DEF IInv, Lines
  <2>2. CASE t # s
    BY <1>1, <1>7, <1>10, <2>1, <2>2, LineFrame DEF Listening
  <2>3. CASE t = s
    BY <1>7, <1>10, <2>3 DEF LineAt, Listening
  <2> QED
    BY <2>2, <2>3
<1>12. Written'
  <2>1. TextOf(painted, current) /\ (Len(painted) # 0 => Len(Text) # 0)
    BY <1>4, PaintedText DEF Written
  <2>2. Text' = painted
    BY <1>1, <1>4, NoText DEF TypeOK, Text
  <2> QED
    BY <1>1, <1>4, <1>10, <2>1, <2>2 DEF Written, CountAt, Listening, Housed
<1>13. Silenced'
  BY <1>1, <1>2, <1>3, <1>5, <1>6 DEF Silenced, SilencedAt
<1>14. Placed'
  <2>1. \A t \in Stream : ReadAt(t)'
    <3> TAKE t \in Stream
    <3>1. ReadAt(t)
      BY DEF IInv, Placed
    <3> QED
      BY <1>4, <1>5, <1>6, <3>1 DEF ReadAt
  <2>2. \A t \in Stream : StartedAt(t)'
    BY <1>1 DEF IInv, Placed, StartedAt, Housed
  <2> QED
    BY <1>1, <2>1, <2>2, PlacedStays
<1> QED
  BY <1>7, <1>8, <1>9, <1>11, <1>12, <1>13, <1>14 DEF IInv

(* The disposal is done. *)
LEMMA ReconEdits ==
    ASSUME NEW x \in Reconciliation
    PROVE  /\ x.branch \in Place
           /\ [x EXCEPT !.pc = "read"] \in Reconciliation
           /\ [x EXCEPT !.pc = "read"].pc = "read"
           /\ [x EXCEPT !.pc = "read"].room = x.room
BY DEF Reconciliation

(* The selected branch is read. *)
LEMMA ReconReads ==
    ASSUME NEW x \in Reconciliation, NEW b \in Place
    PROVE  /\ [x EXCEPT !.pc = "list", !.branch = b] \in Reconciliation
           /\ [x EXCEPT !.pc = "list", !.branch = b].pc = "list"
           /\ [x EXCEPT !.pc = "list", !.branch = b].branch = b
           /\ [x EXCEPT !.pc = "list", !.branch = b].room = x.room
BY DEF Reconciliation

(* The messages are read. *)
LEMMA ReconLists ==
    ASSUME NEW x \in Reconciliation, NEW f \in BOOLEAN
    PROVE  /\ [x EXCEPT !.pc = "apply", !.running = f] \in Reconciliation
           /\ [x EXCEPT !.pc = "apply", !.running = f].pc = "apply"
           /\ [x EXCEPT !.pc = "apply", !.running = f].branch = x.branch
           /\ [x EXCEPT !.pc = "apply", !.running = f].room = x.room
BY DEF Reconciliation

(* A reconciliation goes on, or ends. *)
LEMMA ReconFacts ==
    ASSUME IInv, NEW s \in Stream, NEW x \in Reconciliation, recons[s].pc # "none",
           recons' = [recons EXCEPT ![s] = x],
           UNCHANGED <<starts, channel, current, made, room, active>>,
           pending' = pending,
           \A t \in Stream : t # s => streams'[t] = streams[t],
           streams'[s].pc = streams[s].pc, streams'[s].last = streams[s].last,
           x.pc # "none" => x.room = recons[s].room,
           x.pc \in {"list", "apply"} => RoomOf[x.branch] = x.room
    PROVE  /\ recons' \in [Stream -> Reconciliation]
           /\ UsedOnce' /\ Silenced'
           /\ \A t \in Stream : ReadAt(t)' /\ StartedAt(t)'
<1>1. recons' \in [Stream -> Reconciliation]
      /\ \A t \in Stream : recons'[t] = IF t = s THEN x ELSE recons[t]
  BY DEF IInv, TypeOK
<1>2. UsedAt(s) /\ SilencedAt(s) /\ ReadAt(s)
  BY SilentStream
<1>3. starts[s].pc # "none"
  BY <1>2, Fields DEF UsedAt, Fresh
<1>4. UsedOnce'
  <2> SUFFICES ASSUME NEW t \in Stream PROVE UsedAt(t)'
    BY DEF UsedOnce
  <2>1. UsedAt(t)
    BY DEF IInv, UsedOnce
  <2>2. CASE t # s
    BY <1>1, <2>1, <2>2, UsedFrame
  <2>3. CASE t = s
    BY <1>3, <2>1, <2>3 DEF UsedAt
  <2> QED
    BY <2>2, <2>3
<1>5. Silenced'
  <2> SUFFICES ASSUME NEW t \in Stream PROVE SilencedAt(t)'
    BY DEF Silenced
  <2>1. SilencedAt(t)
    BY DEF IInv, Silenced
  <2>2. CASE t # s
    BY <1>1, <2>1, <2>2, SilentFrame
  <2>3. CASE t = s
    BY <1>1, <2>1, <2>3 DEF SilencedAt
  <2> QED
    BY <2>2, <2>3
<1>6. \A t \in Stream : ReadAt(t)'
  <2> TAKE t \in Stream
  <2>1. ReadAt(t)
    BY DEF IInv, Placed
  <2> QED
    BY <1>1, <1>2, <2>1 DEF ReadAt
<1>7. \A t \in Stream : StartedAt(t)'
  BY DEF IInv, Placed, StartedAt, Housed
<1> QED
  BY <1>1, <1>4, <1>5, <1>6, <1>7

(* A reconciliation goes on without touching the screen. *)
LEMMA ReconStep ==
    ASSUME IInv, NEW s \in Stream, NEW x \in Reconciliation, recons[s].pc # "none",
           recons' = [recons EXCEPT ![s] = x],
           UNCHANGED <<coreVars, channel, callVars, current, active, verifier, textVars, viewVars>>,
           chat' \in Pane, streams' \in [Stream -> Receiver],
           \A t \in Stream : t # s => streams'[t] = streams[t],
           streams'[s].pc = streams[s].pc, streams'[s].last = streams[s].last,
           x.pc # "none" => x.room = recons[s].room,
           x.pc \in {"list", "apply"} => RoomOf[x.branch] = x.room
    PROVE  IInv'
<1> USE DEF coreVars, callVars, textVars, viewVars
<1>1. /\ recons' \in [Stream -> Reconciliation]
      /\ UsedOnce' /\ Silenced'
      /\ \A t \in Stream : ReadAt(t)' /\ StartedAt(t)'
  BY ReconFacts
<1>2. TypeOK
  BY DEF IInv
<1>3. TypeOK'
  BY <1>1, <1>2, SameShapes DEF TypeOK
<1>4. Numbered'
  BY NumberedSame DEF IInv
<1>5. Lines'
  <2> SUFFICES ASSUME NEW t \in Stream PROVE LineAt(t)'
    BY DEF Lines
  <2>1. LineAt(t)
    BY DEF IInv, Lines
  <2>2. Listening(t)' => Listening(t)
    BY DEF Listening, Owns
  <2>3. streams'[t].pc = streams[t].pc /\ streams'[t].last = streams[t].last
    OBVIOUS
  <2> QED
    BY <2>1, <2>2, <2>3, LineFrame
<1>6. Written'
  BY WrittenSame DEF IInv
<1>7. Placed'
  BY <1>1, PlacedStays
<1> QED
  BY <1>1, <1>3, <1>4, <1>5, <1>6, <1>7 DEF IInv

(* The disposal of a reconciliation touches nothing that is shown. *)
LEMMA ReconcileDisposesStep ==
    ASSUME IInv, NEW s \in Stream, ReconcileDisposes(s)
    PROVE  IInv'
<1> DEFINE x == IF current = s THEN [recons[s] EXCEPT !.pc = "read"] ELSE NoRecon
<1>1. /\ UNCHANGED <<coreVars, channel, callVars, epochVars, textVars, viewVars>>
      /\ recons[s].pc = "dispose" /\ recons' = [recons EXCEPT ![s] = x]
      /\ streams' = Disposed(s)
  BY DEF ReconcileDisposes
<1>2. recons[s] \in Reconciliation /\ chat \in Pane /\ streams \in [Stream -> Receiver]
  BY DEF IInv, TypeOK
<1>3. /\ x \in Reconciliation
      /\ x.pc # "none" => x.room = recons[s].room
      /\ x.pc \notin {"list", "apply"}
  <2>1. CASE current = s
    BY <1>2, <2>1, ReconEdits
  <2>2. CASE current # s
    BY <2>2, Constants, Fields
  <2> QED
    BY <2>1, <2>2
<1> HIDE DEF x
<1>4. PICK r \in Receiver :
              /\ Disposed(s) = [streams EXCEPT ![s] = r]
              /\ r.pc = streams[s].pc /\ r.last = streams[s].last
  BY Marked
<1>5. /\ streams' \in [Stream -> Receiver]
      /\ \A t \in Stream : t # s => streams'[t] = streams[t]
      /\ streams'[s].pc = streams[s].pc /\ streams'[s].last = streams[s].last
  BY <1>1, <1>2, <1>4
<1> QED
  BY <1>1, <1>2, <1>3, <1>5, ReconStep DEF epochVars

(* What a reconciliation reads belongs to its room. *)
LEMMA ReconcileReadsStep ==
    ASSUME IInv, NEW s \in Stream, ReconcileReads(s)
    PROVE  IInv'
<1>1. UNCHANGED <<coreVars, backVars, callVars, epochVars, textVars, viewVars>>
  BY DEF ReconcileReads
<1>2. /\ recons[s] \in Reconciliation /\ chat \in Pane /\ streams \in [Stream -> Receiver]
      /\ selected \in [Rooms -> made] /\ ReadAt(s)
      /\ \A r \in Rooms : RoomOf[selected[r]] = r
  BY DEF IInv, TypeOK, Placed
<1>3. /\ streams' \in [Stream -> Receiver] /\ chat' \in Pane
      /\ UNCHANGED <<channel, current, active, verifier>> /\ streams' = streams
  BY <1>1, <1>2 DEF backVars, epochVars
<1>4. CASE /\ recons[s].pc = "read"
           /\ recons' = [recons EXCEPT ![s].pc = "list",
                           ![s].branch = selected[recons[s].room]]
  <2> DEFINE b == selected[recons[s].room]
             x == [recons[s] EXCEPT !.pc = "list", !.branch = b]
  <2>1. recons[s].room \in Rooms
    BY <1>2, <1>4 DEF ReadAt
  <2>2. b \in Place /\ RoomOf[b] = recons[s].room
    BY <1>2, <2>1 DEF Place
  <2>3. recons' = [recons EXCEPT ![s] = x]
    BY <1>4
  <2> HIDE DEF b
  <2>4. x \in Reconciliation /\ x.pc = "list" /\ x.branch = b /\ x.room = recons[s].room
    BY <1>2, <2>2, ReconReads
  <2> HIDE DEF x
  <2> QED
    BY <1>1, <1>3, <1>4, <2>2, <2>3, <2>4, ReconStep
<1>5. CASE /\ recons[s].pc = "list"
           /\ recons' = [recons EXCEPT ![s].pc = "apply",
                           ![s].running = Running(s, recons[s].branch)]
  <2> DEFINE f == Running(s, recons[s].branch)
             x == [recons[s] EXCEPT !.pc = "apply", !.running = f]
  <2>1. RoomOf[recons[s].branch] = recons[s].room
    BY <1>2, <1>5 DEF ReadAt
  <2>2. f \in BOOLEAN
    BY DEF Running
  <2>3. recons' = [recons EXCEPT ![s] = x]
    BY <1>5
  <2> HIDE DEF f
  <2>4. x \in Reconciliation /\ x.pc = "apply" /\ x.branch = recons[s].branch
        /\ x.room = recons[s].room
    <3>1. x \in Reconciliation
      BY <1>2, <2>2, ReconLists
    <3>2. x.pc = "apply"
      BY <1>2 DEF Reconciliation
    <3>3. x.branch = recons[s].branch
      BY <1>2, <2>2, ReconLists
    <3>4. x.room = recons[s].room
      BY <1>2, <2>2, ReconLists
    <3> QED
      BY <3>1, <3>2, <3>3, <3>4
  <2> HIDE DEF x
  <2> QED
    BY <1>1, <1>3, <1>5, <2>1, <2>3, <2>4, ReconStep
<1> QED
  BY <1>4, <1>5 DEF ReconcileReads

(* A reconciliation that fails ends. *)
LEMMA ReconcileThrowsStep ==
    ASSUME IInv, NEW s \in Stream, ReconcileThrows(s)
    PROVE  IInv'
<1>1. /\ UNCHANGED <<coreVars, backVars, callVars, current, active, verifier, textVars, viewVars>>
      /\ recons[s].pc # "none" /\ recons' = [recons EXCEPT ![s] = NoRecon]
  BY DEF ReconcileThrows
<1>2. streams \in [Stream -> Receiver] /\ chat \in Pane
  BY DEF IInv, TypeOK
<1>3. chat' \in Pane
  BY <1>2 DEF ReconcileThrows, Pane
<1>4. NoRecon \in Reconciliation /\ NoRecon.pc = "none"
  BY Constants, Fields
<1>5. streams' = streams /\ channel' = channel
  BY <1>1 DEF backVars
<1> QED
  BY <1>1, <1>2, <1>3, <1>4, <1>5, ReconStep

(* A reconciliation of the present epoch shows its room, which is open. *)
LEMMA ReconcileAppliesStep ==
    ASSUME IInv, NEW s \in Stream, ReconcileApplies(s)
    PROVE  IInv'
<1>1. /\ UNCHANGED <<coreVars, backVars, callVars, current, active, pending, room, load, moves,
                      errands>>
      /\ recons[s].pc = "apply" /\ recons' = [recons EXCEPT ![s] = NoRecon]
  BY DEF ReconcileApplies
<1>2. /\ streams \in [Stream -> Receiver] /\ chat \in Pane /\ recons[s] \in Reconciliation
      /\ SilencedAt(s) /\ ReadAt(s)
  BY SilentStream DEF IInv, TypeOK
<1>3. NoRecon \in Reconciliation /\ NoRecon.pc = "none"
  BY Constants, Fields
<1>4. streams' = streams /\ channel' = channel
  BY <1>1 DEF backVars
<1>5. CASE current # s
  <2>1. UNCHANGED <<view, shown, stray, verifier, painted, chat>>
    BY <1>5 DEF ReconcileApplies
  <2> QED
    BY <1>1, <1>2, <1>3, <1>4, <2>1, ReconStep DEF textVars, viewVars
<1>6. CASE current = s
  <2>1. /\ view' = recons[s].branch /\ shown' = recons[s].branch /\ verifier' = NoVerifier
        /\ painted' = <<>> /\ stray' = NoStray
        /\ chat' = IF recons[s].running THEN [phase |-> "error", gen |-> s] ELSE NoChat
    BY <1>6 DEF ReconcileApplies
  <2>2. active = None /\ pending = <<>> /\ RoomOf[recons[s].branch] = room
    BY <1>1, <1>2, <1>6 DEF SilencedAt, ReadAt
  <2>3. recons[s].branch \in Place /\ verifier' \in Verifier
    BY <1>2, <2>1, ReconEdits, Constants
  <2>4. chat' \in Pane
    <3>1. NoChat \in Pane /\ [phase |-> "error", gen |-> s] \in Pane
      BY Constants, StreamNumbers DEF Pane
    <3> QED
      BY <2>1, <3>1
  <2> USE DEF coreVars, callVars
  <2>5. /\ recons' \in [Stream -> Reconciliation]
        /\ UsedOnce' /\ Silenced'
        /\ \A t \in Stream : ReadAt(t)' /\ StartedAt(t)'
    BY <1>1, <1>3, <1>4, ReconFacts
  <2>6. TypeOK /\ Placed
    BY DEF IInv
  <2>7. TypeOK'
    <3>1. painted' \in Seq(Events)
      BY <2>1
    <3> QED
      BY <1>1, <1>4, <2>1, <2>3, <2>4, <2>5, <2>6, <3>1, SameShapes, Constants DEF TypeOK
  <2>8. Numbered'
    BY <1>1, NumberedSame DEF IInv
  <2>9. \A t \in Stream : ~Owns(t)'
    BY <1>1, <2>2, StreamNumbers DEF Owns
  <2>10. Lines'
    BY <1>4, <2>9, LinesStay DEF IInv, Listening
  <2>11. Written'
    <3>1. Text' = <<>> /\ Len(Text') = 0
      BY <1>1, <2>1, <2>2 DEF Text
    <3>2. verifier'.last = 0
      BY <2>1, Fields
    <3>3. \A t \in Stream : CountAt(t)'
      BY <2>9 DEF CountAt, Listening
    <3> QED
      BY <3>1, <3>2, <3>3 DEF Written, TextOf
  <2>12. Placed'
    <3>1. Shown'
      BY <1>1, <2>1, <2>2 DEF Shown
    <3>2. LoadPlaced' /\ (\A e \in Errand : SentAt(e)')
      BY <1>1, <2>6 DEF Placed, LoadPlaced, SentAt
    <3> QED
      BY <1>1, <2>5, <2>6, <3>1, <3>2 DEF Placed
  <2> QED
    BY <2>5, <2>7, <2>8, <2>10, <2>11, <2>12 DEF IInv
<1> QED
  BY <1>5, <1>6

(* The timer moves text, and the whole of it stays the same. *)
LEMMA FlushDeltasStep ==
    ASSUME IInv, FlushDeltas
    PROVE  IInv'
<1>1. /\ UNCHANGED <<coreVars, backVars, callVars, epochVars, viewVars, recons>>
      /\ painted' = painted \o pending /\ pending' = <<>>
  BY DEF FlushDeltas
<1> USE DEF coreVars, backVars, callVars, epochVars, viewVars
<1>2. TypeOK /\ Written /\ painted \in Seq(Events) /\ pending \in Seq(Events)
  BY DEF IInv, TypeOK
<1>3. painted' \in Seq(Events) /\ pending' \in Seq(Events)
  BY <1>1, <1>2
<1>4. Text' = Text
  BY <1>1, <1>2, <1>3, NoText DEF Text
<1>5. TypeOK'
  BY <1>1, <1>2, <1>3, SameShapes DEF TypeOK
<1>6. Numbered'
  BY <1>1, NumberedSame DEF IInv
<1>7. UsedOnce'
  BY <1>1, UsedSame DEF IInv
<1>8. Lines'
  BY <1>1, LinesSame DEF IInv
<1>9. Written'
  <2>1. \A t \in Stream : CountAt(t)'
    <3> TAKE t \in Stream
    <3>1. CountAt(t)
      BY <1>2 DEF Written
    <3> QED
      BY <1>1, <1>4, <3>1, CountFrame DEF Listening, Owns
  <2> QED
    BY <1>1, <1>2, <1>4, <2>1 DEF Written, Housed
<1>10. Silenced'
  BY <1>1 DEF IInv, Silenced, SilencedAt
<1>11. Placed'
  BY <1>1, PlacedSame DEF IInv
<1> QED
  BY <1>5, <1>6, <1>7, <1>8, <1>9, <1>10, <1>11 DEF IInv

-----------------------------------------------------------------------------
(* The user, and what is loaded. *)

(* A stream that was never used starts with nothing in its line. *)
LEMMA StartStreamStep ==
    ASSUME IInv, NEW s \in Stream, NEW fork \in BOOLEAN, StartStream(s, fork)
    PROVE  IInv'
<1> DEFINE c == [pc |-> "asked", fork |-> fork, room |-> room, branch |-> view]
<1>1. /\ UNCHANGED <<coreVars, backVars, choices, viewVars, recons>>
      /\ starts' = [starts EXCEPT ![s] = c] /\ disposals' = DetachedDisposals
      /\ current' = s /\ active' = s /\ verifier' = [on |-> ~fork, last |-> 0]
      /\ chat' = [phase |-> "loading", gen |-> None]
      /\ painted' = <<>> /\ pending' = <<>>
      /\ view # NoBranch /\ starts[s].pc = "none"
  BY DEF StartStream
<1> USE DEF coreVars, backVars, viewVars
<1>2. TypeOK /\ Placed /\ view \in Place /\ starts \in [Stream -> Command]
  BY DEF IInv, TypeOK
<1>3. view \in made
  BY <1>1, <1>2 DEF Place
<1>4. c \in Command /\ c.pc = "asked" /\ c.branch = view /\ c.room = room
  BY <1>2 DEF Command, TypeOK
<1> HIDE DEF c
<1>5. \A t \in Stream : starts'[t] = IF t = s THEN c ELSE starts[t]
  BY <1>1, <1>2
<1>6. verifier' \in Verifier /\ verifier'.last = 0
  BY <1>1 DEF Verifier
<1>7. chat' \in Pane
  BY <1>1, StreamAssumption DEF Pane, None
<1>8. Fresh(s)
  BY <1>1, SilentStream DEF UsedAt
<1>9. TypeOK'
  <2>1. starts' \in [Stream -> Command] /\ disposals' \subseteq Stream
    BY <1>1, <1>2, <1>4, Epoch
  <2>2. current' \in 0..MaxStreams /\ active' \in {0, current'}
    BY <1>1, StreamNumbers
  <2>3. painted' \in Seq(Events) /\ pending' \in Seq(Events)
    BY <1>1
  <2> QED
    BY <1>1, <1>2, <1>6, <1>7, <2>1, <2>2, <2>3, SameShapes DEF TypeOK
<1>10. Numbered'
  BY <1>1, NumberedSame DEF IInv
<1>11. UsedOnce'
  <2> SUFFICES ASSUME NEW t \in Stream PROVE UsedAt(t)'
    BY DEF UsedOnce
  <2>1. UsedAt(t)
    BY DEF IInv, UsedOnce
  <2>2. CASE t # s
    BY <1>1, <1>5, <2>1, <2>2, UsedFrame
  <2>3. CASE t = s
    BY <1>1, <1>3, <1>4, <1>5, <2>1, <2>3 DEF UsedAt
  <2> QED
    BY <2>2, <2>3
<1>12. \A t \in Stream : Owns(t)' => t = s
  BY <1>1 DEF Owns
<1>13. Lines'
  <2> SUFFICES ASSUME NEW t \in Stream PROVE LineAt(t)'
    BY DEF Lines
  <2>1. LineAt(t)
    BY DEF IInv, Lines
  <2>2. CASE t # s
    BY <1>1, <1>12, <2>1, <2>2, LineFrame DEF Listening
  <2>3. CASE t = s
    <3>1. channel[s] = <<>> /\ streams[s].last = 0
      BY <1>8, Fields DEF Fresh
    <3>2. Continues(s)'
      BY <1>1, <1>6, <3>1 DEF Continues, BeginsAfter
    <3> QED
      BY <1>1, <2>1, <2>3, <3>2 DEF LineAt, Forwarded
  <2> QED
    BY <2>2, <2>3
<1>14. Written'
  <2>1. Text' = <<>> /\ Len(Text') = 0
    BY <1>1 DEF Text
  <2> QED
    BY <1>6, <2>1 DEF Written, TextOf, CountAt
<1>15. Silenced'
  <2>1. recons'[s].pc = "none"
    BY <1>1, <1>8, Fields DEF Fresh
  <2> QED
    BY <1>1, <2>1 DEF Silenced, SilencedAt
<1>16. Placed'
  <2>1. starts'[current'].room = room
    BY <1>1, <1>4, <1>5
  <2>2. \A t \in Stream : StartedAt(t)'
    BY <1>2, <1>4, <1>5 DEF Placed, StartedAt, Housed, Started
  <2>3. Shown' /\ LoadPlaced' /\ (\A e \in Errand : SentAt(e)') /\ (\A t \in Stream : ReadAt(t)')
    BY <1>1, <1>2 DEF Placed, Shown, LoadPlaced, SentAt, ReadAt
  <2> QED
    BY <1>1, <1>2, <2>1, <2>2, <2>3 DEF Placed
<1> QED
  BY <1>9, <1>10, <1>11, <1>13, <1>14, <1>15, <1>16 DEF IInv

(* A new epoch without a stream. *)
LEMMA DetachedFacts ==
    ASSUME IInv, Detached, UNCHANGED <<backVars, starts, recons, made>>
    PROVE  /\ disposals' \subseteq Stream /\ current' \in 0..MaxStreams
           /\ active' \in {0, current'} /\ verifier' \in Verifier /\ chat' \in Pane
           /\ painted' \in Seq(Events) /\ pending' \in Seq(Events) /\ current' = None
           /\ UsedOnce' /\ Lines' /\ Written' /\ Silenced'
           /\ \A t \in Stream : ReadAt(t)' /\ StartedAt(t)'
<1>1. /\ disposals' = DetachedDisposals /\ current' = None /\ active' = None
      /\ verifier' = NoVerifier /\ chat' = NoChat /\ painted' = <<>> /\ pending' = <<>>
  BY DEF Detached
<1>2. disposals' \subseteq Stream /\ current' \in 0..MaxStreams /\ active' \in {0, current'}
  BY <1>1, Epoch DEF IInv, None
<1>3. verifier' \in Verifier /\ chat' \in Pane /\ verifier'.last = 0
  BY <1>1, Constants, Fields
<1>4. painted' \in Seq(Events) /\ pending' \in Seq(Events)
  BY <1>1
<1>5. \A t \in Stream : current' # t /\ ~Owns(t)'
  BY <1>1, StreamNumbers DEF Owns
<1>6. UsedOnce'
  <2> SUFFICES ASSUME NEW t \in Stream PROVE UsedAt(t)'
    BY DEF UsedOnce
  <2>1. UsedAt(t)
    BY DEF IInv, UsedOnce
  <2> QED
    BY <1>5, <2>1, UsedFrame DEF backVars
<1>7. Lines'
  BY <1>5, LinesStay DEF IInv, Listening, backVars
<1>8. Written'
  <2>1. Text' = <<>> /\ Len(Text') = 0
    BY <1>1 DEF Text
  <2> QED
    BY <1>3, <1>5, <2>1 DEF Written, TextOf, CountAt, Listening
<1>9. Silenced'
  BY <1>5 DEF Silenced, SilencedAt
<1>10. \A t \in Stream : ReadAt(t)' /\ StartedAt(t)'
  BY DEF IInv, Placed, ReadAt, StartedAt, Housed
<1> QED
  BY <1>1, <1>2, <1>3, <1>4, <1>6, <1>7, <1>8, <1>9, <1>10

(* The selections are loads. *)
LEMMA LoadIn ==
    /\ [pc |-> "room", branch |-> NoBranch] \in Loading
    /\ \A b \in made : [pc |-> "branch", branch |-> b] \in Loading
    /\ \A b \in made : [pc |-> "listing", branch |-> b] \in Loading
    /\ NoBranch \in Place /\ made \subseteq Place
BY DEF Loading, Place

(* Opening a room ends the epoch and clears what is shown. *)
LEMMA SelectConversationStep ==
    ASSUME IInv, NEW r \in Rooms, SelectConversation(r)
    PROVE  IInv'
<1>1. /\ UNCHANGED <<coreVars, backVars, starts, choices, errands, recons>> /\ Detached
      /\ room' = r /\ view' = NoBranch /\ shown' = NoBranch /\ stray' = NoStray
      /\ load' = [pc |-> "room", branch |-> NoBranch]
      /\ moves < MaxMoves /\ moves' = moves + 1
  BY DEF SelectConversation
<1>2. /\ disposals' \subseteq Stream /\ current' \in 0..MaxStreams
      /\ active' \in {0, current'} /\ verifier' \in Verifier /\ chat' \in Pane
      /\ painted' \in Seq(Events) /\ pending' \in Seq(Events) /\ current' = None
      /\ UsedOnce' /\ Lines' /\ Written' /\ Silenced'
      /\ \A t \in Stream : ReadAt(t)' /\ StartedAt(t)'
  BY <1>1, DetachedFacts DEF coreVars
<1>3. TypeOK /\ Placed
  BY DEF IInv
<1>4. moves' \in 0..MaxMoves
  BY <1>1, <1>3, StreamAssumption DEF TypeOK
<1>5. load' \in Loading /\ view' \in Place /\ stray' \in Strays
  BY <1>1, LoadIn, Constants
<1> USE DEF coreVars, backVars
<1>6. TypeOK'
  BY <1>1, <1>2, <1>3, <1>4, <1>5, SameShapes DEF TypeOK
<1>7. Numbered'
  BY <1>1, NumberedSame DEF IInv
<1>8. Placed'
  <2>1. LoadPlaced' /\ Shown'
    BY <1>1 DEF LoadPlaced, Shown
  <2>2. \A e \in Errand : SentAt(e)'
    BY <1>1, <1>3 DEF Placed, SentAt
  <2> QED
    BY <1>1, <1>2, <1>3, <2>1, <2>2 DEF Placed
<1> QED
  BY <1>2, <1>6, <1>7, <1>8 DEF IInv

(* A branch of the room is selected in a new epoch, by the user or because *)
(* it was created.                                                         *)
LEMMA BranchTaken ==
    ASSUME IInv, Detached,
           UNCHANGED <<coreVars, backVars, starts, room, view, shown, stray, recons>>,
           choices' \subseteq made, load' \in Loading, LoadPlaced', moves' \in 0..MaxMoves,
           errands' \in [Errand -> ErrandRecord], \A e \in Errand : SentAt(e)'
    PROVE  IInv'
<1>1. /\ disposals' \subseteq Stream /\ current' \in 0..MaxStreams
      /\ active' \in {0, current'} /\ verifier' \in Verifier /\ chat' \in Pane
      /\ painted' \in Seq(Events) /\ pending' \in Seq(Events) /\ current' = None
      /\ UsedOnce' /\ Lines' /\ Written' /\ Silenced'
      /\ \A t \in Stream : ReadAt(t)' /\ StartedAt(t)'
  BY DetachedFacts DEF coreVars
<1>2. TypeOK /\ Placed
  BY DEF IInv
<1> USE DEF coreVars, backVars
<1>3. TypeOK'
  BY <1>1, <1>2, SameShapes DEF TypeOK
<1>4. Numbered'
  BY NumberedSame DEF IInv
<1>5. Placed'
  <2>1. Shown'
    BY <1>2 DEF Placed, Shown
  <2> QED
    BY <1>1, <1>2, <2>1 DEF Placed
<1> QED
  BY <1>1, <1>3, <1>4, <1>5 DEF IInv

(* Selecting a branch of the room ends the epoch. *)
LEMMA SelectBranchStep ==
    ASSUME IInv, NEW b \in Branches, SelectBranch(b)
    PROVE  IInv'
<1>1. /\ UNCHANGED <<coreVars, backVars, starts, room, view, shown, errands, stray, recons>>
      /\ Detached
      /\ choices' = choices \cup {b} /\ b \in made /\ RoomOf[b] = room
      /\ load' = [pc |-> "branch", branch |-> b]
      /\ moves < MaxMoves /\ moves' = moves + 1
  BY DEF SelectBranch
<1>2. TypeOK /\ Placed
  BY DEF IInv
<1>3. moves' \in 0..MaxMoves
  BY <1>1, <1>2, StreamAssumption DEF TypeOK
<1>4. load' \in Loading /\ load'.branch = b
  BY <1>1, LoadIn
<1>5. choices' \subseteq made /\ errands' \in [Errand -> ErrandRecord]
  BY <1>1, <1>2 DEF TypeOK
<1>6. LoadPlaced' /\ \A e \in Errand : SentAt(e)'
  BY <1>1, <1>2, <1>4 DEF Placed, LoadPlaced, SentAt, coreVars
<1> QED
  BY <1>1, <1>3, <1>4, <1>5, <1>6, BranchTaken

(* A step that changes the view, the load and the errands only; it may     *)
(* make a branch.                                                          *)
LEMMA ViewStep ==
    ASSUME IInv, load' \in Loading', view' \in Place', shown' \in Place', stray' \in Strays,
           errands' \in [Errand -> ErrandRecord'], made \subseteq made', made' \subseteq Branches,
           Shown', LoadPlaced', \A e \in Errand : SentAt(e)',
           UNCHANGED <<bus, rows, selected, backVars, callVars, epochVars, textVars, room, moves,
                       recons>>
    PROVE  IInv'
<1> USE DEF backVars, callVars, epochVars, textVars
<1>1. TypeOK /\ Placed /\ UsedOnce
  BY DEF IInv
<1>2. TypeOK'
  <2>1. starts' \in [Stream -> Command'] /\ recons' \in [Stream -> Reconciliation']
    BY <1>1, GrownShapes DEF TypeOK
  <2>2. selected' \in [Rooms -> made'] /\ choices' \subseteq made'
    BY <1>1 DEF TypeOK
  <2> QED
    BY <1>1, <2>1, <2>2 DEF TypeOK
<1>3. Numbered'
  BY NumberedSame DEF IInv
<1>4. UsedOnce'
  BY <1>1, UsedFrame DEF UsedOnce
<1>5. Lines'
  BY LinesSame DEF IInv
<1>6. Written'
  BY WrittenSame DEF IInv
<1>7. Silenced'
  BY SilencedSame DEF IInv
<1>8. Placed'
  <2>1. \A t \in Stream : ReadAt(t)' /\ StartedAt(t)'
    BY <1>1 DEF Placed, ReadAt, StartedAt, Housed
  <2> QED
    BY <1>1, <2>1 DEF Placed
<1> QED
  BY <1>2, <1>3, <1>4, <1>5, <1>6, <1>7, <1>8 DEF IInv

(* What the invariant says of the screen and of the errands. *)
LEMMA ScreenTypes ==
    ASSUME IInv
    PROVE  /\ load \in Loading /\ view \in Place /\ shown \in Place /\ stray \in Strays
           /\ errands \in [Errand -> ErrandRecord] /\ made \subseteq Branches
           /\ selected \in [Rooms -> made] /\ room \in Rooms /\ choices \subseteq made
           /\ moves \in 0..MaxMoves
           /\ Shown /\ LoadPlaced
           /\ \A e \in Errand : SentAt(e)
           /\ \A r \in Rooms : RoomOf[selected[r]] = r
BY DEF IInv, TypeOK, Placed

(* What the store has selected belongs to the room. *)
LEMMA RoomReadStep ==
    ASSUME IInv, RoomRead
    PROVE  IInv'
<1>1. /\ load' = [pc |-> "listing", branch |-> selected[room]]
      /\ UNCHANGED <<coreVars, backVars, callVars, epochVars, textVars, room, view, shown, moves,
                     errands, stray, recons>>
  BY DEF RoomRead
<1> USE DEF coreVars
<1>2. selected[room] \in made /\ RoomOf[selected[room]] = room
  BY ScreenTypes
<1>3. load' \in Loading /\ load'.branch = selected[room]
  BY <1>1, <1>2, LoadIn
<1>4. Shown' /\ LoadPlaced' /\ \A e \in Errand : SentAt(e)'
  BY <1>1, <1>2, <1>3, ScreenTypes DEF Shown, LoadPlaced, SentAt
<1> QED
  BY <1>1, <1>3, <1>4, ScreenTypes, SameShapes, ViewStep

(* A stray list is gone, or a stray room is noted. *)
LEMMA StrayChanges ==
    ASSUME NEW x \in Strays, NEW r \in Rooms \cup {NoBranch}
    PROVE  /\ [x EXCEPT !.view = r] \in Strays /\ [x EXCEPT !.shown = r] \in Strays
           /\ [x EXCEPT !.view = r].view = r /\ [x EXCEPT !.view = r].shown = x.shown
           /\ [x EXCEPT !.shown = r].shown = r /\ [x EXCEPT !.shown = r].view = x.view
BY DEF Strays

(* A load that fails ends; the list of a room is then empty. *)
LEMMA LoadThrowsStep ==
    ASSUME IInv, LoadThrows
    PROVE  IInv'
<1>1. load' = NoLoad /\ NoLoad \in Loading /\ NoLoad.pc = "none"
      /\ UNCHANGED <<coreVars, backVars, callVars, epochVars, textVars, room, view, moves,
                     errands, recons>>
  BY Constants, Fields DEF LoadThrows
<1> USE DEF coreVars
<1>2. LoadPlaced' /\ \A e \in Errand : SentAt(e)'
  BY <1>1, ScreenTypes DEF LoadPlaced, SentAt
<1>3. shown' \in Place /\ stray' \in Strays /\ Shown'
  <2>1. CASE shown' = NoBranch /\ stray' = [stray EXCEPT !.shown = NoBranch]
    <3>1. stray' \in Strays /\ stray'.view = stray.view
      BY <2>1, ScreenTypes, StrayChanges
    <3> QED
      BY <1>1, <2>1, <3>1, ScreenTypes, LoadIn DEF Shown
  <2>2. CASE UNCHANGED <<shown, stray>>
    BY <1>1, <2>2, ScreenTypes DEF Shown
  <2> QED
    BY <2>1, <2>2 DEF LoadThrows
<1> QED
  BY <1>1, <1>2, <1>3, ScreenTypes, SameShapes, ViewStep

(* What is loaded belongs to the room; no stream begins to be listened to. *)
LEMMA LoadedStep ==
    ASSUME IInv, Loaded
    PROVE  IInv'
<1> DEFINE running == {g \in Stream : Running(g, load.branch)}
<1>1. /\ UNCHANGED <<coreVars, backVars, callVars, current, active, room, moves, errands, recons>>
      /\ load.pc \in {"listing", "branch"} /\ load' = NoLoad
      /\ view' = load.branch /\ shown' = load.branch /\ stray' = NoStray
  BY DEF Loaded
<1>2. \/ UNCHANGED <<verifier, chat, painted, pending>>
      \/ /\ \E g \in Stream : chat' = [phase |-> "error", gen |-> g]
         /\ verifier' = NoVerifier /\ painted' = <<>> /\ pending' = <<>>
  BY DEF Loaded
<1> USE DEF coreVars, backVars, callVars
<1>3. TypeOK /\ Placed /\ Written
  BY DEF IInv
<1>4. load.branch \in made /\ RoomOf[load.branch] = room
  BY <1>1, <1>3 DEF Placed, LoadPlaced
<1>5. load' \in Loading /\ load'.pc = "none" /\ view' \in Place /\ stray' \in Strays
  BY <1>1, <1>4, Constants, Fields, LoadIn
<1>6. verifier' \in Verifier /\ chat' \in Pane /\ painted' \in Seq(Events)
      /\ pending' \in Seq(Events)
  <2>1. CASE UNCHANGED <<verifier, chat, painted, pending>>
    BY <1>3, <2>1 DEF TypeOK
  <2>2. CASE /\ \E g \in Stream : chat' = [phase |-> "error", gen |-> g]
             /\ verifier' = NoVerifier /\ painted' = <<>> /\ pending' = <<>>
    <3>1. chat' \in Pane
      BY <2>2, StreamNumbers DEF Pane
    <3> QED
      BY <2>2, <3>1, Constants
  <2> QED
    BY <1>2, <2>1, <2>2
<1>7. TypeOK'
  BY <1>1, <1>3, <1>5, <1>6, SameShapes DEF TypeOK
<1>8. Numbered'
  BY <1>1, NumberedSame DEF IInv
<1>9. UsedOnce'
  BY <1>1, UsedSame DEF IInv
<1>10. Lines' /\ Written'
  <2>1. CASE UNCHANGED <<verifier, chat, painted, pending>>
    BY <1>1, <2>1, LinesSame, WrittenSame DEF IInv
  <2>2. CASE verifier' = NoVerifier /\ painted' = <<>> /\ pending' = <<>>
    <3>1. verifier'.last = 0 /\ ~verifier'.on
      BY <2>2, Fields
    <3>2. \A t \in Stream : Listening(t)' => Listening(t) /\ verifier'.last = verifier.last
      <4> SUFFICES ASSUME NEW t \in Stream, Listening(t)'
                   PROVE  Listening(t) /\ verifier'.last = verifier.last
        OBVIOUS
      <4>1. Owns(t) /\ starts[t].pc \in Waiting
        BY <1>1, <3>1 DEF Listening, Owns
      <4>2. CountAt(t)
        BY <1>3 DEF Written
      <4> QED
        BY <3>1, <4>1, <4>2 DEF Listening, CountAt
    <3>3. Lines'
      BY <1>1, <3>2, LinesStay DEF IInv
    <3>4. Text' = <<>> /\ Len(Text') = 0
      BY <2>2 DEF Text
    <3>5. Written'
      BY <3>1, <3>4 DEF Written, TextOf, CountAt
    <3> QED
      BY <3>3, <3>5
  <2> QED
    BY <1>2, <2>1, <2>2
<1>11. Silenced'
  <2>1. Silenced /\ (pending' = pending \/ pending' = <<>>)
    BY <1>2 DEF IInv
  <2> QED
    BY <1>1, <2>1 DEF Silenced, SilencedAt
<1>12. Placed'
  <2>1. Shown' /\ LoadPlaced'
    BY <1>1, <1>4, <1>5 DEF Shown, LoadPlaced
  <2>2. (\A e \in Errand : SentAt(e)') /\ \A t \in Stream : ReadAt(t)' /\ StartedAt(t)'
    BY <1>1, <1>3 DEF Placed, SentAt, ReadAt, StartedAt, Housed
  <2> QED
    BY <1>1, <1>3, <2>1, <2>2 DEF Placed
<1> QED
  BY <1>7, <1>8, <1>9, <1>10, <1>11, <1>12 DEF IInv

-----------------------------------------------------------------------------
(* The errands. *)

(* One errand changes; what is answered belongs to its room. *)
LEMMA ErrandFacts ==
    ASSUME IInv, NEW e \in Errand, NEW x, x \in ErrandRecord',
           errands' = [errands EXCEPT ![e] = x], made \subseteq made',
           x.pc \in {"asked", "answered"} => x.room \in Rooms,
           x.pc = "answered" => x.branch \in made' /\ RoomOf[x.branch] = x.room
    PROVE  errands' \in [Errand -> ErrandRecord'] /\ \A d \in Errand : SentAt(d)'
<1>1. errands \in [Errand -> ErrandRecord] /\ \A d \in Errand : SentAt(d)
  BY ScreenTypes
<1>2. errands' \in [Errand -> ErrandRecord']
  BY <1>1, GrownShapes
<1>3. \A d \in Errand : errands'[d] = IF d = e THEN x ELSE errands[d]
  BY <1>1
<1> QED
  BY <1>1, <1>2, <1>3 DEF SentAt

(* An errand moves on without an effect on the screen. *)
LEMMA ErrandMoves ==
    ASSUME IInv, NEW e \in Errand, NEW x, x \in ErrandRecord',
           errands' = [errands EXCEPT ![e] = x], made \subseteq made', made' \subseteq Branches,
           x.pc \in {"asked", "answered"} => x.room \in Rooms,
           x.pc = "answered" => x.branch \in made' /\ RoomOf[x.branch] = x.room,
           UNCHANGED <<bus, rows, selected, backVars, callVars, epochVars, textVars, room, view,
                       shown, load, moves, stray, recons>>
    PROVE  IInv'
<1>1. errands' \in [Errand -> ErrandRecord'] /\ \A d \in Errand : SentAt(d)'
  BY ErrandFacts
<1>2. load' \in Loading' /\ view' \in Place' /\ shown' \in Place' /\ stray' \in Strays
  BY ScreenTypes, GrownShapes
<1>3. Shown' /\ LoadPlaced'
  BY ScreenTypes DEF Shown, LoadPlaced
<1> QED
  BY <1>1, <1>2, <1>3, ViewStep

(* An errand is asked for in the open room. *)
LEMMA AskStep ==
    ASSUME IInv, NEW e \in Errand, NEW k \in {"mode", "remove", "create"}, NEW b \in Place,
           Ask(e, k, b)
    PROVE  IInv'
<1> DEFINE x == [pc |-> "asked", kind |-> k, room |-> room, branch |-> b]
<1>1. /\ errands' = [errands EXCEPT ![e] = x]
      /\ UNCHANGED <<coreVars, backVars, callVars, epochVars, textVars, room, view, shown, load,
                     moves, stray, recons>>
  BY DEF Ask
<1>2. room \in Rooms /\ made \subseteq Branches
  BY ScreenTypes
<1>3. x \in ErrandRecord /\ x.pc = "asked" /\ x.room = room
  BY <1>2 DEF ErrandRecord
<1> HIDE DEF x
<1>4. ErrandRecord' = ErrandRecord /\ made' = made
  BY <1>1, SameShapes DEF coreVars
<1> QED
  BY <1>1, <1>2, <1>3, <1>4, ErrandMoves DEF coreVars

(* The errands of the user. *)
LEMMA ErrandsAsked ==
    ASSUME IInv, NEW e \in Errand, SetConversationMode(e) \/ RemoveMessage(e) \/ CreateBranch(e)
    PROVE  IInv'
<1>1. NoBranch \in Place /\ view \in Place /\ shown \in Place
  BY ScreenTypes, LoadIn
<1> QED
  BY <1>1, AskStep DEF SetConversationMode, RemoveMessage, CreateBranch

(* The store answers with a branch of the errand's room. *)
LEMMA ErrandAnswered ==
    ASSUME IInv, NEW e \in Errand, NEW b, errands[e].pc = "asked", Answers(e, b),
           b \in made', made \subseteq made', made' \subseteq Branches,
           RoomOf[b] = errands[e].room,
           UNCHANGED <<bus, rows, selected, backVars, callVars, epochVars, textVars, room, view,
                       shown, load, moves, stray, recons>>
    PROVE  IInv'
<1> DEFINE x == [errands[e] EXCEPT !.pc = "answered", !.branch = b]
<1>1. errands[e] \in ErrandRecord /\ errands[e].room \in Rooms
  BY ScreenTypes DEF SentAt
<1>2. errands[e] \in ErrandRecord' /\ b \in Place'
  BY <1>1, GrownShapes DEF Place
<1>3. x \in ErrandRecord' /\ x.pc = "answered" /\ x.branch = b /\ x.room = errands[e].room
  BY <1>2 DEF ErrandRecord
<1>4. errands' = [errands EXCEPT ![e] = x]
  BY DEF Answers
<1> HIDE DEF x
<1> QED
  BY <1>1, <1>3, <1>4, ErrandMoves

(* A mode is answered with the selected branch of its room. *)
LEMMA StoreSetsModeStep ==
    ASSUME IInv, NEW e \in Errand, StoreSetsMode(e)
    PROVE  IInv'
<1>1. errands[e].pc = "asked"
  BY DEF StoreSetsMode, Asked
<1>2. errands[e].room \in Rooms
  BY <1>1, ScreenTypes DEF SentAt
<1>3. selected[errands[e].room] \in made /\ RoomOf[selected[errands[e].room]] = errands[e].room
      /\ made \subseteq Branches
  BY <1>2, ScreenTypes
<1> QED
  BY <1>1, <1>3, ErrandAnswered DEF StoreSetsMode, coreVars

(* Messages are removed from the selected branch of their room. *)
LEMMA StoreRemovesStep ==
    ASSUME IInv, NEW e \in Errand, StoreRemoves(e)
    PROVE  IInv'
<1>1. errands[e].pc = "asked" /\ selected[errands[e].room] = errands[e].branch
  BY DEF StoreRemoves, Asked
<1>2. errands[e].room \in Rooms
  BY <1>1, ScreenTypes DEF SentAt
<1>3. errands[e].branch \in made /\ RoomOf[errands[e].branch] = errands[e].room
      /\ made \subseteq Branches
  BY <1>1, <1>2, ScreenTypes
<1> QED
  BY <1>1, <1>3, ErrandAnswered DEF StoreRemoves, coreVars

(* A branch is created in the room of the errand. *)
LEMMA StoreCreatesStep ==
    ASSUME IInv, NEW e \in Errand, StoreCreates(e)
    PROVE  IInv'
<1>1. errands[e].pc = "asked"
  BY DEF StoreCreates, Asked
<1>2. PICK b \in Branches \ made :
          /\ RoomOf[b] = errands[e].room
          /\ made' = made \cup {b}
          /\ Answers(e, b)
  BY DEF StoreCreates
<1>3. b \in made' /\ made \subseteq made' /\ made' \subseteq Branches
  BY <1>2, ScreenTypes
<1> QED
  BY <1>1, <1>2, <1>3, ErrandAnswered DEF StoreCreates

(* An errand that fails is over. *)
LEMMA ErrandFailsStep ==
    ASSUME IInv, NEW e \in Errand, ErrandFails(e)
    PROVE  IInv'
<1>1. Done \in ErrandRecord /\ Done.pc = "over" /\ made \subseteq Branches
  BY Constants, Fields, ScreenTypes
<1>2. ErrandRecord' = ErrandRecord /\ made' = made
  BY SameShapes DEF ErrandFails, coreVars
<1> QED
  BY <1>1, <1>2, ErrandMoves DEF ErrandFails, coreVars

(* What an answered errand has is of its room. *)
LEMMA AnsweredFacts ==
    ASSUME IInv, NEW e \in Errand, NEW k, Answered(e, k), made' = made
    PROVE  /\ errands[e].room \in Rooms /\ errands[e].room # NoBranch
           /\ errands[e].branch \in made /\ errands[e].branch \in Place
           /\ RoomOf[errands[e].branch] = errands[e].room
           /\ errands' \in [Errand -> ErrandRecord]
           /\ \A d \in Errand : SentAt(d)'
<1>1. errands[e].pc = "answered" /\ errands' = [errands EXCEPT ![e] = Done]
  BY DEF Answered
<1>2. /\ errands[e].room \in Rooms /\ errands[e].branch \in made
      /\ RoomOf[errands[e].branch] = errands[e].room
  BY <1>1, ScreenTypes DEF SentAt
<1>3. errands[e].room # NoBranch /\ errands[e].branch \in Place
  BY <1>2, StreamAssumption DEF NoBranch, Place
<1>4. Done \in ErrandRecord /\ Done.pc = "over" /\ ErrandRecord' = ErrandRecord
  BY Constants, Fields, SameShapes
<1>5. errands' \in [Errand -> ErrandRecord] /\ \A d \in Errand : SentAt(d)'
  BY <1>1, <1>4, ErrandFacts
<1> QED
  BY <1>2, <1>3, <1>5

(* A mode that arrives makes its room's branch the active one. *)
LEMMA ModeArrivesStep ==
    ASSUME IInv, NEW e \in Errand, ModeArrives(e)
    PROVE  IInv'
<1>1. /\ Answered(e, "mode") /\ view' = errands[e].branch
      /\ stray' = [stray EXCEPT !.view = errands[e].room]
      /\ UNCHANGED <<coreVars, backVars, callVars, epochVars, textVars, room, shown, load, moves,
                     recons>>
  BY DEF ModeArrives
<1> USE DEF coreVars
<1>2. /\ errands[e].room \in Rooms /\ errands[e].room # NoBranch
      /\ errands[e].branch \in Place /\ RoomOf[errands[e].branch] = errands[e].room
      /\ errands' \in [Errand -> ErrandRecord] /\ \A d \in Errand : SentAt(d)'
  BY <1>1, AnsweredFacts
<1>3. stray' \in Strays /\ stray'.view = errands[e].room /\ stray'.shown = stray.shown
  <2>1. stray \in Strays
    BY ScreenTypes
  <2>2. PICK r \in Rooms \cup {NoBranch} : r = errands[e].room
    BY <1>2
  <2>3. stray' = [stray EXCEPT !.view = r]
    BY <1>1, <2>2
  <2> QED
    BY <2>1, <2>2, <2>3, StrayChanges
<1>4. stray' # NoStray
  BY <1>2, <1>3, Fields
<1>5. Shown' /\ LoadPlaced'
  BY <1>1, <1>2, <1>3, <1>4, ScreenTypes DEF Shown, LoadPlaced
<1>6. /\ load' \in Loading' /\ view' \in Place' /\ shown' \in Place'
      /\ errands' \in [Errand -> ErrandRecord'] /\ made' \subseteq Branches /\ made' = made
  BY <1>1, <1>2, ScreenTypes, SameShapes
<1> QED
  BY <1>1, <1>2, <1>3, <1>5, <1>6, ViewStep

(* A removal that arrives lists the messages of its room's branch. *)
LEMMA RemovalArrivesStep ==
    ASSUME IInv, NEW e \in Errand, RemovalArrives(e)
    PROVE  IInv'
<1>1. /\ Answered(e, "remove") /\ shown' = errands[e].branch
      /\ stray' = [stray EXCEPT !.shown = errands[e].room]
      /\ UNCHANGED <<coreVars, backVars, callVars, epochVars, textVars, room, view, load, moves,
                     recons>>
  BY DEF RemovalArrives
<1> USE DEF coreVars
<1>2. /\ errands[e].room \in Rooms /\ errands[e].room # NoBranch
      /\ errands[e].branch \in Place /\ RoomOf[errands[e].branch] = errands[e].room
      /\ errands' \in [Errand -> ErrandRecord] /\ \A d \in Errand : SentAt(d)'
  BY <1>1, AnsweredFacts
<1>3. stray' \in Strays /\ stray'.shown = errands[e].room /\ stray'.view = stray.view
  <2>1. stray \in Strays
    BY ScreenTypes
  <2>2. PICK r \in Rooms \cup {NoBranch} : r = errands[e].room
    BY <1>2
  <2>3. stray' = [stray EXCEPT !.shown = r]
    BY <1>1, <2>2
  <2> QED
    BY <2>1, <2>2, <2>3, StrayChanges
<1>4. stray' # NoStray
  BY <1>2, <1>3, Fields
<1>5. Shown' /\ LoadPlaced'
  BY <1>1, <1>2, <1>3, <1>4, ScreenTypes DEF Shown, LoadPlaced
<1>6. /\ load' \in Loading' /\ view' \in Place' /\ shown' \in Place'
      /\ errands' \in [Errand -> ErrandRecord'] /\ made' \subseteq Branches /\ made' = made
  BY <1>1, <1>2, ScreenTypes, SameShapes
<1> QED
  BY <1>1, <1>2, <1>3, <1>5, <1>6, ViewStep

(* A created branch is loaded in the open room only if it is one of it. *)
LEMMA BranchArrivesStep ==
    ASSUME IInv, NEW e \in Errand, BranchArrives(e)
    PROVE  IInv'
<1>1. /\ Answered(e, "create") /\ Detached
      /\ UNCHANGED <<coreVars, backVars, starts, room, view, shown, moves, stray, recons>>
      /\ \/ /\ RoomOf[errands[e].branch] = room
            /\ load' = [pc |-> "branch", branch |-> errands[e].branch]
            /\ choices' = choices \cup {errands[e].branch}
         \/ load' = NoLoad /\ UNCHANGED choices
  BY DEF BranchArrives
<1>2. /\ errands[e].branch \in made
      /\ errands' \in [Errand -> ErrandRecord] /\ \A d \in Errand : SentAt(d)'
  BY <1>1, AnsweredFacts DEF coreVars
<1>3. choices' \subseteq made /\ load' \in Loading /\ LoadPlaced'
  <2>1. CASE /\ RoomOf[errands[e].branch] = room
             /\ load' = [pc |-> "branch", branch |-> errands[e].branch]
             /\ choices' = choices \cup {errands[e].branch}
    <3>1. load'.branch = errands[e].branch /\ load' \in Loading
      BY <1>2, <2>1, LoadIn
    <3> QED
      BY <1>1, <1>2, <2>1, <3>1, ScreenTypes DEF LoadPlaced, coreVars
  <2>2. CASE load' = NoLoad /\ UNCHANGED choices
    BY <2>2, ScreenTypes, Constants, Fields DEF LoadPlaced
  <2> QED
    BY <1>1, <2>1, <2>2
<1>4. moves' \in 0..MaxMoves
  BY <1>1, ScreenTypes
<1> QED
  BY <1>1, <1>2, <1>3, <1>4, BranchTaken

-----------------------------------------------------------------------------
(* The theorems. *)

(* The invariant holds before anything has started. *)
LEMMA InitHolds == Init => IInv
<1> SUFFICES ASSUME Init PROVE IInv
  OBVIOUS
<1> USE DEF Init
<1>1. /\ selected \in [Rooms -> made] /\ made \subseteq Branches /\ room \in Rooms
      /\ \A r \in Rooms : RoomOf[selected[r]] = r
  BY StreamAssumption
<1>2. TypeOK
  <2>1. /\ bus \in Seq(Events) /\ rows \in [Stream -> {"none", "pending", "settled"}]
        /\ painted \in Seq(Events) /\ pending \in Seq(Events)
        /\ channel \in [Stream -> Seq(Events \cup {Reconcile})]
    OBVIOUS
  <2>2. /\ streams \in [Stream -> Receiver] /\ starts \in [Stream -> Command]
        /\ recons \in [Stream -> Reconciliation] /\ load \in Loading
        /\ verifier \in Verifier /\ chat \in Pane
        /\ errands \in [Errand -> ErrandRecord] /\ stray \in Strays
    BY Constants
  <2>3. disposals \subseteq Stream /\ choices \subseteq made /\ current \in 0..MaxStreams
        /\ active \in {0, current} /\ moves \in 0..MaxMoves
    BY StreamAssumption DEF None
  <2>4. view \in Place /\ shown \in Place
    BY <1>1 DEF Place
  <2> QED
    BY <1>1, <2>1, <2>2, <2>3, <2>4 DEF TypeOK
<1>3. \A s \in Stream : streams[s] = NoStream /\ channel[s] = <<>> /\ recons[s] = NoRecon
                         /\ starts[s] = NoStart /\ current # s
  BY StreamNumbers
<1>4. Numbered
  <2> SUFFICES ASSUME NEW g \in Stream PROVE Sent(g) = 0
    BY StreamAssumption DEF Numbered
  <2>1. {i \in 1..Len(bus) : bus[i].gen = g} = {}
    OBVIOUS
  <2> QED
    BY <2>1, FS_EmptySet DEF Sent
<1>5. UsedOnce
  BY <1>3, Fields DEF UsedOnce, UsedAt, Fresh
<1>6. Lines
  BY <1>3, Fields DEF Lines, LineAt, Forwarded, InLine, EndsWith, Listening, Owns
<1>7. Written
  <2>1. Text = <<>> /\ Len(Text) = 0
    BY DEF Text
  <2> QED
    BY <2>1, Fields DEF Written, TextOf, CountAt
<1>8. Silenced
  BY <1>3, Fields DEF Silenced, SilencedAt
<1>9. Placed
  <2>1. Shown /\ LoadPlaced
    BY <1>1, Fields DEF Shown, LoadPlaced
  <2>2. \A e \in Errand : SentAt(e)
    BY Fields DEF SentAt
  <2>3. \A s \in Stream : ReadAt(s) /\ StartedAt(s)
    BY <1>3, Fields DEF ReadAt, StartedAt, Started
  <2> QED
    BY <1>1, <2>1, <2>2, <2>3 DEF Placed
<1> QED
  BY <1>2, <1>4, <1>5, <1>6, <1>7, <1>8, <1>9 DEF IInv

(* A step that changes nothing keeps it. *)
LEMMA StutterHolds == IInv /\ UNCHANGED vars => IInv'
<1> SUFFICES ASSUME IInv, UNCHANGED vars PROVE IInv'
  OBVIOUS
<1> USE DEF vars, coreVars, backVars, callVars, epochVars, textVars, viewVars
<1>1. TypeOK
  BY DEF IInv
<1>2. TypeOK'
  BY <1>1, SameShapes DEF TypeOK
<1> QED
  BY <1>2, QuietStep

(* Every step keeps it. *)
LEMMA StepHolds == IInv /\ [Next]_vars => IInv'
<1> SUFFICES ASSUME IInv, [Next]_vars PROVE IInv'
  OBVIOUS
<1>1. ASSUME NEW s \in Stream, CoreStep(s) PROVE IInv'
  BY <1>1, PublishStep, SettleStep, PublishTerminalStep DEF CoreStep
<1>2. ASSUME NEW s \in Stream, BackendStep(s) PROVE IInv'
  BY <1>2, RegisterStep, StartFailsStep, StartGenerationStep, DisposeStep, StopForwardingStep,
     RecvStep DEF BackendStep
<1>3. ASSUME NEW s \in Stream, RendererStep(s) PROVE IInv'
  BY <1>3, StartReturnsStep, ForkReturnsStep, ForkShownStep, StartThrowsStep, DropItemStep,
     ApplyDeltaStep, BeginReconcileStep, ReconcileDisposesStep, ReconcileReadsStep,
     ReconcileAppliesStep, ReconcileThrowsStep DEF RendererStep
<1>4. ASSUME UserStep PROVE IInv'
  BY <1>4, StartStreamStep, SelectConversationStep, SelectBranchStep, ErrandsAsked DEF UserStep
<1>5. ASSUME NEW e \in Errand, ErrandStep(e) PROVE IInv'
  BY <1>5, StoreSetsModeStep, StoreRemovesStep, StoreCreatesStep, ErrandFailsStep,
     ModeArrivesStep, RemovalArrivesStep, BranchArrivesStep DEF ErrandStep
<1> QED
  BY <1>1, <1>2, <1>3, <1>4, <1>5, StoreSelectsStep, FlushDeltasStep, RoomReadStep, LoadedStep,
     LoadThrowsStep, StutterHolds DEF Next

(* The numbers of the forwarder, the channel, the verifier and the text    *)
(* stay one line, and every read, start and errand keeps its room, through *)
(* stream.rs, channels.rs, chat-stream.ts and app-controller.ts.           *)
THEOREM Invariant == Spec => []IInv
BY InitHolds, StepHolds, PTL DEF Spec

(* TextHasNoGap, for every capacity of the broadcast and any number of     *)
(* streams: no text is lost, doubled or mixed unseen between Core and the  *)
(* screen.                                                                 *)
THEOREM NoGap == Spec => []TextHasNoGap
<1>1. IInv => TextHasNoGap
  <2> SUFFICES ASSUME IInv PROVE TextHasNoGap
    OBVIOUS
  <2>1. TypeOK /\ Written /\ Lines
    BY DEF IInv
  <2>2. PaintedIsPrefix
    <3>1. \A i \in 1..Len(Text) : Text[i] = Delta(current, i)
      BY <2>1 DEF Written, TextOf
    <3>2. Text \in Seq(Events)
      BY <2>1 DEF TypeOK, Text
    <3> SUFFICES ASSUME NEW i \in 1..Len(Text) PROVE Text[i] = Delta(Text[1].gen, i)
      BY DEF PaintedIsPrefix, Text
    <3>3. 1 \in 1..Len(Text)
      BY <3>2
    <3>4. Text[1].gen = current
      <4>1. Text[1] = Delta(current, 1)
        BY <3>1, <3>3
      <4>2. Delta(current, 1).gen = current
        BY DEF Delta
      <4> QED
        BY <4>1, <4>2
    <3> QED
      BY <3>1, <3>4
  <2>3. ForwardedWithoutGap
    <3> SUFFICES ASSUME NEW s \in Stream, NEW i \in 1..Len(channel[s])
                 PROVE  LET item == channel[s][i]
                        IN  /\ item = Reconcile => i = Len(channel[s]) /\ streams[s].pc = "gone"
                            /\ item # Reconcile => item.gen = s
                            /\ i > 1 /\ item # Reconcile =>
                                  item.seq = channel[s][i - 1].seq + 1
                            /\ i = 1 /\ item # Reconcile /\ Owns(s) /\ verifier.on =>
                                  item.seq = verifier.last + 1
      BY DEF ForwardedWithoutGap
    <3>1. LineAt(s) /\ channel[s] \in Seq(Events \cup {Reconcile})
      BY <2>1, StreamTypes DEF Lines
    <3>2. channel[s] # <<>>
      BY <3>1
    <3>3. /\ channel[s][i] = Reconcile => i = Len(channel[s])
          /\ channel[s][i] # Reconcile => channel[s][i].gen = s
          /\ i > 1 /\ channel[s][i] # Reconcile =>
                channel[s][i].seq = channel[s][i - 1].seq + 1
      BY <3>1 DEF LineAt, Forwarded, InLine
    <3>4. channel[s][i] = Reconcile => streams[s].pc = "gone"
      BY <3>1, <3>2, <3>3 DEF LineAt, Forwarded, EndsWith
    <3>5. i = 1 /\ channel[s][i] # Reconcile /\ Owns(s) /\ verifier.on =>
             channel[s][i].seq = verifier.last + 1
      BY <3>1, <3>2 DEF LineAt, Listening, Continues, BeginsAfter
    <3> QED
      BY <3>3, <3>4, <3>5
  <2> QED
    BY <2>1, <2>2, <2>3 DEF TextHasNoGap
<1> QED
  BY <1>1, Invariant, PTL

(* ScreenShowsTheRoom, for any number of rooms, branches, streams and      *)
(* errands: what was read, started or flushed for another room never       *)
(* arrives in the one that is open, and nothing of another room is on the  *)
(* screen but what an errand of that room wrote last.                      *)
THEOREM RoomShown == Spec => []ScreenShowsTheRoom
<1>1. IInv => ScreenShowsTheRoom
  <2> SUFFICES ASSUME IInv PROVE ScreenShowsTheRoom
    OBVIOUS
  <2>1. TypeOK /\ Placed /\ Written
    BY DEF IInv
  <2>2. TextOf(painted, current) /\ (Len(painted) # 0 => Len(Text) # 0)
    BY <2>1, PaintedText DEF Written
  <2>3. \A i \in 1..Len(painted) : RoomOf[BranchOf(painted[i].gen)] = room
    <3> TAKE i \in 1..Len(painted)
    <3>1. painted[i] \in Events
      BY <2>1 DEF TypeOK
    <3>2. painted[i].gen \in Stream /\ painted[i].gen # None
      BY <3>1, EventShape, StreamNumbers
    <3>3. painted[i].gen = current
      <4>1. painted[i] = Delta(current, i)
        BY <2>2 DEF TextOf
      <4>2. Delta(current, i).gen = current
        BY DEF Delta
      <4> QED
        BY <4>1, <4>2
    <3>4. Len(painted) # 0
      BY <2>1 DEF TypeOK
    <3>5. Housed(current) /\ starts[current].room = room
      BY <2>1, <2>2, <3>2, <3>3, <3>4 DEF Placed, Written
    <3> QED
      BY <3>3, <3>5 DEF Housed, BranchOf
  <2> QED
    BY <2>1, <2>3 DEF Placed, Shown, ScreenShowsTheRoom
<1> QED
  BY <1>1, Invariant, PTL

=============================================================================
