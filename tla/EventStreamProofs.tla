------------------------- MODULE EventStreamProofs -------------------------
(***************************************************************************)
(* The safety properties of EventStream for any number of appenders, tabs  *)
(* and events.  Every set of events in the model is a prefix 1..k of the   *)
(* sequence numbers; the invariant says which prefix, for                  *)
(*   the committed events and those a transaction adds (AppenderInv);      *)
(*   the histories, the view and the connection of a tab (ViewerInv).      *)
(* At the end a distance shows that a tab comes nearer to what it awaits.  *)
(***************************************************************************)
EXTENDS EventStream, SequenceTheorems, TLAPS

IsPrefix(S) == \E k \in 0..MaxEvents : S = 1..k

IsSnapshot(S) == S = NoSnapshot \/ (IsPrefix(S) /\ S \subseteq events)

AppenderInv(a) ==
  /\ IsSnapshot(appender[a].snapshot)
  /\ IsPrefix(events \cup appender[a].pending)
  /\ appender[a].pending # {} =>
       /\ lock = a
       /\ Visible(appender[a].snapshot) = events
  /\ appender[a].collided =>
       /\ reads = "transaction"
       /\ events \ appender[a].snapshot # {}

(* Between the last event v a tab shows and the cursor of its connection c *)
(* lie the events on the wire, in order; then comes what the generator has *)
(* still to yield.                                                         *)
Follows(v, c, sent) ==
  /\ v + Len(sent) = c.cursor
  /\ \A i \in 1..Len(sent) : sent[i] = v + i
  /\ 1..c.cursor \subseteq events
  /\ \E m \in 0..MaxEvents :
       /\ 1..m \subseteq events
       /\ c.batch = (c.cursor + 1)..m

Consistent(histories, shown, c, sent) ==
  /\ \A history \in histories : IsPrefix(history) /\ history \subseteq events
  /\ IsSnapshot(c.snapshot)
  /\ \E v \in 0..MaxEvents :
       /\ shown = 1..v
       /\ 1..v \subseteq events
       /\ c.at # "closed" => Follows(v, c, sent)
       /\ c.at = "closed" => sent = <<>> /\ c.batch = {}

ViewerInv(f) == Consistent(fetched[f], view[f], stream[f], wire[f])

StreamInv ==
  /\ TypeOK
  /\ IsPrefix(events)
  /\ \A a \in Appenders : AppenderInv(a)
  /\ \A f \in Viewers : ViewerInv(f)

USE EventsAssumption DEF EventsAssumption

-----------------------------------------------------------------------------
(* The largest number of a prefix, and the smallest of an interval.        *)
LEMMA LatestOfPrefix ==
  ASSUME NEW k \in Nat
  PROVE  Latest(1..k) = k
<1> DEFINE S == (1..k) \cup {0}
<1>1. k \in S /\ \A y \in S : k >= y
  OBVIOUS
<1>2. Max(S) \in S /\ \A y \in S : Max(S) >= y
  BY <1>1 DEF Max
<1>3. Max(S) = k
  BY <1>1, <1>2
<1> QED
  BY <1>3 DEF Latest

LEMMA MinOfInterval ==
  ASSUME NEW i \in Nat, NEW j \in Nat, i..j # {}
  PROVE  Min(i..j) = i
<1>1. i \in i..j /\ \A y \in i..j : i =< y
  OBVIOUS
<1>2. Min(i..j) \in i..j /\ \A y \in i..j : Min(i..j) =< y
  BY <1>1 DEF Min
<1> QED
  BY <1>1, <1>2

LEMMA CursorOfReconnect ==
  ASSUME NEW v \in Nat, NEW after \in (1..v) \cup {0}
  PROVE  EffectiveCursor(after, v) = v
<1> DEFINE S == {after, v}
<1>1. v \in S /\ \A y \in S : v >= y
  OBVIOUS
<1>2. Max(S) \in S /\ \A y \in S : Max(S) >= y
  BY <1>1 DEF Max
<1>3. Max(S) = v
  BY <1>1, <1>2
<1> QED
  BY <1>3 DEF EffectiveCursor

(* What a session sees is a prefix of the committed events, and stays one. *)
LEMMA ReadsSeePrefix ==
  ASSUME StreamInv, NEW snapshot, IsSnapshot(snapshot)
  PROVE  /\ IsPrefix(Visible(snapshot)) /\ Visible(snapshot) \subseteq events
         /\ IsSnapshot(SnapshotAfterRead(snapshot))
         /\ SnapshotAfterRead(snapshot) \in {NoSnapshot} \cup SUBSET Sequences
         /\ Visible(SnapshotAfterRead(snapshot)) = Visible(snapshot)
BY DEF StreamInv, IsSnapshot, IsPrefix, Visible, SnapshotAfterRead, NoSnapshot,
       TypeOK, Sequences

-----------------------------------------------------------------------------
(* The appenders' invariant depends on the tables and their own state; the *)
(* tabs' may see the committed events grow.                                *)
LEMMA AppendersKept ==
  ASSUME StreamInv, UNCHANGED <<reads, tables, appender>>
  PROVE  /\ \A a \in Appenders : AppenderInv(a)'
         /\ IsPrefix(events)'
BY DEF StreamInv, AppenderInv, IsSnapshot, IsPrefix, Visible, tables

LEMMA ViewerKept ==
  ASSUME StreamInv, NEW f \in Viewers, events \subseteq events',
         UNCHANGED <<reads, fetched[f], view[f], stream[f], wire[f]>>
  PROVE  ViewerInv(f)'
<1>1. ViewerInv(f)
  BY DEF StreamInv
<1>2. IsSnapshot(stream[f].snapshot)'
  BY <1>1 DEF ViewerInv, Consistent, IsSnapshot, IsPrefix
<1>3. \A history \in fetched'[f] : IsPrefix(history) /\ history \subseteq events'
  BY <1>1 DEF ViewerInv, Consistent
<1>4. PICK v \in 0..MaxEvents :
        /\ view[f] = 1..v
        /\ 1..v \subseteq events
        /\ stream[f].at # "closed" => Follows(v, stream[f], wire[f])
        /\ stream[f].at = "closed" => wire[f] = <<>> /\ stream[f].batch = {}
  BY <1>1 DEF ViewerInv, Consistent
<1>5. stream'[f].at # "closed" => Follows(v, stream[f], wire[f])'
  BY <1>4 DEF Follows
<1> QED
  BY <1>2, <1>3, <1>4, <1>5 DEF ViewerInv, Consistent, IsPrefix

AppenderType ==
  [snapshot : {NoSnapshot} \cup SUBSET Sequences,
   pending : SUBSET Sequences, collided : BOOLEAN]

(* A step of an appender keeps the types when its transaction has one.     *)
LEMMA AppenderTyped ==
  ASSUME TypeOK, NEW a \in Appenders, NEW t \in AppenderType,
         appender' = [appender EXCEPT ![a] = t],
         events' \subseteq Sequences, lock' \in Appenders \cup {Nobody},
         \A b \in Appenders \ {a} : appender[b].pending # {} => lock' = b,
         t.pending # {} => lock' = a,
         UNCHANGED <<reads, browser, stream, wire>>
  PROVE  TypeOK'
<1>1. appender' \in [Appenders -> AppenderType]
  BY DEF TypeOK, AppenderType
<1>2. ASSUME NEW b \in Appenders, appender'[b].pending # {} PROVE lock' = b
  BY <1>2 DEF TypeOK
<1> QED
  BY <1>1, <1>2 DEF TypeOK, AppenderType, browser

LEMMA AppendingKeepsInv ==
  ASSUME StreamInv, NEW a \in Appenders, Appending(a)
  PROVE  StreamInv'
<1>a. /\ TypeOK /\ IsPrefix(events)
      /\ \A b \in Appenders : AppenderInv(b)
  BY DEF StreamInv
<1>b. UNCHANGED <<reads, browser, stream, wire>>
  BY DEF Appending, ReadsFirst, LocksRun, AppendEvent, AppendCollides,
         CommitsEvents, RollsBack
<1>c. ASSUME events \subseteq events', TypeOK', IsPrefix(events)',
             \A b \in Appenders : AppenderInv(b)'
      PROVE  StreamInv'
  <2>1. \A f \in Viewers : ViewerInv(f)'
    BY <1>b, <1>c, ViewerKept DEF browser
  <2> QED
    BY <1>c, <2>1 DEF StreamInv
<1>d. IsSnapshot(appender[a].snapshot)
  BY <1>a DEF AppenderInv
<1> DEFINE seen == Visible(appender[a].snapshot)
           after == SnapshotAfterRead(appender[a].snapshot)
<1>e. /\ IsPrefix(seen) /\ seen \subseteq events
      /\ IsSnapshot(after) /\ Visible(after) = seen
      /\ after \in {NoSnapshot} \cup SUBSET Sequences
  BY <1>d, ReadsSeePrefix
<1>f. appender[a] \in AppenderType
  BY <1>a DEF TypeOK, AppenderType
<1> HIDE DEF seen, after
<1>1. CASE ReadsFirst(a)
  <2>1. /\ ~appender[a].collided
        /\ appender' = [appender EXCEPT ![a].snapshot = after]
        /\ UNCHANGED <<reads, events, lock>>
    BY <1>1 DEF ReadsFirst, tables, after
  <2> DEFINE t == [appender[a] EXCEPT !.snapshot = after]
  <2>2. TypeOK'
    <3>1. t \in AppenderType /\ t.pending = appender[a].pending
      BY <1>e, <1>f DEF AppenderType
    <3>2. appender' = [appender EXCEPT ![a] = t]
      BY <2>1
    <3> HIDE DEF t
    <3> QED
      BY <3>1, <3>2, <2>1, <1>a, <1>b, AppenderTyped DEF TypeOK
  <2>3. ASSUME NEW b \in Appenders PROVE AppenderInv(b)'
    <3>1. CASE b = a
      <4>1. /\ appender'[a].snapshot = after
            /\ appender'[a].pending = appender[a].pending
            /\ ~appender'[a].collided
        BY <2>1, <1>a DEF TypeOK
      <4>2. AppenderInv(a)
        BY <1>a
      <4>3. IsSnapshot(appender[a].snapshot)'
        BY <4>1, <2>1, <1>e DEF IsSnapshot, IsPrefix
      <4>4. appender[a].pending # {} => Visible(appender[a].snapshot)' = events
        BY <4>1, <4>2, <2>1, <1>e DEF AppenderInv, Visible, seen
      <4> QED
        BY <3>1, <4>1, <4>2, <4>3, <4>4, <2>1 DEF AppenderInv, IsPrefix
    <3>2. CASE b # a
      <4>1. appender'[b] = appender[b]
        BY <3>2, <2>1, <1>a DEF TypeOK
      <4>2. AppenderInv(b)
        BY <1>a
      <4> QED
        BY <4>1, <4>2, <2>1
        DEF AppenderInv, IsSnapshot, IsPrefix, Visible
    <3> QED
      BY <3>1, <3>2
  <2> QED
    BY <2>1, <2>2, <2>3, <1>a, <1>c DEF IsPrefix
<1>2. CASE LocksRun(a)
  <2>1. TypeOK'
    BY <1>2, <1>a DEF LocksRun, TypeOK, browser
  <2>2. ASSUME NEW b \in Appenders PROVE AppenderInv(b)'
    BY <1>2, <1>a DEF LocksRun, AppenderInv, IsSnapshot, IsPrefix, Visible
  <2> QED
    BY <2>1, <2>2, <1>2, <1>a, <1>c DEF LocksRun, IsPrefix
<1>g. PICK k \in 0..MaxEvents : seen = 1..k
  BY <1>e DEF IsPrefix
<1>h. PICK n \in 0..MaxEvents : events = 1..n
  BY <1>a DEF IsPrefix
<1>i. k <= n
  BY <1>e, <1>g, <1>h
(* The union with its own events is a prefix, too: its next number is new. *)
<1>j. PICK m \in 0..MaxEvents :
        /\ seen \cup appender[a].pending = 1..m
        /\ appender[a].pending # {} => events \cup appender[a].pending = 1..m
  <2>1. CASE appender[a].pending = {}
    BY <2>1, <1>g
  <2>2. CASE appender[a].pending # {}
    BY <2>2, <1>a DEF AppenderInv, IsPrefix, seen
  <2> QED
    BY <2>1, <2>2
<1>k. NextSequence(a) = m + 1
  <2>1. NextSequence(a) = Latest(seen \cup appender[a].pending) + 1
    BY DEF NextSequence, seen
  <2>2. Latest(1..m) = m
    BY LatestOfPrefix
  <2> QED
    BY <2>1, <2>2, <1>j
<1>3. CASE AppendEvent(a)
  <2>1. /\ lock = a /\ ~appender[a].collided
        /\ m + 1 \in Sequences \ (events \cup appender[a].pending)
        /\ appender' = [appender EXCEPT ![a].snapshot = after,
                                       ![a].pending = @ \cup {m + 1}]
        /\ UNCHANGED <<reads, events, lock>>
    BY <1>3, <1>k DEF AppendEvent, tables, after
  (* Had another commit been hidden, the number would have been refused.   *)
  <2>2. seen = events
    <3>1. CASE appender[a].pending # {}
      BY <3>1, <1>a DEF AppenderInv, seen
    <3>2. CASE appender[a].pending = {}
      <4>1. seen = 1..m /\ m + 1 \notin 1..n
        BY <3>2, <2>1, <1>h, <1>j
      <4>2. n <= m
        BY <4>1
      <4> QED
        BY <4>1, <4>2, <1>e, <1>h
    <3> QED
      BY <3>1, <3>2
  <2>3. events \cup appender[a].pending = 1..m
    BY <2>2, <1>j
  <2> DEFINE t == [appender[a] EXCEPT !.snapshot = after,
                                      !.pending = @ \cup {m + 1}]
  <2>4. TypeOK'
    <3>1. t \in AppenderType
      BY <1>e, <1>f, <2>1 DEF AppenderType
    <3>2. appender' = [appender EXCEPT ![a] = t]
      BY <2>1
    <3> HIDE DEF t
    <3> QED
      BY <3>1, <3>2, <2>1, <1>a, <1>b, AppenderTyped DEF TypeOK
  <2>5. ASSUME NEW b \in Appenders PROVE AppenderInv(b)'
    <3>1. CASE b = a
      <4>1. /\ appender'[a].snapshot = after
            /\ appender'[a].pending = appender[a].pending \cup {m + 1}
            /\ ~appender'[a].collided
        BY <2>1, <1>a DEF TypeOK
      <4>2. IsSnapshot(appender[a].snapshot)'
        BY <4>1, <2>1, <1>e DEF IsSnapshot, IsPrefix
      <4>3. Visible(appender[a].snapshot)' = events
        BY <4>1, <2>1, <2>2, <1>e DEF Visible
      <4>4. events \cup appender'[a].pending = 1..(m + 1) /\ m + 1 \in 0..MaxEvents
        BY <4>1, <2>1, <2>3 DEF Sequences
      <4> QED
        BY <3>1, <4>1, <4>2, <4>3, <4>4, <2>1 DEF AppenderInv, IsPrefix
    <3>2. CASE b # a
      <4>1. appender'[b] = appender[b]
        BY <3>2, <2>1, <1>a DEF TypeOK
      <4>2. AppenderInv(b)
        BY <1>a
      <4> QED
        BY <4>1, <4>2, <2>1
        DEF AppenderInv, IsSnapshot, IsPrefix, Visible
    <3> QED
      BY <3>1, <3>2
  <2> QED
    BY <2>1, <2>4, <2>5, <1>a, <1>c DEF IsPrefix
<1>4. CASE AppendCollides(a)
  <2>1. /\ lock = a /\ ~appender[a].collided
        /\ m + 1 \in events \cup appender[a].pending
        /\ appender' = [appender EXCEPT ![a].snapshot = after,
                                       ![a].collided = TRUE]
        /\ UNCHANGED <<reads, events, lock>>
    BY <1>4, <1>k DEF AppendCollides, tables, after
  (* A transaction that has added events sees all that is committed.       *)
  <2>2. appender[a].pending = {}
    BY <2>1, <1>j
  <2>3. seen # events /\ m + 1 \in events \ seen
    BY <2>1, <2>2, <1>j
  <2>4. reads = "transaction" /\ after = seen
    BY <2>3, <1>a DEF TypeOK, seen, after, Visible, SnapshotAfterRead
  <2> DEFINE t == [appender[a] EXCEPT !.snapshot = after, !.collided = TRUE]
  <2>5. TypeOK'
    <3>1. t \in AppenderType /\ t.pending = appender[a].pending
      BY <1>e, <1>f DEF AppenderType
    <3>2. appender' = [appender EXCEPT ![a] = t]
      BY <2>1
    <3> HIDE DEF t
    <3> QED
      BY <3>1, <3>2, <2>1, <1>a, <1>b, AppenderTyped DEF TypeOK
  <2>6. ASSUME NEW b \in Appenders PROVE AppenderInv(b)'
    <3>1. CASE b = a
      <4>1. /\ appender'[a].snapshot = after
            /\ appender'[a].pending = {}
        BY <2>1, <2>2, <1>a DEF TypeOK
      <4>2. IsSnapshot(appender[a].snapshot)'
        BY <4>1, <2>1, <1>e DEF IsSnapshot, IsPrefix
      <4> QED
        BY <3>1, <4>1, <4>2, <2>1, <2>3, <2>4, <1>a DEF AppenderInv, IsPrefix
    <3>2. CASE b # a
      <4>1. appender'[b] = appender[b]
        BY <3>2, <2>1, <1>a DEF TypeOK
      <4>2. AppenderInv(b)
        BY <1>a
      <4> QED
        BY <4>1, <4>2, <2>1
        DEF AppenderInv, IsSnapshot, IsPrefix, Visible
    <3> QED
      BY <3>1, <3>2
  <2> QED
    BY <2>1, <2>5, <2>6, <1>a, <1>c DEF IsPrefix
<1>l. ASSUME Releases(a), events \subseteq events', events' \subseteq Sequences,
             IsPrefix(events)',
             \A b \in Appenders \ {a} :
               events' = events \/ appender[b].pending = {}
      PROVE  StreamInv'
  <2>1. /\ lock' = IF lock = a THEN Nobody ELSE lock
        /\ appender' = [appender EXCEPT ![a] = NoTransaction]
        /\ reads' = reads
    BY <1>l, <1>b DEF Releases
  <2>2. TypeOK'
    <3>1. NoTransaction \in AppenderType /\ NoTransaction.pending = {}
      BY DEF NoTransaction, AppenderType
    <3>2. lock' \in Appenders \cup {Nobody}
      BY <2>1, <1>a DEF TypeOK
    <3>3. \A b \in Appenders \ {a} : appender[b].pending # {} => lock' = b
      BY <2>1, <1>a DEF TypeOK
    <3> QED
      BY <3>1, <3>2, <3>3, <2>1, <1>l, <1>a, <1>b, AppenderTyped
  <2>3. ASSUME NEW b \in Appenders PROVE AppenderInv(b)'
    <3>1. CASE b = a
      BY <3>1, <2>1, <1>l, <1>a
      DEF TypeOK, NoTransaction, AppenderInv, IsSnapshot, IsPrefix
    <3>2. CASE b # a
      <4>1. appender'[b] = appender[b] /\ AppenderInv(b)
        BY <3>2, <2>1, <1>a DEF TypeOK
      <4>2. IsSnapshot(appender[b].snapshot)'
        BY <4>1, <1>l DEF AppenderInv, IsSnapshot, IsPrefix
      <4>3. (events \ appender[b].snapshot # {}) =>
              (events \ appender[b].snapshot # {})'
        BY <4>1, <1>l
      <4>4. CASE appender[b].pending = {}
        BY <4>1, <4>2, <4>3, <4>4, <2>1, <1>l DEF AppenderInv, IsPrefix
      <4>5. CASE events' = events /\ appender[b].pending # {}
        <5>1. lock' = b
          BY <4>5, <3>2, <2>1, <1>a DEF TypeOK
        <5> QED
          BY <4>1, <4>2, <4>3, <4>5, <5>1, <2>1
          DEF AppenderInv, IsPrefix, Visible
      <4> QED
        BY <4>4, <4>5, <3>2, <1>l
    <3> QED
      BY <3>1, <3>2
  <2> QED
    BY <2>2, <2>3, <1>c, <1>l
<1>5. CASE CommitsEvents(a)
  <2>1. events' = events \cup appender[a].pending /\ Releases(a)
    BY <1>5 DEF CommitsEvents
  <2>2. events' \subseteq Sequences /\ IsPrefix(events)'
    BY <2>1, <1>a, <1>f DEF TypeOK, AppenderType, AppenderInv, IsPrefix
  <2>3. \A b \in Appenders \ {a} : events' = events \/ appender[b].pending = {}
    BY <2>1, <1>a DEF TypeOK
  <2> QED
    BY <2>1, <2>2, <2>3, <1>l
<1>6. CASE RollsBack(a)
  BY <1>6, <1>a, <1>l DEF RollsBack, TypeOK, IsPrefix
<1> QED
  BY <1>1, <1>2, <1>3, <1>4, <1>5, <1>6 DEF Appending

-----------------------------------------------------------------------------
StreamType ==
  [at : {"closed", "opening", "replaying", "polling"}, cursor : 0..MaxEvents,
   snapshot : {NoSnapshot} \cup SUBSET Sequences, batch : SUBSET Sequences]

(* A step of one tab or its connection keeps the invariant when what it    *)
(* leaves of the tab is consistent.                                        *)
LEMMA ViewerMoves ==
  ASSUME StreamInv, NEW f \in Viewers, NEW histories, NEW shown,
         NEW c \in StreamType, NEW sent \in Seq(Sequences),
         Consistent(histories, shown, c, sent),
         UNCHANGED <<reads, tables, appender>>,
         fetched' = [fetched EXCEPT ![f] = histories],
         view' = [view EXCEPT ![f] = shown],
         stream' = [stream EXCEPT ![f] = c],
         wire' = [wire EXCEPT ![f] = sent]
  PROVE  StreamInv'
<1>a. TypeOK
  BY DEF StreamInv
<1>b. UNCHANGED <<reads, events, lock, appender>>
  BY DEF tables
<1>1. TypeOK'
  <2>1. histories \in SUBSET SUBSET Sequences /\ shown \in SUBSET Sequences
    BY <1>a DEF Consistent, TypeOK
  <2>2. \A n \in c.batch : n > c.cursor
    BY DEF Consistent, Follows, StreamType
  <2>3. /\ fetched' \in [Viewers -> SUBSET SUBSET Sequences]
        /\ view' \in [Viewers -> SUBSET Sequences]
        /\ stream' \in [Viewers -> StreamType]
        /\ wire' \in [Viewers -> Seq(Sequences)]
    BY <1>a, <2>1 DEF TypeOK, StreamType
  <2>4. \A g \in Viewers : \A n \in stream'[g].batch : n > stream'[g].cursor
    BY <1>a, <2>2 DEF TypeOK
  <2> QED
    BY <1>a, <1>b, <2>3, <2>4 DEF TypeOK, StreamType
<1>2. ASSUME NEW g \in Viewers PROVE ViewerInv(g)'
  <2>1. CASE g = f
    <3>1. /\ fetched'[g] = histories /\ view'[g] = shown
          /\ stream'[g] = c /\ wire'[g] = sent
      BY <2>1, <1>a DEF TypeOK
    <3> QED
      BY <3>1, <1>b DEF ViewerInv, Consistent, Follows, IsSnapshot, IsPrefix
  <2>2. CASE g # f
    <3>1. UNCHANGED <<fetched[g], view[g], stream[g], wire[g]>>
      BY <2>2, <1>a DEF TypeOK
    <3> QED
      BY <3>1, <1>b, ViewerKept
  <2> QED
    BY <2>1, <2>2
<1> QED
  BY <1>1, <1>2, AppendersKept DEF StreamInv

(* What is left of a tab when nothing of it changes is what it was. *)
LEMMA ViewerParts ==
  ASSUME StreamInv, NEW f \in Viewers
  PROVE  /\ Consistent(fetched[f], view[f], stream[f], wire[f])
         /\ stream[f] \in StreamType
         /\ wire[f] \in Seq(Sequences)
         /\ fetched = [fetched EXCEPT ![f] = fetched[f]]
         /\ view = [view EXCEPT ![f] = view[f]]
         /\ stream = [stream EXCEPT ![f] = stream[f]]
         /\ wire = [wire EXCEPT ![f] = wire[f]]
BY DEF StreamInv, ViewerInv, TypeOK, StreamType

(* Opening a connection after the last event that the tab shows.           *)
LEMMA OpeningConsistent ==
  ASSUME StreamInv, NEW histories,
         \A history \in histories : IsPrefix(history) /\ history \subseteq events,
         NEW v \in 0..MaxEvents, 1..v \subseteq events
  PROVE  /\ Consistent(histories, 1..v, Opening(v), <<>>)
         /\ Opening(v) \in StreamType
<1> DEFINE c == Opening(v)
<1>1. c \in StreamType
  BY DEF Opening, StreamType
<1>2. /\ c.cursor = v /\ c.batch = {} /\ c.snapshot = NoSnapshot
      /\ c.at = "opening"
  BY DEF Opening
<1>3. 0 \in 0..MaxEvents /\ c.batch = (c.cursor + 1)..0 /\ 1..0 \subseteq events
  BY <1>2
<1>4. Follows(v, c, <<>>)
  BY <1>2, <1>3 DEF Follows
<1> QED
  BY <1>1, <1>2, <1>4 DEF Consistent, IsSnapshot

LEMMA ReadsConsistent ==
  ASSUME StreamInv, NEW f \in Viewers, NEW at \in {"replaying", "polling"},
         Live(f), Reads(f, at),
         UNCHANGED <<reads, tables, appender, browser, wire>>
  PROVE  StreamInv'
<1> DEFINE after == SnapshotAfterRead(stream[f].snapshot)
           seen == Visible(stream[f].snapshot)
           read == {n \in seen : n > stream[f].cursor}
           c == [stream[f] EXCEPT !.at = at, !.snapshot = after, !.batch = read]
<1>a. /\ Consistent(fetched[f], view[f], stream[f], wire[f])
      /\ stream[f] \in StreamType /\ wire[f] \in Seq(Sequences)
  BY ViewerParts
<1>b. /\ IsPrefix(seen) /\ seen \subseteq events
      /\ IsSnapshot(after)
      /\ after \in {NoSnapshot} \cup SUBSET Sequences
  BY <1>a, ReadsSeePrefix DEF Consistent
<1>1. stream' = [stream EXCEPT ![f] = c]
  BY DEF Reads
<1> HIDE DEF after, seen
<1>2. c \in StreamType
  <2>1. read \in SUBSET Sequences
    BY <1>b DEF StreamInv, TypeOK
  <2> QED
    BY <2>1, <1>a, <1>b DEF StreamType
<1>d. /\ c.at = at /\ c.cursor = stream[f].cursor
      /\ c.snapshot = after /\ c.batch = read
  BY <1>a DEF StreamType
<1> HIDE DEF c
<1>3. PICK m \in 0..MaxEvents : seen = 1..m
  BY <1>b DEF IsPrefix
<1>4. read = (stream[f].cursor + 1)..m
  BY <1>3, <1>a DEF StreamType
<1>5. Consistent(fetched[f], view[f], c, wire[f])
  <2>1. PICK v \in 0..MaxEvents :
          view[f] = 1..v /\ 1..v \subseteq events /\ Follows(v, stream[f], wire[f])
    BY <1>a DEF Consistent, Live
  <2>2. Follows(v, c, wire[f])
    BY <2>1, <1>b, <1>d, <1>3, <1>4 DEF Follows
  <2> QED
    BY <2>1, <2>2, <1>a, <1>b, <1>d DEF Consistent
<1>6. /\ fetched' = [fetched EXCEPT ![f] = fetched[f]]
      /\ view' = [view EXCEPT ![f] = view[f]]
      /\ wire' = [wire EXCEPT ![f] = wire[f]]
  BY ViewerParts DEF browser
<1> QED
  BY <1>1, <1>2, <1>5, <1>6, <1>a, ViewerMoves

LEMMA ViewingKeepsInv ==
  ASSUME StreamInv, NEW f \in Viewers, Serving(f) \/ Browsing(f)
  PROVE  StreamInv'
<1>a. /\ Consistent(fetched[f], view[f], stream[f], wire[f])
      /\ stream[f] \in StreamType /\ wire[f] \in Seq(Sequences)
  BY ViewerParts
<1>b. PICK v \in 0..MaxEvents :
        /\ view[f] = 1..v
        /\ 1..v \subseteq events
        /\ Live(f) => Follows(v, stream[f], wire[f])
        /\ ~Live(f) => wire[f] = <<>> /\ stream[f].batch = {}
  BY <1>a DEF Consistent, Live
<1>c. Latest(view[f]) = v
  BY <1>b, LatestOfPrefix
<1>1. CASE AnswersRequest(f)
  BY <1>1, ReadsConsistent DEF AnswersRequest, Live
<1>2. CASE Polls(f)
  BY <1>2, ReadsConsistent DEF Polls, Live
<1>d. /\ fetched = [fetched EXCEPT ![f] = fetched[f]]
      /\ view = [view EXCEPT ![f] = view[f]]
      /\ stream = [stream EXCEPT ![f] = stream[f]]
      /\ wire = [wire EXCEPT ![f] = wire[f]]
  BY ViewerParts
<1>e. /\ \A history \in fetched[f] : IsPrefix(history) /\ history \subseteq events
      /\ IsSnapshot(stream[f].snapshot)
  BY <1>a DEF Consistent
<1>f. 1..v \subseteq Sequences /\ events \subseteq Sequences /\ IsPrefix(events)
  BY <1>b DEF StreamInv, TypeOK
<1>3. CASE YieldsEvent(f)
  <2>1. Follows(v, stream[f], wire[f])
    BY <1>3, <1>b DEF YieldsEvent
  <2>2. PICK m \in 0..MaxEvents :
          /\ 1..m \subseteq events
          /\ stream[f].batch = (stream[f].cursor + 1)..m
    BY <2>1 DEF Follows
  <2> DEFINE event == stream[f].cursor + 1
             c == [stream[f] EXCEPT !.cursor = event, !.batch = @ \ {event}]
             sent == Append(wire[f], event)
  <2>3. Min(stream[f].batch) = event
    <3>1. event \in Nat /\ m \in Nat /\ event..m # {}
      BY <2>2, <1>3, <1>a DEF YieldsEvent, StreamType
    <3>2. Min(event..m) = event
      BY <3>1, MinOfInterval
    <3> QED
      BY <2>2, <3>2
  <2>4. event \in 1..m /\ event \in 1..MaxEvents
    BY <2>2, <1>3, <1>a DEF YieldsEvent, StreamType
  <2>5. /\ c.cursor = event /\ c.at = stream[f].at
        /\ c.snapshot = stream[f].snapshot /\ c.batch = (event + 1)..m
    <3>1. (event..m) \ {event} = (event + 1)..m
      BY <2>4
    <3> QED
      BY <2>2, <3>1, <1>a DEF StreamType
  <2>6. c \in StreamType /\ sent \in Seq(Sequences)
    <3>1. event \in Sequences /\ event \in 0..MaxEvents
      BY <2>4 DEF Sequences
    <3>2. stream[f].batch \ {event} \in SUBSET Sequences
      BY <1>a DEF StreamType
    <3>3. c \in StreamType
      BY <3>1, <3>2, <1>a DEF StreamType
    <3> QED
      BY <3>1, <3>3, <1>a, AppendProperties
  <2>7. /\ stream' = [stream EXCEPT ![f] = c]
        /\ wire' = [wire EXCEPT ![f] = sent]
        /\ UNCHANGED <<reads, tables, appender, browser>>
    BY <1>3, <2>3 DEF YieldsEvent
  <2>8. /\ Len(sent) = Len(wire[f]) + 1
        /\ sent[Len(wire[f]) + 1] = event
        /\ \A i \in 1..Len(wire[f]) : sent[i] = wire[f][i]
    BY <2>4, <1>a, AppendProperties DEF Sequences
  <2>9. Follows(v, c, sent)
    <3>1. v + Len(sent) = c.cursor
      BY <2>1, <2>5, <2>8, <1>a DEF Follows, StreamType
    <3>2. ASSUME NEW i \in 1..Len(sent) PROVE sent[i] = v + i
      <4>1. CASE i \in 1..Len(wire[f])
        BY <4>1, <2>1, <2>8 DEF Follows
      <4>2. CASE i = Len(wire[f]) + 1
        BY <4>2, <2>1, <2>8, <1>a DEF Follows, StreamType
      <4>3. Len(wire[f]) \in Nat
        BY <1>a
      <4> QED
        BY <4>1, <4>2, <4>3, <2>8
    <3>3. 1..c.cursor \subseteq events
      BY <2>2, <2>4, <2>5
    <3> QED
      BY <3>1, <3>2, <3>3, <2>2, <2>5 DEF Follows
  <2> HIDE DEF c, sent
  <2>10. Consistent(fetched[f], view[f], c, sent)
    BY <2>5, <2>9, <1>b, <1>e, <1>3 DEF Consistent, Live, YieldsEvent
  <2> QED
    BY <2>6, <2>7, <2>10, <1>d, ViewerMoves DEF browser
<1>4. CASE Receives(f)
  <2>1. wire[f] # <<>> /\ Live(f)
    BY <1>4, <1>b DEF Receives
  <2>2. Follows(v, stream[f], wire[f])
    BY <2>1, <1>b
  <2> DEFINE sent == Tail(wire[f])
  <2>3. /\ sent \in Seq(Sequences)
        /\ Len(sent) = Len(wire[f]) - 1
        /\ \A i \in 1..Len(sent) : sent[i] = wire[f][i + 1]
    BY <2>1, <1>a, HeadTailProperties
  <2> HIDE DEF sent
  <2>4. Len(wire[f]) \in Nat \ {0} /\ Head(wire[f]) = wire[f][1]
    BY <2>1, <1>a
  <2>5. Head(wire[f]) = v + 1 /\ v + 1 <= stream[f].cursor
    BY <2>2, <2>4 DEF Follows
  <2>6. v + 1 \in 0..MaxEvents /\ 1..(v + 1) \subseteq events
    <3>1. stream[f].cursor \in 0..MaxEvents
      BY <1>a DEF StreamType
    <3>2. 1..stream[f].cursor \subseteq events
      BY <2>2 DEF Follows
    <3>3. v + 1 \in 0..MaxEvents
      BY <2>5, <3>1
    <3>4. 1..(v + 1) \subseteq 1..stream[f].cursor
      BY <2>5, <3>1
    <3> QED
      BY <3>2, <3>3, <3>4
  <2>7. Follows(v + 1, stream[f], sent)
    <3>1. v + 1 + Len(sent) = stream[f].cursor
      <4>1. v + Len(wire[f]) = stream[f].cursor
        BY <2>2 DEF Follows
      <4>2. PICK l \in Nat : Len(sent) = l /\ Len(wire[f]) = l + 1
        BY <2>3, <2>4
      <4>3. v + 1 + l = stream[f].cursor
        BY <4>1, <4>2
      <4> QED
        BY <4>2, <4>3
    <3>2. ASSUME NEW i \in 1..Len(sent) PROVE sent[i] = v + 1 + i
      <4>1. i + 1 \in 1..Len(wire[f])
        BY <2>3, <2>4
      <4> QED
        BY <4>1, <2>2, <2>3 DEF Follows
    <3> QED
      BY <3>1, <3>2, <2>2 DEF Follows
  <2>8. view' = [view EXCEPT ![f] = 1..(v + 1)]
    <3>1. (1..v) \cup {v + 1} = 1..(v + 1)
      OBVIOUS
    <3>2. view' = [view EXCEPT ![f] = view[f] \cup {Head(wire[f])}]
      BY <1>4 DEF Receives
    <3> QED
      BY <3>1, <3>2, <2>5, <1>b
  <2>9. Consistent(fetched[f], 1..(v + 1), stream[f], sent)
    BY <2>1, <2>6, <2>7, <1>e DEF Consistent, Live
  <2>10. /\ wire' = [wire EXCEPT ![f] = sent]
         /\ UNCHANGED <<reads, tables, appender, fetched, stream>>
    BY <1>4 DEF Receives, sent
  <2> QED
    BY <2>3, <2>8, <2>9, <2>10, <1>a, <1>d, ViewerMoves
<1>5. CASE FetchesHistory(f)
  <2> DEFINE histories == fetched[f] \cup {events}
  <2>1. Consistent(histories, view[f], stream[f], wire[f])
    BY <1>b, <1>e, <1>f DEF Consistent, Live
  <2>2. /\ fetched' = [fetched EXCEPT ![f] = histories]
        /\ UNCHANGED <<reads, tables, appender, view, stream, wire>>
    BY <1>5 DEF FetchesHistory
  <2> HIDE DEF histories
  <2> QED
    BY <2>1, <2>2, <1>a, <1>d, ViewerMoves
<1>6. CASE ShowsHistory(f)
  <2>1. PICK history \in fetched[f] :
          /\ fetched' = [fetched EXCEPT ![f] = @ \ {history}]
          /\ view' = [view EXCEPT ![f] = history]
          /\ stream' = [stream EXCEPT ![f] = Opening(Latest(history))]
          /\ wire' = [wire EXCEPT ![f] = <<>>]
          /\ UNCHANGED <<reads, tables, appender>>
    BY <1>6 DEF ShowsHistory
  <2>2. PICK w \in 0..MaxEvents : history = 1..w /\ 1..w \subseteq events
    BY <1>e DEF IsPrefix
  <2>3. Latest(history) = w
    BY <2>2, LatestOfPrefix
  <2> DEFINE histories == fetched[f] \ {history}
  <2>4. \A h \in histories : IsPrefix(h) /\ h \subseteq events
    BY <1>e
  <2> HIDE DEF histories
  <2>5. /\ Consistent(histories, 1..w, Opening(w), <<>>)
        /\ Opening(w) \in StreamType
    BY <2>2, <2>4, OpeningConsistent
  <2>6. /\ fetched' = [fetched EXCEPT ![f] = histories]
        /\ view' = [view EXCEPT ![f] = 1..w]
        /\ stream' = [stream EXCEPT ![f] = Opening(w)]
    BY <2>1, <2>2, <2>3 DEF histories
  <2>7. <<>> \in Seq(Sequences)
    OBVIOUS
  <2> QED
    BY <2>1, <2>5, <2>6, <2>7, ViewerMoves
<1>7. CASE ConnectionBreaks(f)
  <2>1. Closed \in StreamType /\ <<>> \in Seq(Sequences)
    BY DEF Closed, StreamType
  <2>2. Consistent(fetched[f], view[f], Closed, <<>>)
    BY <1>b, <1>e DEF Closed, Consistent, IsSnapshot
  <2>3. /\ stream' = [stream EXCEPT ![f] = Closed]
        /\ wire' = [wire EXCEPT ![f] = <<>>]
        /\ UNCHANGED <<reads, tables, appender, fetched, view>>
    BY <1>7 DEF ConnectionBreaks, browser
  <2> QED
    BY <2>1, <2>2, <2>3, <1>d, ViewerMoves
<1>8. CASE Reconnects(f)
  <2>1. PICK after \in (1..v) \cup {0} :
          stream' = [stream EXCEPT ![f] = Opening(EffectiveCursor(after, v))]
    BY <1>8, <1>b, <1>c DEF Reconnects
  <2>2. EffectiveCursor(after, v) = v
    BY CursorOfReconnect
  <2>3. /\ Consistent(fetched[f], 1..v, Opening(v), <<>>)
        /\ Opening(v) \in StreamType
    BY <1>b, <1>e, OpeningConsistent
  <2>4. /\ wire[f] = <<>> /\ view[f] = 1..v
        /\ UNCHANGED <<reads, tables, appender, fetched, view, wire>>
    BY <1>8, <1>b DEF Reconnects, browser
  <2>5. /\ Consistent(fetched[f], view[f], Opening(v), wire[f])
        /\ stream' = [stream EXCEPT ![f] = Opening(v)]
    BY <2>1, <2>2, <2>3, <2>4
  <2> QED
    BY <2>3, <2>4, <2>5, <1>a, <1>d, ViewerMoves
<1>9. CASE SessionCloses(f)
  <2> DEFINE c == [stream[f] EXCEPT !.snapshot = NoSnapshot]
  <2>1. /\ c \in StreamType /\ c.snapshot = NoSnapshot
        /\ c.at = stream[f].at /\ c.cursor = stream[f].cursor
        /\ c.batch = stream[f].batch
    BY <1>a DEF StreamType
  <2>2. /\ stream' = [stream EXCEPT ![f] = c]
        /\ UNCHANGED <<reads, tables, appender, fetched, view, wire>>
    BY <1>9 DEF SessionCloses, browser
  <2> HIDE DEF c
  <2>3. Live(f) => Follows(v, c, wire[f])
    BY <2>1, <1>b DEF Follows
  <2>4. Consistent(fetched[f], view[f], c, wire[f])
    BY <2>1, <2>3, <1>b, <1>e DEF Consistent, IsSnapshot, Live
  <2>5. /\ fetched' = [fetched EXCEPT ![f] = fetched[f]]
        /\ view' = [view EXCEPT ![f] = view[f]]
        /\ wire' = [wire EXCEPT ![f] = wire[f]]
        /\ UNCHANGED <<reads, tables, appender>>
    BY <2>2, <1>d
  <2>6. c \in StreamType /\ wire[f] \in Seq(Sequences)
    BY <2>1, <1>a
  <2>7. stream' = [stream EXCEPT ![f] = c]
    BY <2>2
  <2> QED
    BY <2>4, <2>5, <2>6, <2>7, ViewerMoves
<1> QED
  BY <1>1, <1>2, <1>3, <1>4, <1>5, <1>6, <1>7, <1>8, <1>9
  DEF Serving, Browsing

-----------------------------------------------------------------------------
LEMMA StreamInit == Init => StreamInv
<1> SUFFICES ASSUME Init PROVE StreamInv
  OBVIOUS
<1>a. 0 \in 0..MaxEvents /\ {} = 1..0
  OBVIOUS
<1>1. TypeOK
  BY DEF Init, TypeOK, NoTransaction, Closed
<1>2. IsPrefix(events)
  BY <1>a DEF Init, IsPrefix
<1>3. ASSUME NEW a \in Appenders PROVE AppenderInv(a)
  BY <1>a DEF Init, AppenderInv, NoTransaction, IsSnapshot, IsPrefix
<1>4. ASSUME NEW f \in Viewers PROVE ViewerInv(f)
  BY <1>a DEF Init, ViewerInv, Consistent, Closed, IsSnapshot
<1> QED
  BY <1>1, <1>2, <1>3, <1>4 DEF StreamInv

LEMMA StreamStep == StreamInv /\ [Next]_vars => StreamInv'
<1> SUFFICES ASSUME StreamInv, [Next]_vars PROVE StreamInv'
  OBVIOUS
<1>1. ASSUME NEW a \in Appenders, Appending(a) PROVE StreamInv'
  BY <1>1, AppendingKeepsInv
<1>2. ASSUME NEW f \in Viewers, Serving(f) \/ Browsing(f) PROVE StreamInv'
  BY <1>2, ViewingKeepsInv
<1>3. CASE UNCHANGED vars
  <2>1. \A f \in Viewers : ViewerInv(f)'
    BY <1>3, ViewerKept DEF vars, browser, tables
  <2>2. TypeOK'
    BY <1>3 DEF vars, browser, tables, StreamInv, TypeOK
  <2> QED
    BY <1>3, <2>1, <2>2, AppendersKept DEF vars, StreamInv
<1> QED
  BY <1>1, <1>2, <1>3 DEF Next

LEMMA StreamAlways == Spec => []StreamInv
  BY StreamInit, StreamStep, PTL DEF Spec

(* Tables, transactions, connections and views keep their types; rows are  *)
(* flushed only under the row lock, by any number of appenders.            *)
THEOREM StreamTypeCorrect == Spec => []TypeOK
<1>1. StreamInv => TypeOK
  BY DEF StreamInv
<1> QED
  BY <1>1, StreamAlways, PTL

(* Whatever commits and rolls back, the sequence numbers of a run are      *)
(* committed in order and without a gap.                                   *)
THEOREM LogGapFree == Spec => []LogIsGapFree
<1>1. StreamInv => LogIsGapFree
  BY LatestOfPrefix DEF StreamInv, IsPrefix, LogIsGapFree
<1> QED
  BY <1>1, StreamAlways, PTL

(* No cursor ever passes an event that its tab has not got and will not    *)
(* get on the same connection.                                             *)
THEOREM NothingSkipped == Spec => []NothingIsSkipped
<1>1. StreamInv => NothingIsSkipped
  <2> SUFFICES ASSUME StreamInv, NEW f \in Viewers, Live(f), NEW n \in events,
                      n <= stream[f].cursor, n \notin view[f]
               PROVE  n \in Range(wire[f])
    BY DEF NothingIsSkipped
  <2>1. PICK v \in 0..MaxEvents : view[f] = 1..v /\ Follows(v, stream[f], wire[f])
    BY ViewerParts DEF Consistent, Live
  <2>2. n \in 1..MaxEvents /\ n > v
    BY <2>1 DEF StreamInv, TypeOK, Sequences
  <2>3. wire[f] \in Seq(Sequences) /\ v + Len(wire[f]) = stream[f].cursor
    BY <2>1, ViewerParts DEF Follows
  <2>4. n - v \in 1..Len(wire[f])
    BY <2>2, <2>3
  <2>5. wire[f][n - v] = n
    BY <2>1, <2>2, <2>4 DEF Follows
  <2>6. n - v \in DOMAIN wire[f]
    BY <2>3, <2>4
  <2> QED
    BY <2>5, <2>6 DEF Range
<1> QED
  BY <1>1, StreamAlways, PTL

(* A tab always shows the history of its run up to some event.             *)
THEOREM ViewsArePrefixes == Spec => []ViewIsPrefix
<1>1. StreamInv => ViewIsPrefix
  <2> SUFFICES ASSUME StreamInv, NEW f \in Viewers
               PROVE  view[f] \subseteq events /\ view[f] = 1..Latest(view[f])
    BY DEF ViewIsPrefix
  <2>1. PICK v \in 0..MaxEvents : view[f] = 1..v /\ 1..v \subseteq events
    BY ViewerParts DEF Consistent
  <2> QED
    BY <2>1, LatestOfPrefix
<1> QED
  BY <1>1, StreamAlways, PTL

(* A refused sequence number is due to a snapshot older than a commit, and *)
(* with fresh reads no number is refused.                                  *)
THEOREM CollisionsAreStale == Spec => []CollisionMeansStale
<1>1. StreamInv => CollisionMeansStale
  BY DEF StreamInv, AppenderInv, CollisionMeansStale
<1> QED
  BY <1>1, StreamAlways, PTL

-----------------------------------------------------------------------------
(* An event that is committed has not reached a tab whose connection lives,*)
(* where every SELECT sees what is committed.                              *)
Awaits(f, n) ==
  reads = "statement" /\ n \in events /\ Live(f) /\ n \notin view[f]

(* Histories on their way to the tab that were read before the event: each *)
(* sets the tab back when it is shown.                                     *)
Stale(f, n) == {history \in fetched[f] : n \notin history}

(* How far the event is from the tab, the most significant first: events   *)
(* still to be yielded, a read still to be made, events still to be shown. *)
Unread(f, n) == IF n > stream[f].cursor THEN n - stream[f].cursor ELSE 0
Unasked(f, n) ==
  IF n > stream[f].cursor /\ (stream[f].at = "opening" \/ stream[f].batch = {})
  THEN 1 ELSE 0
Unshown(f, n) == n - Latest(view[f])

AsNear(f, n) ==
  /\ Unread(f, n)' = Unread(f, n)
  /\ Unasked(f, n)' = Unasked(f, n)
  /\ Unshown(f, n)' = Unshown(f, n)

Nearer(f, n) ==
  \/ Unread(f, n)' < Unread(f, n)
  \/ /\ Unread(f, n)' = Unread(f, n)
     /\ \/ Unasked(f, n)' < Unasked(f, n)
        \/ Unasked(f, n)' = Unasked(f, n) /\ Unshown(f, n)' < Unshown(f, n)

(* The steps the event waits for: those of the generator until it has been *)
(* yielded, those of the reader from then on.                              *)
Due(f, n) ==
  IF n > stream[f].cursor
  THEN AnswersRequest(f) \/ YieldsEvent(f) \/ Polls(f)
  ELSE Receives(f)

(* What a step does for an event that a tab awaits.                        *)
Advances(f, n) ==
  \/ n \in view'[f]
  \/ ~Live(f)'
  \/ Stale(f, n)' \subseteq Stale(f, n) /\ Stale(f, n)' # Stale(f, n)
  \/ /\ Stale(f, n)' = Stale(f, n)
     /\ Nearer(f, n) \/ (AsNear(f, n) /\ ~Due(f, n))

FollowerGetsOn ==
  [][\A f \in Viewers : \A n \in Sequences : Awaits(f, n) => Advances(f, n)]_vars

(* The distance is a number, and one of the due steps is always possible.  *)
NeverStuck ==
  \A f \in Viewers : \A n \in Sequences : Awaits(f, n) =>
    /\ Unread(f, n) \in Nat
    /\ Unshown(f, n) \in Nat
    /\ IF n > stream[f].cursor
       THEN \/ stream[f].at = "opening"
            \/ stream[f].batch # {}
            \/ stream[f].at \in {"replaying", "polling"}
       ELSE wire[f] # <<>>

(* The parts of a tab that awaits an event.                                *)
LEMMA AwaitingParts ==
  ASSUME StreamInv, NEW f \in Viewers, NEW n \in Sequences, Awaits(f, n)
  PROVE  /\ n \in Nat /\ stream[f].cursor \in Nat
         /\ \E v \in 0..MaxEvents :
              /\ view[f] = 1..v /\ Latest(view[f]) = v /\ v < n
              /\ Follows(v, stream[f], wire[f])
<1>1. stream[f] \in StreamType
  BY ViewerParts
<1>2. PICK v \in 0..MaxEvents : view[f] = 1..v /\ Follows(v, stream[f], wire[f])
  BY ViewerParts DEF Consistent, Awaits, Live
<1>3. Latest(view[f]) = v
  BY <1>2, LatestOfPrefix
<1>4. n \in Nat /\ v < n
  BY <1>2 DEF Awaits, Sequences
<1>5. stream[f].cursor \in Nat
  BY <1>1 DEF StreamType
<1> QED
  BY <1>2, <1>3, <1>4, <1>5

(* A read finds the event, whatever else it finds.                         *)
LEMMA ReadsNear ==
  ASSUME StreamInv, NEW f \in Viewers, NEW n \in Sequences, Awaits(f, n),
         NEW at \in {"replaying", "polling"}, Reads(f, at),
         stream[f].at = "opening" \/ stream[f].batch = {},
         UNCHANGED <<fetched, view>>, n > stream[f].cursor
  PROVE  Nearer(f, n)
<1> DEFINE c == stream'[f]
           read == {m \in events : m > stream[f].cursor}
<1>1. stream[f] \in StreamType /\ stream \in [Viewers -> StreamType]
  BY DEF StreamInv, TypeOK, StreamType
<1>2. Visible(stream[f].snapshot) = events
  BY DEF Visible, Awaits
<1>3. stream' = [stream EXCEPT ![f].at = at, ![f].snapshot = SnapshotAfterRead(@),
                               ![f].batch = read]
  BY <1>2 DEF Reads
<1>4. c.cursor = stream[f].cursor /\ c.at = at /\ c.batch = read
  <2> HIDE DEF read
  <2> QED
    BY <1>1, <1>3 DEF StreamType
<1>5. read # {}
  BY DEF Awaits
<1> HIDE DEF read
<1>6. Unread(f, n)' = Unread(f, n)
  BY <1>4, Zenon DEF Unread
<1>7. Unasked(f, n) = 1
  BY Zenon DEF Unasked
<1>8. at # "opening"
  OBVIOUS
<1>9. Unasked(f, n)' = 0
  BY <1>4, <1>5, <1>8, Zenon DEF Unasked
<1> QED
  BY <1>6, <1>7, <1>9 DEF Nearer

(* An event that is yielded is the one after the cursor.                   *)
LEMMA YieldsNext ==
  ASSUME StreamInv, NEW f \in Viewers, Live(f), YieldsEvent(f)
  PROVE  /\ stream'[f].cursor = stream[f].cursor + 1
         /\ stream[f].cursor \in Nat
         /\ UNCHANGED <<fetched, view>>
<1>1. stream[f] \in StreamType /\ stream \in [Viewers -> StreamType]
  BY DEF StreamInv, TypeOK, StreamType
<1>2. PICK m \in 0..MaxEvents : stream[f].batch = (stream[f].cursor + 1)..m
  BY ViewerParts DEF Consistent, Live, Follows
<1> DEFINE event == stream[f].cursor + 1
<1>3. stream[f].cursor \in Nat /\ event \in Nat /\ m \in Nat /\ event..m # {}
  BY <1>1, <1>2 DEF YieldsEvent, StreamType
<1>4. Min(stream[f].batch) = event
  BY <1>2, <1>3, MinOfInterval
<1>5. stream' = [stream EXCEPT ![f].cursor = event, ![f].batch = @ \ {event}]
  BY <1>4 DEF YieldsEvent
<1> HIDE DEF event
<1>6. stream'[f].cursor = event
  BY <1>1, <1>5 DEF StreamType
<1> QED
  BY <1>3, <1>6 DEF event, YieldsEvent, browser

(* An event that is received is the one after the last that is shown.      *)
LEMMA ReceivesNext ==
  ASSUME StreamInv, NEW f \in Viewers, NEW n \in Sequences, Awaits(f, n), Receives(f)
  PROVE  /\ n \in view'[f] \/ Unshown(f, n)' < Unshown(f, n)
         /\ UNCHANGED <<fetched, stream>>
<1>1. PICK v \in 0..MaxEvents :
        /\ view[f] = 1..v /\ Latest(view[f]) = v /\ v < n
        /\ Follows(v, stream[f], wire[f])
  BY AwaitingParts
<1>2. wire[f] \in Seq(Sequences) /\ wire[f] # <<>> /\ view \in [Viewers -> SUBSET Sequences]
  BY DEF StreamInv, TypeOK, Receives
<1>3. Head(wire[f]) = v + 1
  <2>1. 1 \in 1..Len(wire[f]) /\ Head(wire[f]) = wire[f][1]
    BY <1>2
  <2> QED
    BY <1>1, <2>1 DEF Follows
<1>4. view'[f] = 1..(v + 1)
  <2>1. view'[f] = view[f] \cup {v + 1}
    BY <1>2, <1>3 DEF Receives
  <2>2. (1..v) \cup {v + 1} = 1..(v + 1)
    OBVIOUS
  <2> QED
    BY <1>1, <2>1, <2>2
<1>5. Latest(view'[f]) = v + 1
  <2>1. v + 1 \in Nat
    OBVIOUS
  <2> QED
    BY <1>4, <2>1, LatestOfPrefix
<1>6. Unshown(f, n) = n - v /\ Unshown(f, n)' = n - (v + 1)
  BY <1>1, <1>5 DEF Unshown, Latest
<1>7. n \in Nat
  BY DEF Sequences
<1> QED
  BY <1>6, <1>7 DEF Receives

(* A step of the server or the reader that the event waits for.            *)
LEMMA DueNears ==
  ASSUME StreamInv, NEW f \in Viewers, NEW n \in Sequences, Awaits(f, n), Due(f, n)
  PROVE  Advances(f, n)
<1>1. n \in Nat /\ stream[f].cursor \in Nat /\ Live(f)
  BY AwaitingParts DEF Awaits
<1>2. ASSUME fetched' = fetched PROVE Stale(f, n)' = Stale(f, n)
  BY <1>2 DEF Stale
<1>3. CASE n > stream[f].cursor /\ AnswersRequest(f)
  <2>1. /\ Reads(f, "replaying") /\ stream[f].at = "opening" /\ UNCHANGED <<fetched, view>>
    BY <1>3 DEF AnswersRequest, browser
  <2>2. Nearer(f, n)
    BY <1>3, <2>1, ReadsNear
  <2> QED
    BY <1>2, <2>1, <2>2, Zenon DEF Advances
<1>4. CASE n > stream[f].cursor /\ Polls(f)
  <2>1. /\ Reads(f, "polling") /\ stream[f].batch = {} /\ UNCHANGED <<fetched, view>>
    BY <1>4 DEF Polls, browser
  <2>2. Nearer(f, n)
    BY <1>4, <2>1, ReadsNear
  <2> QED
    BY <1>2, <2>1, <2>2, Zenon DEF Advances
<1>5. CASE n > stream[f].cursor /\ YieldsEvent(f)
  <2>1. stream'[f].cursor = stream[f].cursor + 1 /\ UNCHANGED <<fetched, view>>
    BY <1>1, <1>5, YieldsNext
  <2>2. Unread(f, n)' < Unread(f, n)
    BY <1>1, <1>5, <2>1 DEF Unread
  <2> QED
    BY <1>2, <2>1, <2>2, Zenon DEF Advances, Nearer
<1>6. CASE ~(n > stream[f].cursor) /\ Receives(f)
  <2>1. /\ n \in view'[f] \/ Unshown(f, n)' < Unshown(f, n)
        /\ UNCHANGED <<fetched, stream>>
    BY <1>6, ReceivesNext
  <2>2. Unread(f, n)' = Unread(f, n) /\ Unasked(f, n)' = Unasked(f, n)
    BY <2>1, Zenon DEF Unread, Unasked
  <2> QED
    BY <1>2, <2>1, <2>2, Zenon DEF Advances, Nearer
<1> QED
  BY <1>3, <1>4, <1>5, <1>6, Zenon DEF Due

(* No other step takes the event further away, unless it shows a history   *)
(* that was read before it.                                                *)
LEMMA OthersKeepNear ==
  ASSUME StreamInv, [Next]_vars, NEW f \in Viewers, NEW n \in Sequences, Awaits(f, n),
         ~Due(f, n)
  PROVE  Advances(f, n)
<1>1. n \in Nat /\ stream[f].cursor \in Nat /\ Live(f)
  BY AwaitingParts DEF Awaits
<1>2. ASSUME fetched'[f] = fetched[f], view'[f] = view[f], stream'[f] = stream[f]
      PROVE  Advances(f, n)
  <2>1. Stale(f, n)' = Stale(f, n) /\ AsNear(f, n)
    BY <1>2, Zenon DEF Stale, AsNear, Unread, Unasked, Unshown, Latest
  <2> QED
    BY <2>1 DEF Advances
(* What the generator does once the event has been yielded.                *)
<1>3. ASSUME n <= stream[f].cursor, stream'[f].cursor >= stream[f].cursor,
             stream'[f].cursor \in Nat, UNCHANGED <<fetched, view>>
      PROVE  Advances(f, n)
  <2>1. Unread(f, n) = 0 /\ Unread(f, n)' = 0 /\ Unasked(f, n) = 0 /\ Unasked(f, n)' = 0
    BY <1>1, <1>3 DEF Unread, Unasked
  <2>2. Stale(f, n)' = Stale(f, n) /\ Unshown(f, n)' = Unshown(f, n)
    BY <1>3, Zenon DEF Stale, Unshown, Latest
  <2> QED
    BY <2>1, <2>2 DEF Advances, AsNear
<1>4. CASE UNCHANGED vars \/ \E a \in Appenders : Appending(a)
  <2>1. UNCHANGED <<fetched, view, stream>>
    BY <1>4, Zenon DEF vars, browser, Appending, ReadsFirst, LocksRun, AppendEvent,
       AppendCollides, CommitsEvents, RollsBack
  <2> QED
    BY <1>2, <2>1
<1>5. ASSUME NEW g \in Viewers, g # f, Serving(g) \/ Browsing(g) PROVE Advances(f, n)
  <2>1. /\ \/ fetched' = fetched
           \/ \E x : fetched' = [fetched EXCEPT ![g] = x]
        /\ \/ view' = view
           \/ \E x : view' = [view EXCEPT ![g] = x]
        /\ \/ stream' = stream
           \/ \E x : stream' = [stream EXCEPT ![g] = x]
    BY <1>5, Zenon DEF Serving, Browsing, AnswersRequest, Polls, Reads, YieldsEvent, Receives,
       FetchesHistory, ShowsHistory, ConnectionBreaks, Reconnects, SessionCloses, browser
  <2>2. fetched'[f] = fetched[f] /\ view'[f] = view[f] /\ stream'[f] = stream[f]
    BY <1>5, <2>1 DEF StreamInv, TypeOK
  <2> QED
    BY <1>2, <2>2
<1>6. stream[f] \in StreamType /\ stream \in [Viewers -> StreamType]
  BY DEF StreamInv, TypeOK, StreamType
<1>7. ASSUME NEW at, Reads(f, at), UNCHANGED <<fetched, view>>, n <= stream[f].cursor
      PROVE  Advances(f, n)
  <2>1. stream'[f].cursor = stream[f].cursor
    BY <1>6, <1>7 DEF Reads, StreamType
  <2> QED
    BY <1>1, <1>3, <1>7, <2>1
<1>8. CASE AnswersRequest(f) \/ Polls(f)
  <2>1. \E at : Reads(f, at)
    BY <1>8, Zenon DEF AnswersRequest, Polls
  <2>2. UNCHANGED <<fetched, view>> /\ ~(n > stream[f].cursor)
    BY <1>8 DEF AnswersRequest, Polls, browser, Due
  <2>3. n <= stream[f].cursor
    BY <1>1, <2>2
  <2> QED
    BY <1>7, <2>1, <2>2, <2>3
<1>9. CASE YieldsEvent(f)
  <2>1. /\ stream'[f].cursor = stream[f].cursor + 1 /\ UNCHANGED <<fetched, view>>
        /\ ~(n > stream[f].cursor)
    BY <1>1, <1>9, YieldsNext DEF Due
  <2> QED
    BY <1>1, <1>3, <2>1
<1>10. CASE Receives(f)
  <2>1. /\ n \in view'[f] \/ Unshown(f, n)' < Unshown(f, n)
        /\ UNCHANGED <<fetched, stream>>
    BY <1>10, ReceivesNext
  <2>2. Stale(f, n)' = Stale(f, n) /\ Unread(f, n)' = Unread(f, n) /\ Unasked(f, n)' = Unasked(f, n)
    BY <2>1, Zenon DEF Stale, Unread, Unasked
  <2> QED
    BY <2>1, <2>2, Zenon DEF Advances, Nearer
<1>11. CASE FetchesHistory(f)
  <2>1. fetched'[f] = fetched[f] \cup {events} /\ UNCHANGED <<view, stream>>
    BY <1>11 DEF FetchesHistory, StreamInv, TypeOK
  <2>2. Stale(f, n)' = Stale(f, n)
    BY <2>1 DEF Stale, Awaits
  <2>3. AsNear(f, n)
    BY <2>1, Zenon DEF AsNear, Unread, Unasked, Unshown, Latest
  <2> QED
    BY <2>2, <2>3 DEF Advances
<1>12. CASE ShowsHistory(f)
  <2>1. PICK history \in fetched[f] :
          /\ fetched' = [fetched EXCEPT ![f] = @ \ {history}]
          /\ view' = [view EXCEPT ![f] = history]
    BY <1>12 DEF ShowsHistory
  <2>2. fetched'[f] = fetched[f] \ {history} /\ view'[f] = history
    BY <2>1 DEF StreamInv, TypeOK
  <2>3. n \notin history => Stale(f, n)' \subseteq Stale(f, n) /\ Stale(f, n)' # Stale(f, n)
    BY <2>2 DEF Stale
  <2> QED
    BY <2>2, <2>3, Zenon DEF Advances
<1>13. CASE ConnectionBreaks(f)
  <2>1. stream'[f].at = "closed"
    BY <1>6, <1>13 DEF ConnectionBreaks, Closed
  <2> QED
    BY <2>1 DEF Advances, Live
<1>14. CASE SessionCloses(f)
  <2>1. UNCHANGED <<fetched, view>>
    BY <1>14 DEF SessionCloses, browser
  <2>2. /\ stream'[f].cursor = stream[f].cursor /\ stream'[f].at = stream[f].at
        /\ stream'[f].batch = stream[f].batch
    BY <1>6, <1>14 DEF SessionCloses, StreamType
  <2>3. Stale(f, n)' = Stale(f, n) /\ AsNear(f, n)
    BY <2>1, <2>2, Zenon DEF Stale, AsNear, Unread, Unasked, Unshown, Latest
  <2> QED
    BY <2>3 DEF Advances
<1>15. ~Reconnects(f)
  BY <1>1 DEF Reconnects
<1>16. ASSUME Serving(f) \/ Browsing(f) PROVE Advances(f, n)
  BY <1>8, <1>9, <1>10, <1>11, <1>12, <1>13, <1>14, <1>15, <1>16, Zenon DEF Serving, Browsing
<1> QED
  BY <1>4, <1>5, <1>16, Zenon DEF Next

(* A tab gets an event that is committed, as far as this can be said of    *)
(* single steps: the distance of the event is a number, the step it waits  *)
(* for is possible and brings it nearer, and nothing that appenders, other *)
(* tabs, polls or late answers do takes it further away, except a history  *)
(* read before the event, of which there are finitely many and no new one. *)
(* It needs reads that see what is committed: with older snapshots a poll  *)
(* may find nothing for ever.                                              *)
THEOREM FollowersGetOn == Spec => []NeverStuck /\ FollowerGetsOn
<1>1. StreamInv => NeverStuck
  <2> SUFFICES ASSUME StreamInv, NEW f \in Viewers, NEW n \in Sequences, Awaits(f, n)
               PROVE  /\ Unread(f, n) \in Nat /\ Unshown(f, n) \in Nat
                      /\ IF n > stream[f].cursor
                         THEN \/ stream[f].at = "opening"
                              \/ stream[f].batch # {}
                              \/ stream[f].at \in {"replaying", "polling"}
                         ELSE wire[f] # <<>>
    BY Zenon DEF NeverStuck
  <2>1. PICK v \in 0..MaxEvents :
          /\ view[f] = 1..v /\ Latest(view[f]) = v /\ v < n
          /\ Follows(v, stream[f], wire[f])
    BY AwaitingParts
  <2>2. n \in Nat /\ stream[f].cursor \in Nat
    BY AwaitingParts
  <2>3. Unread(f, n) \in Nat /\ Unshown(f, n) \in Nat
    BY <2>1, <2>2 DEF Unread, Unshown
  <2>4. stream[f].at \in {"opening", "replaying", "polling"}
    BY DEF StreamInv, TypeOK, Awaits, Live
  <2>5. n <= stream[f].cursor => wire[f] # <<>>
    <3>1. v + Len(wire[f]) = stream[f].cursor
      BY <2>1 DEF Follows
    <3>2. wire[f] = <<>> => v = stream[f].cursor
      BY <3>1
    <3> QED
      BY <2>1, <2>2, <3>2
  <2> QED
    BY <2>2, <2>3, <2>4, <2>5
<1>2. StreamInv /\ [Next]_vars =>
        [\A f \in Viewers : \A n \in Sequences : Awaits(f, n) => Advances(f, n)]_vars
  BY DueNears, OthersKeepNear, Zenon
<1> QED
  BY <1>1, <1>2, StreamAlways, PTL DEF Spec, FollowerGetsOn

=============================================================================
