---------------------------- MODULE EventStream ----------------------------
(***************************************************************************)
(* The durable progress events of ONE agent run: the transactions that     *)
(* append them (append_event), the server-sent-event endpoint that replays *)
(* and follows them (stream_agent_events) and the browser view that reads  *)
(* them (AgentWorkspace.vue).  An event is its sequence number: committed  *)
(* rows never change.                                                      *)
(*                                                                         *)
(* The database is external.  What the code depends on is what a plain     *)
(* SELECT sees: the rows committed now ("statement", SQLite and READ       *)
(* COMMITTED), or those committed when the transaction first read          *)
(* ("transaction", the REPEATABLE READ that MySQL's InnoDB defaults to and *)
(* build_engine leaves alone).  A SELECT .. FOR UPDATE waits for the row   *)
(* lock and takes no snapshot.                                             *)
(***************************************************************************)
EXTENDS Naturals, Sequences, FiniteSetsExt

CONSTANTS
  Appenders,   \* sessions that append: the driver, resume and recover requests
  Viewers,     \* browser tabs that follow the run
  Nobody,      \* holder of a free row lock
  MaxEvents,   \* bound: events of the run
  MaxLoads     \* bound: histories a tab fetches at a time

ASSUME EventsAssumption ==
  /\ Nobody \notin Appenders
  /\ MaxEvents \in Nat
  /\ MaxLoads \in Nat

Sequences == 1..MaxEvents

(* The snapshot of a session that has none: no event has number 0. *)
NoSnapshot == {0}

VARIABLES
  reads,     \* which rows a plain SELECT sees; fixed by the deployment
  events,    \* committed rows of agent_events
  lock,      \* holder of the row lock of the run
  appender,  \* [Appenders -> its open transaction]
  fetched,   \* [Viewers -> histories its GET requests answered with]
  view,      \* [Viewers -> events it shows]
  stream,    \* [Viewers -> its connection to the stream endpoint]
  wire       \* [Viewers -> events sent and not yet received]

tables == <<events, lock>>
browser == <<fetched, view>>
vars == <<reads, tables, appender, browser, stream, wire>>

NoTransaction == [snapshot |-> NoSnapshot, pending |-> {}, collided |-> FALSE]

(* A connection: what its generator does, its cursor, the snapshot of the  *)
(* session of the request, and the events read and not yet yielded.        *)
Closed == [at |-> "closed", cursor |-> 0, snapshot |-> NoSnapshot, batch |-> {}]

(* Mutant: the cursor is taken for the next event wanted. *)
OpeningAtNext(after) ==
  [at |-> "opening", cursor |-> after + 1, snapshot |-> NoSnapshot, batch |-> {}]

Opening(after) ==
  [at |-> "opening", cursor |-> after, snapshot |-> NoSnapshot, batch |-> {}]

Live(f) == stream[f].at # "closed"

(* The rows a plain SELECT sees in a session, and its snapshot afterwards. *)
Visible(snapshot) ==
  IF reads = "statement" \/ snapshot = NoSnapshot THEN events ELSE snapshot

SnapshotAfterRead(snapshot) ==
  IF reads = "statement" THEN NoSnapshot ELSE Visible(snapshot)

(* int(latest or 0) *)
Latest(S) == Max(S \cup {0})

Init ==
  /\ reads \in {"statement", "transaction"}
  /\ events = {}
  /\ lock = Nobody
  /\ appender = [a \in Appenders |-> NoTransaction]
  /\ fetched = [f \in Viewers |-> {}]
  /\ view = [f \in Viewers |-> {}]
  /\ stream = [f \in Viewers |-> Closed]
  /\ wire = [f \in Viewers |-> <<>>]

-----------------------------------------------------------------------------
(* The sessions that append.                                               *)

(* Any plain read before the append: the authentication of a request, the  *)
(* counters and artifacts a driver reads.                                  *)
ReadsFirst(a) ==
  /\ ~appender[a].collided
  /\ appender' = [appender EXCEPT ![a].snapshot = SnapshotAfterRead(@)]
  /\ UNCHANGED <<reads, tables, browser, stream, wire>>

(* The row lock of the run: get_run_for_owner(for_update), an UPDATE of the*)
(* run, or the first statement of append_event.                            *)
LocksRun(a) ==
  /\ lock = Nobody
  /\ lock' = a
  /\ UNCHANGED <<reads, events, appender, browser, stream, wire>>

(* Mutant: without db.flush(), as autoflush is off. *)
NextSequenceUnflushed(a) == Latest(Visible(appender[a].snapshot)) + 1

(* max(sequence) + 1, over what the session sees and its own flushed rows. *)
NextSequence(a) ==
  Latest(Visible(appender[a].snapshot) \cup appender[a].pending) + 1

(* Mutant: a counter next to the table instead of max() under the lock. *)
AppendFromCounter(a) ==
  LET next == Latest(events \cup UNION {appender[b].pending : b \in Appenders}) + 1
  IN /\ ~appender[a].collided
     /\ next \in Sequences
     /\ appender' = [appender EXCEPT ![a].pending = @ \cup {next}]
     /\ UNCHANGED <<reads, tables, browser, stream, wire>>

AppendEvent(a) ==
  /\ lock = a
  /\ ~appender[a].collided
  /\ NextSequence(a) \in Sequences \ (events \cup appender[a].pending)
  /\ appender' = [appender EXCEPT
       ![a].snapshot = SnapshotAfterRead(@),
       ![a].pending = @ \cup {NextSequence(a)}]
  /\ UNCHANGED <<reads, tables, browser, stream, wire>>

(* The unique key of (run, sequence) refuses the row. *)
AppendCollides(a) ==
  /\ lock = a
  /\ ~appender[a].collided
  /\ NextSequence(a) \in events \cup appender[a].pending
  /\ appender' = [appender EXCEPT
       ![a].snapshot = SnapshotAfterRead(@), ![a].collided = TRUE]
  /\ UNCHANGED <<reads, tables, browser, stream, wire>>

Releases(a) ==
  /\ lock' = IF lock = a THEN Nobody ELSE lock
  /\ appender' = [appender EXCEPT ![a] = NoTransaction]

CommitsEvents(a) ==
  /\ ~appender[a].collided
  /\ events' = events \cup appender[a].pending
  /\ Releases(a)
  /\ UNCHANGED <<reads, browser, stream, wire>>

(* The integrity error, any other exception, or a crash of the process. *)
RollsBack(a) ==
  /\ Releases(a)
  /\ UNCHANGED <<reads, events, browser, stream, wire>>

-----------------------------------------------------------------------------
(* A browser tab: selectRun and startEventStream.                          *)

(* GET /events answers from a session of its own; the answer may be late   *)
(* and another selection may be under way.                                 *)
FetchesHistory(f) ==
  /\ Cardinality(fetched[f]) < MaxLoads
  /\ fetched' = [fetched EXCEPT ![f] = @ \cup {events}]
  /\ UNCHANGED <<reads, tables, appender, view, stream, wire>>

(* Mutant: the stream there was is not aborted. *)
ShowsHistoryOnly(f) ==
  \E history \in fetched[f] :
    /\ fetched' = [fetched EXCEPT ![f] = @ \ {history}]
    /\ view' = [view EXCEPT ![f] = history]
    /\ stream' = IF Live(f) THEN stream
                 ELSE [stream EXCEPT ![f] = Opening(Latest(history))]
    /\ UNCHANGED <<reads, tables, appender, wire>>

(* The answer replaces the view, and a stream from its last event replaces *)
(* the stream there was.                                                   *)
ShowsHistory(f) ==
  \E history \in fetched[f] :
    /\ fetched' = [fetched EXCEPT ![f] = @ \ {history}]
    /\ view' = [view EXCEPT ![f] = history]
    /\ stream' = [stream EXCEPT ![f] = Opening(Latest(history))]
    /\ wire' = [wire EXCEPT ![f] = <<>>]
    /\ UNCHANGED <<reads, tables, appender>>

Receives(f) ==
  /\ wire[f] # <<>>
  /\ view' = [view EXCEPT ![f] = @ \cup {Head(wire[f])}]
  /\ wire' = [wire EXCEPT ![f] = Tail(@)]
  /\ UNCHANGED <<reads, tables, appender, fetched, stream>>

(* The connection breaks; what was under way on it is lost.  The tab only  *)
(* reports the error.                                                      *)
ConnectionBreaks(f) ==
  /\ Live(f)
  /\ stream' = [stream EXCEPT ![f] = Closed]
  /\ wire' = [wire EXCEPT ![f] = <<>>]
  /\ UNCHANGED <<reads, tables, appender, browser>>

(* A client that reconnects by itself repeats the request with the header  *)
(* Last-Event-ID: the larger of the two cursors counts.                    *)
EffectiveCursor(afterSequence, lastEventId) == Max({afterSequence, lastEventId})

Reconnects(f) ==
  /\ ~Live(f)
  /\ \E after \in view[f] \cup {0} :
       stream' = [stream EXCEPT
         ![f] = Opening(EffectiveCursor(after, Latest(view[f])))]
  /\ UNCHANGED <<reads, tables, appender, browser, wire>>

-----------------------------------------------------------------------------
(* The endpoint.                                                           *)

(* list_events with the cursor, in the session of the request. *)
Reads(f, at) ==
  stream' = [stream EXCEPT
    ![f].at = at,
    ![f].snapshot = SnapshotAfterRead(@),
    ![f].batch = {n \in Visible(stream[f].snapshot) : n > stream[f].cursor}]

AnswersRequest(f) ==
  /\ stream[f].at = "opening"
  /\ Reads(f, "replaying")
  /\ UNCHANGED <<reads, tables, appender, browser, wire>>

(* Some versions of FastAPI that requirements.txt allows close the session *)
(* of the request before the body is sent; its next read opens a new       *)
(* transaction.                                                            *)
SessionCloses(f) ==
  /\ stream[f].at = "replaying"
  /\ stream' = [stream EXCEPT ![f].snapshot = NoSnapshot]
  /\ UNCHANGED <<reads, tables, appender, browser, wire>>

(* Mutant: only the newest event of a read is sent. *)
YieldsNewest(f) ==
  /\ stream[f].batch # {}
  /\ LET event == Max(stream[f].batch)
     IN /\ stream' = [stream EXCEPT ![f].cursor = event, ![f].batch = {}]
        /\ wire' = [wire EXCEPT ![f] = Append(@, event)]
  /\ UNCHANGED <<reads, tables, appender, browser>>

YieldsEvent(f) ==
  /\ stream[f].batch # {}
  /\ LET event == Min(stream[f].batch)
     IN /\ stream' = [stream EXCEPT
             ![f].cursor = event, ![f].batch = @ \ {event}]
        /\ wire' = [wire EXCEPT ![f] = Append(@, event)]
  /\ UNCHANGED <<reads, tables, appender, browser>>

(* Every second, and with nothing committed or closed in between. *)
Polls(f) ==
  /\ stream[f].at \in {"replaying", "polling"}
  /\ stream[f].batch = {}
  /\ Reads(f, "polling")
  /\ UNCHANGED <<reads, tables, appender, browser, wire>>

-----------------------------------------------------------------------------
Appending(a) ==
  \/ ReadsFirst(a)
  \/ LocksRun(a)
  \/ AppendEvent(a)
  \/ AppendCollides(a)
  \/ CommitsEvents(a)
  \/ RollsBack(a)

Serving(f) == AnswersRequest(f) \/ YieldsEvent(f) \/ Polls(f) \/ Receives(f)

Browsing(f) ==
  \/ FetchesHistory(f)
  \/ ShowsHistory(f)
  \/ ConnectionBreaks(f)
  \/ Reconnects(f)
  \/ SessionCloses(f)

Next ==
  \/ \E a \in Appenders : Appending(a)
  \/ \E f \in Viewers : Serving(f) \/ Browsing(f)

Spec == Init /\ [][Next]_vars

(* The server thread and the reader of the tab keep going; nothing is      *)
(* assumed of the appenders, the user or the network.                      *)
FairSpec ==
  /\ Spec
  /\ \A f \in Viewers :
       /\ WF_vars(AnswersRequest(f))
       /\ WF_vars(YieldsEvent(f))
       /\ WF_vars(Polls(f))
       /\ WF_vars(Receives(f))

-----------------------------------------------------------------------------
(* Properties.                                                             *)

(* Also: rows are flushed only under the row lock, and a generator never   *)
(* holds an event its cursor has passed.                                   *)
TypeOK ==
  /\ reads \in {"statement", "transaction"}
  /\ events \subseteq Sequences
  /\ lock \in Appenders \cup {Nobody}
  /\ appender \in [Appenders ->
       [snapshot : {NoSnapshot} \cup SUBSET Sequences,
        pending : SUBSET Sequences, collided : BOOLEAN]]
  /\ fetched \in [Viewers -> SUBSET SUBSET Sequences]
  /\ view \in [Viewers -> SUBSET Sequences]
  /\ stream \in [Viewers ->
       [at : {"closed", "opening", "replaying", "polling"},
        cursor : 0..MaxEvents,
        snapshot : {NoSnapshot} \cup SUBSET Sequences,
        batch : SUBSET Sequences]]
  /\ wire \in [Viewers -> Seq(Sequences)]
  /\ \A a \in Appenders : appender[a].pending # {} => lock = a
  /\ \A f \in Viewers : \A n \in stream[f].batch : n > stream[f].cursor

(* Sequence numbers are committed in order and without a gap, whatever     *)
(* transactions roll back: the order of allocation is the order of commits.*)
LogIsGapFree == events = 1..Latest(events)

(* A cursor never passes an event that its tab will not get: none commits  *)
(* below a cursor later, and none is dropped between read and yield.       *)
NothingIsSkipped ==
  \A f \in Viewers : Live(f) =>
    \A n \in events :
      n <= stream[f].cursor => n \in view[f] \cup Range(wire[f])

(* What a tab shows is the run's history up to some event, also while late *)
(* answers and the streams of earlier selections interfere.                *)
ViewIsPrefix ==
  \A f \in Viewers : view[f] \subseteq events /\ view[f] = 1..Latest(view[f])

(* Appenders are serialized as far as reads are fresh: a refused sequence  *)
(* number is due to a commit that the transaction's snapshot hides.        *)
CollisionMeansStale ==
  \A a \in Appenders : appender[a].collided =>
    /\ reads = "transaction"
    /\ events \ appender[a].snapshot # {}

(* Where every SELECT sees what is committed, an event that is committed   *)
(* while a connection lives reaches the tab unless the connection ends.    *)
FollowerCatchesUp ==
  \A f \in Viewers : \A n \in Sequences :
    (reads = "statement" /\ n \in events /\ Live(f))
      ~> (n \in view[f] \/ ~Live(f))

(* Checked and refuted (see the README's findings): "Locking the parent    *)
(* makes concurrent MySQL appenders serialize their sequence allocation".  *)
AppendersNeverCollide == \A a \in Appenders : ~appender[a].collided

(* Checked and refuted: "each poll returns only newly appended events", so *)
(* that a follower sees every event without reconnecting.                  *)
EventsReachFollowers ==
  \A f \in Viewers : \A n \in Sequences :
    (n \in events /\ Live(f)) ~> (n \in view[f] \/ ~Live(f))

=============================================================================
