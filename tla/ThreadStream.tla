---------------------------- MODULE ThreadStream ----------------------------
(***************************************************************************)
(* One server-sent stream of the v2 API, both ends: the route that opens   *)
(* it (bridge/threads/v2-routes.ts), the event log it is fed from          *)
(* (bridge/threads/store.ts), and the page that follows it                 *)
(* (web2/src/stream): the shell stream, or the stream of one thread.       *)
(*                                                                         *)
(* An event is its sequence number and its class.  What a page shows is    *)
(* the set of events it has taken in: a snapshot at n holds every change   *)
(* up to n, an event adds itself.                                          *)
(***************************************************************************)
EXTENDS Integers, Sequences, FiniteSets, SequencesExt

CONSTANTS
  Kinds,        \* which streams: a subset of {"shell", "thread"}
  Classes,      \* classes of events: "change", "notice", "other"
  MaxSeq,       \* bound on the log
  ReplayLimit,  \* V2_REPLAY_LIMIT
  MaxBehind,    \* MAX_BEHIND_BYTES, in frames
  RetainMin,    \* RETAIN_EVENTS_MIN
  MaxTroubles,  \* bound on lost connections, wake-ups, leaves and failed decodes
  MaxSeen       \* bound on seen marks that change the thread

ASSUME StreamAssumption ==
  /\ Kinds \subseteq {"shell", "thread"}
  /\ Classes \subseteq {"change", "notice", "other"}
  /\ ReplayLimit \in Nat /\ MaxBehind \in Nat \ {0} /\ RetainMin \in Nat
  /\ MaxSeq \in Nat /\ MaxSeq >= 2  \* what Init begins with
  /\ MaxTroubles \in Nat /\ MaxSeen \in Nat

VARIABLES
  kind,     \* the stream of this behaviour
  \* The bridge.
  log,      \* class of each committed event, by sequence
  minSeq,   \* store.minSequence(): the oldest event kept, 0 before a prune
  exists,   \* the thread is in the store
  served,   \* the stream is open and listens to the store
  lastSent, \* lastSent of openStream
  hwm,      \* highWaterMark of its queue, in frames
  wire,     \* frames written and not yet read
  \* The page.
  source,   \* the EventSource: "none", "asked" (request under way), "live"
  after,    \* the cursor of the request under way
  retry,    \* a reconnect is scheduled
  st,       \* the store the page draws: sequence, view, syncing
  cursor,   \* the shell stream's cursor
  cur,      \* which open(threadId) is the page's, 0 when it left the thread
  cl,       \* what each open() keeps in its closure
  decodes,  \* snapshots being decompressed
  cache,    \* the state kept for a return to the thread
  \* History: no guard reads these, apart from the bounds.
  opens, troubles, seen, bad,
  raced     \* two snapshots were being decoded at once, or one landed for a past open()

server == <<log, minSeq, exists, served, lastSent, hwm>>
conn == <<source, after, retry, wire>>
page == <<st, cursor, cur, cl, decodes, cache>>
hist == <<opens, troubles, seen, bad, raced>>
vars == <<kind, server, conn, page, hist>>

Frame == [t : {"snapshot", "event", "synchronized", "reset"}, n : 0..MaxSeq]
State == [seq : 0..MaxSeq, view : SUBSET (1..MaxSeq), syncing : BOOLEAN]
Closure == [gen : 0..MaxTroubles, applied : BOOLEAN, saw : BOOLEAN,
            awaiting : BOOLEAN, buffered : Seq(1..MaxSeq)]
Decode == [i : 1..MaxTroubles + 1, gen : 0..MaxTroubles, n : 0..MaxSeq]

\* Every variable keeps its type, and a stream that is served never holds more frames
\* for a slow client than its high-water mark.
TypeOK ==
  /\ kind \in Kinds
  /\ log \in Seq(Classes \cup {"change", "notice"}) /\ Len(log) <= MaxSeq
  /\ minSeq \in 0..MaxSeq + 1 /\ exists \in BOOLEAN /\ served \in BOOLEAN
  /\ lastSent \in 0..MaxSeq /\ hwm \in Nat /\ wire \in Seq(Frame)
  /\ served => Len(wire) <= hwm
  /\ source \in {"none", "asked", "live"} /\ after \in 0..MaxSeq /\ retry \in BOOLEAN
  /\ st \in State /\ cursor \in 0..MaxSeq
  /\ cur \in 0..MaxTroubles + 1 /\ cl \in [1..MaxTroubles + 1 -> Closure]
  /\ decodes \in Seq(Decode) /\ cache \in State
  /\ bad \in BOOLEAN /\ raced \in BOOLEAN

-----------------------------------------------------------------------------
(* The store and the projection. *)

last == Len(log)

\* What applyEvent has put in the tables by n and the page's reducers mirror.
Mirrored(n) == {k \in 1..n : log[k] = "change"}

\* store.eventsAfter: the retained events above n that belong to the stream, in order.
EventsAfter(n) ==
  LET upTo[k \in 0..last] ==
        IF k = 0 THEN <<>>
        ELSE IF k > n /\ log[k] # "other" /\ k >= minSeq
             THEN Append(upTo[k - 1], k)
             ELSE upTo[k - 1]
  IN upTo[last]

EmptyState == [seq |-> 0, view |-> {}, syncing |-> TRUE]
FreshClosure == [gen |-> 0, applied |-> TRUE, saw |-> FALSE,
                 awaiting |-> FALSE, buffered |-> <<>>]

\* threadFromSnapshot / shellFromSnapshot: the state is replaced, never merged.
FromSnapshot(n) == [seq |-> n, view |-> Mirrored(n), syncing |-> TRUE]

\* applyThreadEvent / applyShellEvent: a stale event drops, a type the reducers do
\* not know, or that changes no table, leaves the state and its sequence alone.
ApplyEvent(s, n) ==
  IF n > s.seq /\ log[n] = "change"
  THEN [seq |-> n, view |-> s.view \cup {n}, syncing |-> s.syncing]
  ELSE s

\* One event after the other, as a loop applies them.
ApplyAll(s, events) ==
  LET upTo[k \in 0..Len(events)] ==
        IF k = 0 THEN s ELSE ApplyEvent(upTo[k - 1], events[k])
  IN upTo[Len(events)]

Settle(s, c) == IF c.applied /\ c.saw THEN [s EXCEPT !.syncing = FALSE] ELSE s

\* Where a stream opened now would resume (`url()` is asked at each open).
Cursor(s) == IF kind = "shell" THEN cursor ELSE s.seq

-----------------------------------------------------------------------------
Init ==
  /\ kind \in Kinds
  \* A thread that was made and has had a notice.
  /\ log = <<"change", "notice">> /\ minSeq = 0 /\ exists = TRUE
  /\ served = FALSE /\ lastSent = 0 /\ hwm = 0 /\ wire = <<>>
  /\ source = "asked" /\ after = 0 /\ retry = FALSE
  /\ st = EmptyState /\ cursor = 0
  /\ cur = 1 /\ cl = [i \in 1..MaxTroubles + 1 |-> FreshClosure]
  /\ decodes = <<>> /\ cache = EmptyState
  /\ opens = 1 /\ troubles = 0 /\ seen = 0 /\ bad = FALSE /\ raced = FALSE

-----------------------------------------------------------------------------
(* The bridge. *)

\* `write`: past the high-water mark the client is told `reset` and the stream ends.
Write(f) ==
  LET w == Append(wire, f)
  IN IF Len(w) > hwm
     THEN /\ wire' = Append(w, [t |-> "reset", n |-> lastSent])
          /\ served' = FALSE /\ UNCHANGED lastSent
     ELSE wire' = w /\ lastSent' = f.n /\ UNCHANGED served

\* `append` commits an event and tells the listeners, this stream's among them.
Append1(c) ==
  /\ last < MaxSeq
  /\ log' = Append(log, c)
  /\ IF served /\ c # "other" /\ last + 1 > lastSent
     THEN Write([t |-> "event", n |-> last + 1])
     ELSE UNCHANGED <<wire, served, lastSent>>
  /\ UNCHANGED <<kind, minSeq, hwm, source, after, retry, page, hist>>

\* A deleted thread has no more events of its own.
Commit(c) ==
  /\ exists \/ c = "other"
  /\ Append1(c) /\ UNCHANGED exists

\* The retention sweep: old events go, but never the newest RetainMin.
Prune ==
  /\ \E k \in 1..(last - RetainMin) :
        /\ k >= minSeq
        /\ minSeq' = k + 1
  /\ UNCHANGED <<kind, log, exists, served, lastSent, hwm, conn, page, hist>>

\* thread.deleted: the row goes; the event reaches the stream and its reducer ignores it.
DeleteThread ==
  /\ kind = "thread" /\ exists /\ exists' = FALSE
  /\ Append1("notice")

\* As Replayable, with a cursor below what the sweep kept.
ReplayablePruned ==
  /\ after > 0 /\ after <= last
  /\ Len(EventsAfter(after)) <= ReplayLimit

\* A cursor the log still covers, and not too far behind, is replayed.
Replayable ==
  /\ after > 0 /\ after <= last /\ after >= minSeq
  /\ Len(EventsAfter(after)) <= ReplayLimit

\* The frames of the catch-up: replayed events, or one snapshot.
CatchUp ==
  IF Replayable
  THEN [k \in 1..Len(EventsAfter(after)) |-> [t |-> "event", n |-> EventsAfter(after)[k]]]
  ELSE <<[t |-> "snapshot", n |-> last]>>

\* shellRoute / threadRoute and openStream: the catch-up is read; opening a thread
\* marks it seen, which may commit an event of its own (`marked`); then the listener
\* attaches and the frames go out.
Serve(marked) ==
  /\ source = "asked" /\ exists
  /\ marked => kind = "thread" /\ seen < MaxSeen /\ last < MaxSeq
  /\ log' = IF marked THEN Append(log, "change") ELSE log
  /\ seen' = IF marked THEN seen + 1 ELSE seen
  /\ wire' = Append(CatchUp, [t |-> "synchronized", n |-> last])
  /\ lastSent' = last
  /\ hwm' = MaxBehind + Len(CatchUp)
  /\ served' = TRUE /\ source' = "live" /\ after' = 0
  /\ UNCHANGED <<kind, minSeq, exists, retry, page, opens, troubles, bad, raced>>

-----------------------------------------------------------------------------
(* The connection (connection.ts). *)

\* open(): a new EventSource with the cursor of this moment.
Open(s) == source' = "asked" /\ after' = Cursor(s) /\ retry' = FALSE

\* close(): what the old source still had under way is not heard (`es !== source`).
Close == wire' = <<>> /\ served' = FALSE /\ lastSent' = 0 /\ hwm' = 0

Running == kind = "shell" \/ cur # 0

\* As Drop, with no reconnect scheduled.
DropForgets ==
  /\ Running /\ source # "none" /\ troubles < MaxTroubles
  /\ troubles' = troubles + 1
  /\ Close /\ source' = "none" /\ retry' = FALSE /\ after' = 0
  /\ IF kind = "thread"
     THEN /\ cl' = [cl EXCEPT ![cur] = [FreshClosure EXCEPT !.gen = cl[cur].gen + 1]]
          /\ st' = [st EXCEPT !.syncing = TRUE]
     ELSE UNCHANGED <<cl, st>>
  /\ UNCHANGED <<kind, log, minSeq, exists, cursor, cur,
                 decodes, cache, opens, seen, bad, raced>>

\* An error, 45 s of silence, or `offline`: onDown starts a new generation.
Drop ==
  /\ Running /\ source # "none" /\ troubles < MaxTroubles
  /\ troubles' = troubles + 1
  /\ Close /\ source' = "none" /\ retry' = TRUE /\ after' = 0
  /\ IF kind = "thread"
     THEN /\ cl' = [cl EXCEPT ![cur] = [FreshClosure EXCEPT !.gen = cl[cur].gen + 1]]
          /\ st' = [st EXCEPT !.syncing = TRUE]
     ELSE UNCHANGED <<cl, st>>
  /\ UNCHANGED <<kind, log, minSeq, exists, cursor, cur,
                 decodes, cache, opens, seen, bad, raced>>

\* The backoff timer.
Retry ==
  /\ Running /\ source = "none" /\ retry
  /\ Open(st)
  /\ UNCHANGED <<kind, server, wire, page, hist>>

\* reconnectNow: the page came to the foreground, or the network came back.  The old
\* source is closed without onDown.
Wake ==
  /\ Running /\ troubles < MaxTroubles
  /\ troubles' = troubles + 1
  /\ Close /\ Open(st)
  /\ UNCHANGED <<kind, log, minSeq, exists, page, opens, seen, bad, raced>>

\* The thread is gone: the request fails, the probe sees the 404, the connection stops.
Gone ==
  /\ kind = "thread" /\ source = "asked" /\ ~exists
  /\ source' = "none" /\ after' = 0 /\ retry' = FALSE /\ Close
  /\ st' = EmptyState /\ cur' = 0 /\ cache' = EmptyState
  /\ UNCHANGED <<kind, log, minSeq, exists, cursor, cl, decodes, hist>>

-----------------------------------------------------------------------------
(* The page (thread-stream.ts, shell-stream.ts). *)

\* A decode whose result would still be taken: its generation is its closure's.
Current(d) == d.gen = cl[d.i].gen

TakeSnapshot(n) ==
  IF kind = "shell"
  THEN /\ st' = FromSnapshot(n) /\ cursor' = n
       /\ UNCHANGED <<cl, decodes, raced>>
  ELSE /\ decodes' = Append(decodes, [i |-> cur, gen |-> cl[cur].gen, n |-> n])
       /\ cl' = [cl EXCEPT ![cur].applied = FALSE, ![cur].awaiting = TRUE,
                           ![cur].buffered = <<>>]
       /\ raced' = (raced \/ \E k \in DOMAIN decodes : Current(decodes[k]))
       /\ UNCHANGED <<st, cursor>>

TakeEvent(n) ==
  IF kind = "thread" /\ cl[cur].awaiting
  THEN /\ cl' = [cl EXCEPT ![cur].buffered = Append(@, n)]
       /\ UNCHANGED <<st, cursor, decodes, raced>>
  ELSE /\ st' = ApplyEvent(st, n)
       /\ cursor' = IF kind = "shell" /\ n > cursor THEN n ELSE cursor
       /\ UNCHANGED <<cl, decodes, raced>>

TakeSynchronized(n) ==
  IF kind = "shell"
  THEN /\ cursor' = IF n > cursor THEN n ELSE cursor
       /\ UNCHANGED <<st, cl, decodes, raced>>
  ELSE /\ cl' = [cl EXCEPT ![cur].saw = TRUE]
       /\ st' = Settle(st, cl'[cur])
       /\ UNCHANGED <<cursor, decodes, raced>>

\* The next frame arrives.
Deliver ==
  /\ source = "live" /\ wire # <<>>
  /\ LET f == Head(wire) IN
     IF f.t = "reset"
     THEN /\ Close /\ Open(st)
          /\ UNCHANGED <<st, cursor, cl, decodes, raced>>
     ELSE /\ wire' = Tail(wire)
          /\ CASE f.t = "snapshot" -> TakeSnapshot(f.n)
               [] f.t = "event" -> TakeEvent(f.n)
               [] f.t = "synchronized" -> TakeSynchronized(f.n)
          /\ UNCHANGED <<source, after, retry, served, lastSent, hwm>>
  /\ UNCHANGED <<kind, log, minSeq, exists, cur, cache,
                 opens, troubles, seen, bad>>

\* As Landed, dropping what was buffered.
LandedBare(s, c) == Settle(s, [c EXCEPT !.applied = TRUE])

\* afterSnapshot: what was buffered behind the snapshot is applied on top of it.
Landed(s, c) ==
  Settle(ApplyAll(s, c.buffered), [c EXCEPT !.applied = TRUE])

\* As Taken, whatever the generation.
TakenAlways(d) == cur # 0

\* A decode's result counts while the page is on the thread and in its generation.
Taken(d) == Current(d) /\ cur # 0

\* A decode ends.  `ok`: the snapshot replaces the state; otherwise the catch arm lets
\* the sync end.  A decode of an older generation, or of a thread that was left, is
\* discarded; that of an earlier open() of the same thread is not.
Land(k, ok) ==
  /\ k \in DOMAIN decodes
  /\ ok \/ troubles < MaxTroubles
  /\ troubles' = IF ok THEN troubles ELSE troubles + 1
  /\ bad' = (bad \/ ~ok)
  /\ decodes' = RemoveAt(decodes, k)
  /\ LET d == decodes[k]
         c == cl[d.i]
     IN IF Taken(d)
        THEN /\ st' = Landed(IF ok THEN FromSnapshot(d.n) ELSE st, c)
             /\ cl' = [cl EXCEPT ![d.i].applied = TRUE, ![d.i].awaiting = FALSE,
                                 ![d.i].buffered = <<>>]
             /\ raced' = (raced \/ d.i # cur)
        ELSE UNCHANGED <<st, cl, raced>>
  /\ UNCHANGED <<kind, server, conn, cursor, cur, cache, opens, seen>>

\* The page goes to another thread: the state is kept for a resume.
Leave ==
  /\ kind = "thread" /\ cur # 0 /\ troubles < MaxTroubles
  /\ troubles' = troubles + 1
  /\ cache' = IF st.seq > 0 THEN st ELSE cache
  /\ cur' = 0 /\ st' = EmptyState
  /\ Close /\ source' = "none" /\ retry' = FALSE /\ after' = 0
  /\ UNCHANGED <<kind, log, minSeq, exists, cursor, cl, decodes,
                 opens, seen, bad, raced>>

\* ... and comes back, before or after the kept state expired.
Return(kept) ==
  /\ kind = "thread" /\ cur = 0 /\ opens < MaxTroubles + 1
  /\ opens' = opens + 1 /\ cur' = opens + 1
  /\ cache' = IF kept THEN cache ELSE EmptyState
  /\ st' = [cache' EXCEPT !.syncing = TRUE]
  /\ Open(st')
  /\ UNCHANGED <<kind, server, wire, cursor, cl, decodes, troubles, seen, bad, raced>>

-----------------------------------------------------------------------------
Next ==
  \/ \E c \in Classes : Commit(c)
  \/ Prune \/ DeleteThread
  \/ \E marked \in BOOLEAN : Serve(marked)
  \/ Drop \/ Retry \/ Wake \/ Gone
  \/ Deliver
  \/ \E k \in 1..Len(decodes), ok \in BOOLEAN : Land(k, ok)
  \/ Leave \/ \E kept \in BOOLEAN : Return(kept)

Spec == Init /\ [][Next]_vars

\* The bridge answers, the network delivers what is under way, decodes and timers end.
FairSpec ==
  /\ Spec
  /\ WF_vars(Retry) /\ WF_vars(Deliver) /\ WF_vars(Gone)
  /\ WF_vars(\E marked \in BOOLEAN : Serve(marked))
  /\ WF_vars(\E k \in 1..Len(decodes) : Land(k, TRUE))

-----------------------------------------------------------------------------
(* Properties. *)

Shown == kind = "shell" \/ cur # 0

\* What the page shows is the server's projection at the sequence it claims: no event
\* below its cursor was skipped and none from the future applied, whatever was
\* replayed, pruned, buffered, resumed from the cache or cut off.  Excluded are a
\* snapshot that does not decode, and two snapshots decoding at once.
NothingSkipped == Shown /\ ~bad /\ ~raced => st.view = Mirrored(st.seq)

\* When the page says it is in sync and nothing is under way on an open stream, it
\* shows every change the store has committed.
SyncedIsCaughtUp ==
  Shown /\ ~bad /\ ~raced
        /\ (kind = "shell" \/ ~st.syncing)
        /\ source = "live" /\ served /\ wire = <<>>
        /\ ~(\E k \in DOMAIN decodes : Current(decodes[k]))
     => st.view = Mirrored(last)

\* While the page stays on the stream what it shows never goes back in time.
NeverBack ==
  [][cur' = cur /\ Shown /\ ~raced' => st.seq' >= st.seq]_vars

\* A stream whose troubles end catches up and stops saying it is syncing.
CatchesUp ==
  <>[](Shown /\ ~raced => /\ kind = "thread" => ~st.syncing
                          /\ ~bad => st.view = Mirrored(last))
=============================================================================
