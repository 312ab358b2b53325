--------------------------- MODULE ChannelStream ---------------------------
(***************************************************************************)
(* The server side of one channel's real-time stream: the fan-out of       *)
(* message.created by OutboxToWsSubscriber.emitAndBuffer on every API      *)
(* replica (Redis INCR, XADD to the replay buffer, emit to the room: three *)
(* awaits, so replicas interleave between them), and the part of           *)
(* RealtimeGateway.handleConnection that concerns the channel for one      *)
(* client socket (join the room, read and send the seq baseline, replay).  *)
(*                                                                         *)
(* Which events reach emitAndBuffer is the promise of AtLeastOnce: an      *)
(* event is fanned out until some replica finished it, by one replica or   *)
(* by several at once.  Message ids are numbers in the order of the        *)
(* channel list (createdAt, id); 1..Loaded are there from the start.        *)
(***************************************************************************)
EXTENDS Integers, Sequences, FiniteSets, SequencesExt

CONSTANTS
  Replicas,         \* API processes
  None,             \* no value
  Foreign,          \* an event id that is not in this channel's buffer
  Handshakes,       \* lastEventId values a page may have been opened with
  Loaded,           \* messages the channel has at the start
  NMsgs,            \* bound on messages
  Budget,           \* bound on fan-outs of one event
  MaxLen,           \* WS_REPLAY_BUFFER_SIZE
  MaxCrashes,       \* bound on processes dying inside emitAndBuffer
  MaxSeqFaults,     \* bound on failed INCR and MGET
  MaxAppendFaults,  \* bound on failed XADD
  MaxHandlerFaults, \* bound on calls whose failure ends handleConnection
  MaxLost,          \* bound on emits the pub/sub adapter loses
  MaxDisconnects    \* bound on broken connections

ASSUME ChannelStreamAssumption ==
  /\ {None, Foreign} \cap Int = {} /\ None # Foreign
  /\ Loaded \in Nat /\ Loaded <= NMsgs
  /\ Handshakes \subseteq {None, Foreign} \cup 1..Loaded
  /\ {NMsgs, Budget, MaxLen} \subseteq Nat \ {0}
  /\ {MaxCrashes, MaxSeqFaults, MaxAppendFaults, MaxHandlerFaults, MaxLost,
      MaxDisconnects} \subseteq Nat

Sentinel == -1
Nothing == [seq |-> 0, cut |-> FALSE, events |-> <<>>]

VARIABLES
  db,           \* messages 1..db are committed
  started,      \* started[m]: fan-outs begun for m's event
  done,         \* events whose emitAndBuffer returned somewhere
  counter,      \* Redis key seq:{channelId}
  stream,       \* Redis stream replay:channel:{id}: entries [id, seq]
  fan,          \* fan[r]: the emitAndBuffer r is in: [at, id, seq, kept]
  handshake,    \* auth.lastEventId, fixed when the page opened its socket
  conn,         \* where handleConnection stands for the client's socket
  read,         \* what handleConnection read and has not sent: [seq, cut, events]
  wire,         \* frames on their way to the client, in order
  sent,         \* history: events put on the wire of this connection
  replayed,     \* history: this connection was served a replay
  buffered,     \* history: events appended and then emitted by one fan-out
  bounds        \* faults used up, by kind

stored == <<db, started, done, counter, stream>>
socket == <<handshake, conn, read, wire, sent, replayed>>
serverVars == <<stored, fan, socket, buffered, bounds>>

Msgs == 1..NMsgs
NoFan == [at |-> "idle", id |-> 0, seq |-> 0, kept |-> FALSE]
ConnPhases ==
  {"lost", "off", "auth", "joined", "based", "replay", "range", "ready"}

\* No transport: the Manager goes on trying to connect, or does no more.
Down == {"off", "lost"}

\* Mutant: the room is joined when the replay is over.
InRoomLate == {"ready"}

\* The phases after client.join.
InRoom == {"joined", "based", "replay", "range", "ready"}

FaultLimit == [crash |-> MaxCrashes, seq |-> MaxSeqFaults,
               append |-> MaxAppendFaults, handler |-> MaxHandlerFaults,
               lost |-> MaxLost, disconnect |-> MaxDisconnects]

Use(kind) ==
  /\ bounds[kind] < FaultLimit[kind]
  /\ bounds' = [bounds EXCEPT ![kind] = @ + 1]

ServerTypeOK ==
  /\ db \in 0..NMsgs
  /\ started \in [Msgs -> 0..Budget]
  /\ done \subseteq 1..db
  /\ counter \in Nat
  /\ \A i \in DOMAIN stream :
       stream[i].id \in 1..db /\ stream[i].seq \in {Sentinel} \cup 1..counter
  /\ \A r \in Replicas :
       /\ fan[r].at \in {"idle", "seq", "append", "emit"}
       /\ fan[r].at # "idle" => fan[r].id \in 1..db
       /\ fan[r].at \in {"append", "emit"} =>
            fan[r].seq \in {Sentinel} \cup 1..counter
  /\ handshake \in Handshakes
  /\ conn \in ConnPhases
  /\ conn \in Down => wire = <<>>
  /\ sent \subseteq 1..db
  /\ \A k \in DOMAIN bounds : bounds[k] \in 0..FaultLimit[k]

ServerInit ==
  /\ db = Loaded
  /\ started = [m \in Msgs |-> IF m <= Loaded THEN 1 ELSE 0]
  /\ done = 1..Loaded
  /\ counter = Loaded
  /\ stream = [m \in 1..Loaded |-> [id |-> m, seq |-> m]]
  /\ fan = [r \in Replicas |-> NoFan]
  /\ handshake \in Handshakes
  /\ read = Nothing /\ wire = <<>>
  /\ sent = {} /\ replayed = FALSE /\ buffered = {}
  /\ bounds = [k \in DOMAIN FaultLimit |-> 0]

-----------------------------------------------------------------------------
(* Messages and their fan-out. *)

\* A message and its outbox row are committed.
Commit ==
  /\ db < NMsgs
  /\ db' = db + 1
  /\ UNCHANGED <<started, done, counter, stream, fan, socket, buffered, bounds>>

\* The dispatcher of r hands the event to onMessageEvent.
FanStart(r, m) ==
  /\ fan[r].at = "idle"
  /\ m \in 1..db
  /\ m \notin done
  /\ started[m] < Budget
  /\ started' = [started EXCEPT ![m] = @ + 1]
  /\ fan' = [fan EXCEPT ![r] = [NoFan EXCEPT !.at = "seq", !.id = m]]
  /\ UNCHANGED <<db, done, counter, stream, socket, buffered, bounds>>

\* Mutant: the next seq is derived from the buffer's length.
FanSeqStale(r) ==
  /\ fan[r].at = "seq"
  /\ counter' = Len(stream) + 1
  /\ fan' = [fan EXCEPT ![r].at = "append", ![r].seq = counter']
  /\ UNCHANGED <<db, started, done, stream, socket, buffered, bounds>>

\* seq.next: INCR, or the sentinel when Redis fails.
FanSeq(r) ==
  /\ fan[r].at = "seq"
  /\ \/ /\ counter' = counter + 1
        /\ fan' = [fan EXCEPT ![r].at = "append", ![r].seq = counter']
        /\ UNCHANGED bounds
     \/ /\ Use("seq")
        /\ fan' = [fan EXCEPT ![r].at = "append", ![r].seq = Sentinel]
        /\ UNCHANGED counter
  /\ UNCHANGED <<db, started, done, stream, socket, buffered>>

\* XADD MAXLEN ~ n: the oldest entries may go, n of them stay.
Trimmed(s) ==
  {SubSeq(s, k, Len(s)) : k \in {1} \cup 1..(Len(s) - MaxLen + 1)}

\* replay.append; a failure is swallowed and the emit follows all the same.
FanAppend(r) ==
  /\ fan[r].at = "append"
  /\ \/ /\ stream' \in Trimmed(Append(stream, [id |-> fan[r].id,
                                               seq |-> fan[r].seq]))
        /\ fan' = [fan EXCEPT ![r].at = "emit", ![r].kept = TRUE]
        /\ UNCHANGED bounds
     \/ /\ Use("append")
        /\ fan' = [fan EXCEPT ![r].at = "emit"]
        /\ UNCHANGED stream
  /\ UNCHANGED <<db, started, done, counter, socket, buffered>>

Event(f) == [t |-> "event", id |-> f.id, seq |-> f.seq]

FanDone(r) ==
  /\ fan[r].at = "emit"
  /\ done' = done \cup {fan[r].id}
  /\ fan' = [fan EXCEPT ![r] = NoFan]
  /\ UNCHANGED <<db, started, counter, stream, handshake, conn, read, replayed>>

\* io.to(room).emit, and the row can be marked.
FanEmit(r) ==
  /\ FanDone(r)
  /\ IF conn \in InRoom
     THEN /\ wire' = Append(wire, Event(fan[r]))
          /\ sent' = sent \cup {fan[r].id}
     ELSE UNCHANGED <<wire, sent>>
  /\ buffered' = IF fan[r].kept THEN buffered \cup {fan[r].id} ELSE buffered
  /\ UNCHANGED bounds

\* The adapter's pub/sub message does not reach the socket's node.
FanEmitLost(r) ==
  /\ FanDone(r)
  /\ conn \in InRoom
  /\ Use("lost")
  /\ UNCHANGED <<wire, sent, buffered>>

\* The process dies inside emitAndBuffer; the row is still undispatched.
FanCrash(r) ==
  /\ fan[r].at # "idle"
  /\ started[fan[r].id] < Budget
  /\ Use("crash")
  /\ fan' = [fan EXCEPT ![r] = NoFan]
  /\ UNCHANGED <<stored, socket, buffered>>

-----------------------------------------------------------------------------
(* handleConnection for the client's socket. *)

Send(frames) == wire' = wire \o frames

\* The transport is up: the client's "connect" event comes before any frame.
Connect ==
  /\ conn = "off"
  /\ conn' = "auth"
  /\ wire' = <<[t |-> "connect"]>>
  /\ sent' = {} /\ replayed' = FALSE
  /\ UNCHANGED <<stored, fan, handshake, read, buffered, bounds>>

Join ==
  /\ conn = "auth"
  /\ conn' = "joined"
  /\ UNCHANGED <<stored, fan, handshake, read, wire, sent, replayed, buffered,
                 bounds>>

\* seq.currentMany: MGET, or the sentinel for every channel.  When a query
\* before it fails (preference, presence, last reads), the handler rejects.
ReadBaseline ==
  /\ conn = "joined"
  /\ \/ conn' = "based" /\ read' = [Nothing EXCEPT !.seq = counter]
        /\ UNCHANGED bounds
     \/ conn' = "based" /\ read' = [Nothing EXCEPT !.seq = Sentinel]
        /\ Use("seq")
     \/ conn' = "ready" /\ Use("handler") /\ UNCHANGED read
  /\ UNCHANGED <<stored, fan, handshake, wire, sent, replayed, buffered>>

\* channel:joined; without a lastEventId the handler is done.
SendBaseline ==
  /\ conn = "based"
  /\ Send(<<[t |-> "joined", seq |-> read.seq]>>)
  /\ conn' = IF handshake = None THEN "ready" ELSE "replay"
  /\ read' = Nothing
  /\ UNCHANGED <<stored, fan, handshake, sent, replayed, buffered, bounds>>

\* rangeAfter: everything after the first entry that carries the id.
RangeAfter(id) ==
  LET at == {i \in DOMAIN stream : stream[i].id = id}
  IN  IF at = {} THEN [Nothing EXCEPT !.cut = TRUE]
      ELSE LET i == CHOOSE j \in at : \A k \in at : j <= k
           IN [Nothing EXCEPT !.events = SubSeq(stream, i + 1, Len(stream))]

\* XRANGE; when it fails the handler rejects and nothing more is sent.
ReadReplay ==
  /\ conn = "replay"
  /\ \/ conn' = "range" /\ read' = RangeAfter(handshake) /\ UNCHANGED bounds
     \/ Use("handler") /\ conn' = "ready" /\ UNCHANGED read
  /\ UNCHANGED <<stored, fan, handshake, wire, sent, replayed, buffered>>

SendReplay ==
  /\ conn = "range"
  /\ conn' = "ready"
  /\ read' = Nothing
  /\ IF read.cut
     THEN /\ Send(<<[t |-> "truncated"], [t |-> "complete"]>>)
          /\ UNCHANGED <<sent, replayed>>
     ELSE /\ Send([i \in DOMAIN read.events |-> Event(read.events[i])] \o <<[t |-> "complete"]>>)
          /\ sent' = sent \cup {read.events[i].id : i \in DOMAIN read.events}
          /\ replayed' = TRUE
  /\ UNCHANGED <<stored, fan, handshake, buffered, bounds>>

\* Mutant: the frames of the broken connection reach the next one.
DropKeepsWire ==
  /\ conn \notin Down
  /\ Use("disconnect")
  /\ conn' = "off" /\ read' = Nothing
  /\ sent' = {} /\ replayed' = FALSE
  /\ UNCHANGED <<stored, fan, handshake, wire, buffered>>

\* The transport breaks: what was on its way is gone.
Drop ==
  /\ conn \notin Down
  /\ Use("disconnect")
  /\ conn' = "off" /\ read' = Nothing /\ wire' = <<>>
  /\ sent' = {} /\ replayed' = FALSE
  /\ UNCHANGED <<stored, fan, handshake, buffered>>

FanStep(r) ==
  \/ \E m \in Msgs : FanStart(r, m)
  \/ FanSeq(r) \/ FanAppend(r) \/ FanEmit(r)

HandleConnection ==
  \/ Connect \/ Join \/ ReadBaseline \/ SendBaseline \/ ReadReplay \/ SendReplay

ServerNext ==
  \/ Commit
  \/ \E r \in Replicas : FanStep(r) \/ FanEmitLost(r) \/ FanCrash(r)
  \/ HandleConnection

-----------------------------------------------------------------------------
(* The stream alone, with a client that only reads what there is on the wire. *)

Sink ==
  /\ wire # <<>>
  /\ wire' = <<>>
  /\ UNCHANGED <<stored, fan, handshake, conn, read, sent, replayed, buffered,
                 bounds>>

StreamInit == ServerInit /\ conn = "off"

StreamSpec == StreamInit /\ [][ServerNext \/ Sink \/ Drop]_serverVars

\* Two stored seqs that clash, and the replicas about to append one.
Clash(x, y) == x.seq = y.seq /\ x.seq # Sentinel
Appending == {r \in Replicas : fan[r].at = "append"}

\* No two fan-outs of the channel share a seq, whichever replicas run them:
\* neither two entries of the replay buffer, nor an entry and the seq a
\* replica is about to append, nor two replicas (ChannelSeqService.next).
SeqUnique ==
  /\ \A i, j \in DOMAIN stream : i # j => ~Clash(stream[i], stream[j])
  /\ \A r, q \in Appending : r # q => ~Clash(fan[r], fan[q])
  /\ \A r \in Appending, i \in DOMAIN stream : ~Clash(fan[r], stream[i])

\* No event falls between the replay and the live stream: once a replay was
\* served, every event that was appended and emitted is on this connection's
\* wire, from the buffer or from the room (handleConnection joins the rooms
\* at line 240 and reads the buffer at line 398; emitAndBuffer appends at 934
\* and emits at 948).
ReplayMeetsLive ==
  replayed /\ bounds.lost = 0 => buffered \subseteq sent
=============================================================================
