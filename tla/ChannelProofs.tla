--------------------------- MODULE ChannelProofs ---------------------------
(* Proofs about the stream of a channel (emitAndBuffer,                     *)
(* ChannelSeqService.next, ReplayBufferService, handleConnection), for any  *)
(* number of replicas, messages, fan-outs and failures and any buffer size, *)
(* and about a page that follows it (installChannelSync), for any sizes of  *)
(* its buffer, pages and retries.                                           *)
EXTENDS ChannelSync, SequenceTheorems, WellFoundedInduction, TLAPS

-----------------------------------------------------------------------------
(* The stream of a channel. *)

Entry == [id : Nat, seq : Int]
Fan == [at : {"idle", "seq", "append", "emit"}, id : Nat, seq : Int,
        kept : BOOLEAN]

\* The types the seqs need.
SeqType ==
  /\ counter \in Nat
  /\ stream \in Seq(Entry)
  /\ fan \in [Replicas -> Fan]

\* No seq in use is ahead of the Redis counter.
SeqBound ==
  /\ \A i \in 1..Len(stream) : stream[i].seq <= counter
  /\ \A r \in Replicas : fan[r].at = "append" => fan[r].seq <= counter

\* SeqUnique is inductive with the bound: INCR gives a seq nobody has yet.
SeqInv == SeqType /\ SeqBound /\ SeqUnique

-----------------------------------------------------------------------------
\* The assumptions on the constants, taken apart.
LEMMA ConstantTypes ==
  /\ NMsgs \in Nat /\ Loaded \in Nat /\ MaxLen \in Nat /\ MaxLen > 0
  /\ Msgs \subseteq Nat /\ Sentinel \in Int
BY ChannelStreamAssumption DEF ChannelStreamAssumption, Msgs, Sentinel

\* XADD MAXLEN ~ leaves a suffix of the buffer with the new entry at its end.
LEMMA TrimmedIsSuffix ==
  ASSUME NEW s \in Seq(Entry), NEW e \in Entry, NEW t \in Trimmed(Append(s, e))
  PROVE  /\ t \in Seq(Entry)
         /\ \E k \in Nat :
              /\ Len(t) + k = Len(s) + 1
              /\ \A i \in 1..Len(t) :
                   t[i] = IF i + k = Len(s) + 1 THEN e ELSE s[i + k]
<1> DEFINE a == Append(s, e)
<1>1. /\ a \in Seq(Entry) /\ Len(a) = Len(s) + 1
      /\ \A i \in 1..Len(a) : a[i] = IF i = Len(s) + 1 THEN e ELSE s[i]
  OBVIOUS
<1>2. PICK k \in {1} \cup 1..(Len(a) - MaxLen + 1) : t = SubSeq(a, k, Len(a))
  BY DEF Trimmed
<1>3. k \in 1..Len(a)
  BY <1>1, <1>2, ConstantTypes
<1> HIDE DEF a
<1>4. /\ t \in Seq(Entry) /\ Len(t) = Len(a) - k + 1
      /\ \A i \in 1..Len(t) : t[i] = a[k + i - 1]
  BY <1>1, <1>2, <1>3, SubSeqProperties
<1>5. k - 1 \in Nat /\ Len(t) + (k - 1) = Len(s) + 1
  <2>1. Len(a) \in Nat /\ k \in Nat /\ 1 <= k /\ k <= Len(a) /\ Len(t) \in Nat /\ Len(s) \in Nat
    BY <1>1, <1>3, <1>4
  <2>2. Len(a) = Len(s) + 1 /\ Len(t) = Len(a) - k + 1
    BY <1>1, <1>4
  <2> QED BY ONLY <2>1, <2>2
<1>6. ASSUME NEW i \in 1..Len(t)
      PROVE  t[i] = IF i + (k - 1) = Len(s) + 1 THEN e ELSE s[i + (k - 1)]
  <2>1. k + i - 1 \in 1..Len(a) /\ k + i - 1 = i + (k - 1)
    BY <1>1, <1>3, <1>4
  <2>2. t[i] = a[i + (k - 1)]
    BY <1>4, <2>1
  <2> QED BY <1>1, <2>1, <2>2
<1> QED BY <1>4, <1>5, <1>6

\* A fan-out that was given a seq.
LEMMA WithSeq ==
  ASSUME NEW f \in Fan, NEW q \in Int
  PROVE  [f EXCEPT !.at = "append", !.seq = q] \in Fan
BY DEF Fan

\* The stored entries carry the seqs 1..Loaded, and no fan-out runs.
LEMMA SeqInvInit == ServerInit => SeqInv
<1> SUFFICES ASSUME ServerInit PROVE SeqInv
  OBVIOUS
<1> USE ChannelStreamAssumption
    DEF ChannelStreamAssumption, ServerInit
<1>1. SeqType
  BY DEF SeqType, Entry, Fan, NoFan
<1>2. /\ Len(stream) = Loaded
      /\ \A i \in 1..Len(stream) : stream[i].seq = i
  OBVIOUS
<1>3. \A r \in Replicas : fan[r].at = "idle"
  BY DEF NoFan
<1>4. SeqBound
  BY <1>2, <1>3 DEF SeqBound
<1>5. SeqUnique
  BY <1>2, <1>3, <1>1 DEF SeqUnique, Clash, Appending, SeqType
<1> QED BY <1>1, <1>4, <1>5 DEF SeqInv

\* The seqs are disturbed by FanStart, FanSeq, FanAppend and the end of a
\* fan-out alone.
LEMMA SeqInvStep == SeqInv /\ [ServerNext \/ Sink \/ Drop]_serverVars => SeqInv'
<1> SUFFICES ASSUME SeqInv, [ServerNext \/ Sink \/ Drop]_serverVars
             PROVE  SeqInv'
  OBVIOUS
<1> USE DEF SeqInv, SeqType, Fan
<1>0. /\ DOMAIN stream = 1..Len(stream)
      /\ \A i \in 1..Len(stream) : stream[i] \in Entry
  OBVIOUS
<1>1. ASSUME UNCHANGED <<counter, stream, fan>> PROVE SeqInv'
  BY <1>1 DEF SeqBound, SeqUnique, Clash, Appending
\* A fan-out that starts, ends or moves on holds no seq that is not stored.
<1>2. ASSUME UNCHANGED <<counter, stream>>, NEW r \in Replicas, NEW f \in Fan,
             fan' = [fan EXCEPT ![r] = f], f.at # "append"
      PROVE  SeqInv'
  BY <1>2 DEF SeqBound, SeqUnique, Clash, Appending
<1>3. ASSUME NEW r \in Replicas, NEW m \in Msgs, FanStart(r, m) PROVE SeqInv'
  <2>1. [NoFan EXCEPT !.at = "seq", !.id = m] \in Fan
    <3>1. NoFan \in Fan
      BY DEF NoFan
    <3> QED BY <3>1, ConstantTypes
  <2> QED BY <1>3, <2>1, <1>2 DEF FanStart, NoFan
<1>4. ASSUME NEW r \in Replicas, FanSeq(r) PROVE SeqInv'
  <2>1. CASE /\ counter' = counter + 1
             /\ fan' = [fan EXCEPT ![r].at = "append", ![r].seq = counter']
    <3>a. fan[r] \in Fan /\ counter' \in Int
      BY <2>1
    <3>0. [fan[r] EXCEPT !.at = "append", !.seq = counter'] \in Fan
      BY <3>a, WithSeq
    <3>1. fan' \in [Replicas -> Fan] /\ counter' \in Nat /\ stream' = stream
      BY <1>4, <2>1, <3>0 DEF FanSeq
    <3>2. /\ fan'[r].seq = counter + 1
          /\ \A q \in Replicas \ {r} : fan'[q] = fan[q]
      BY <2>1
    <3>3. SeqBound'
      BY <3>1, <3>2, <2>1, <1>0 DEF SeqBound, Entry
    <3>4. /\ \A i \in 1..Len(stream) : stream[i].seq # fan'[r].seq
          /\ \A q \in Replicas \ {r} :
               fan[q].at = "append" => fan[q].seq # fan'[r].seq
      BY <3>2, <1>0 DEF SeqBound, Entry
    <3>5. Appending' \subseteq Appending \cup {r}
      BY <3>2 DEF Appending
    <3>6. SeqUnique'
      <4>1. \A i, j \in DOMAIN stream' : i # j => ~Clash(stream'[i], stream'[j])
        BY <3>1 DEF SeqUnique, Clash
      <4>2. \A p \in Appending', i \in DOMAIN stream' :
              ~Clash(fan'[p], stream'[i])
        BY <1>0, <3>1, <3>2, <3>4, <3>5 DEF SeqUnique, Clash, Appending
      <4>3. ASSUME NEW p \in Appending', NEW q \in Appending', p # q
            PROVE  ~Clash(fan'[p], fan'[q])
        <5>1. p \in Replicas /\ q \in Replicas
          BY DEF Appending
        <5>2. CASE p # r /\ q # r
          BY <4>3, <5>1, <5>2, <3>2, <3>5 DEF SeqUnique, Clash
        <5>3. CASE p = r \/ q = r
          BY <4>3, <5>1, <5>3, <3>2, <3>4, <3>5 DEF Clash, Appending
        <5> QED BY <5>2, <5>3
      <4> QED BY <4>1, <4>2, <4>3 DEF SeqUnique, Clash
    <3> QED BY <3>1, <3>3, <3>6
  <2>2. CASE /\ fan' = [fan EXCEPT ![r].at = "append", ![r].seq = Sentinel]
             /\ UNCHANGED counter
    <3>1. fan' \in [Replicas -> Fan] /\ counter' = counter /\ stream' = stream
      BY <1>4, <2>2, ConstantTypes DEF FanSeq
    <3>2. fan'[r].seq = Sentinel /\ \A q \in Replicas \ {r} : fan'[q] = fan[q]
      BY <2>2
    <3>3. SeqBound'
      BY <3>1, <3>2, <2>2, <1>0 DEF SeqBound, Entry, Sentinel
    <3>4. SeqUnique'
      BY <3>1, <3>2, <2>2, <1>0 DEF SeqUnique, Clash, Appending
    <3> QED BY <3>1, <3>3, <3>4
  <2> QED BY <1>4, <2>1, <2>2 DEF FanSeq
<1>5. ASSUME NEW r \in Replicas, FanAppend(r) PROVE SeqInv'
  <2> DEFINE e == [id |-> fan[r].id, seq |-> fan[r].seq]
  <2>1. CASE /\ stream' \in Trimmed(Append(stream, e))
             /\ fan' = [fan EXCEPT ![r].at = "emit", ![r].kept = TRUE]
    <3>1. e \in Entry /\ fan[r].at = "append" /\ counter' = counter
      BY <1>5 DEF FanAppend, Entry
    <3>2. /\ fan' \in [Replicas -> Fan] /\ fan'[r].at = "emit"
          /\ \A q \in Replicas \ {r} : fan'[q] = fan[q]
      BY <2>1
    <3>3. stream' \in Seq(Entry)
      BY <2>1, <3>1, TrimmedIsSuffix
    <3>4. PICK k \in Nat :
            /\ Len(stream') + k = Len(stream) + 1
            /\ \A i \in 1..Len(stream') :
                 stream'[i] = IF i + k = Len(stream) + 1 THEN e
                              ELSE stream[i + k]
      BY <2>1, <3>1, TrimmedIsSuffix
    <3>5. /\ DOMAIN stream' = 1..Len(stream')
          /\ Len(stream) \in Nat /\ Len(stream') \in Nat
      BY <3>3
    <3>6. \A i \in 1..Len(stream') :
            \/ stream'[i].seq = fan[r].seq /\ i + k = Len(stream) + 1
            \/ i + k \in 1..Len(stream) /\ stream'[i].seq = stream[i + k].seq
      BY <3>4, <3>5
    <3>7. SeqBound'
      BY <3>1, <3>2, <3>6 DEF SeqBound
    <3>8. Appending' \subseteq Appending \ {r} /\ r \in Appending
      BY <3>1, <3>2 DEF Appending
    <3>9. \A i, j \in DOMAIN stream' : i # j => ~Clash(stream'[i], stream'[j])
      <4> SUFFICES ASSUME NEW i \in 1..Len(stream'), NEW j \in 1..Len(stream'),
                          i # j
                   PROVE  ~Clash(stream'[i], stream'[j])
        BY <3>5
      <4>1. i + k # j + k
        OBVIOUS
      <4> QED BY <1>0, <3>6, <3>8, <4>1 DEF SeqUnique, Clash
    <3>a. \A p \in Appending' : p \in Appending /\ p # r /\ fan'[p] = fan[p]
      BY <3>2, <3>8 DEF Appending
    <3>10. ASSUME NEW p \in Appending', NEW i \in 1..Len(stream')
           PROVE  ~Clash(fan'[p], stream'[i])
      BY <1>0, <3>a, <3>6, <3>8 DEF SeqUnique, Clash
    <3>11. \A p, q \in Appending' : p # q => ~Clash(fan'[p], fan'[q])
      BY <3>a DEF SeqUnique, Clash
    <3>12. SeqUnique'
      BY <3>5, <3>9, <3>10, <3>11 DEF SeqUnique, Clash
    <3> QED BY <3>1, <3>2, <3>3, <3>7, <3>12
  <2>2. CASE fan' = [fan EXCEPT ![r].at = "emit"] /\ UNCHANGED stream
    <3>1. [fan[r] EXCEPT !.at = "emit"] \in Fan /\ counter' = counter
      BY <1>5 DEF FanAppend
    <3>2. fan' = [fan EXCEPT ![r] = [fan[r] EXCEPT !.at = "emit"]]
      BY <2>2
    <3> QED BY <2>2, <3>1, <3>2, <1>2
  <2> QED BY <1>5, <2>1, <2>2 DEF FanAppend
<1>6. ASSUME NEW r \in Replicas, FanEmit(r) \/ FanEmitLost(r) \/ FanCrash(r)
      PROVE  SeqInv'
  <2>1. NoFan \in Fan /\ NoFan.at = "idle"
    BY DEF NoFan
  <2> QED BY <1>6, <2>1, <1>2
          DEF FanEmit, FanEmitLost, FanDone, FanCrash, stored
<1>7. ASSUME HandleConnection PROVE SeqInv'
  BY <1>7, <1>1 DEF HandleConnection, Connect, Join, ReadBaseline, SendBaseline,
                    ReadReplay, SendReplay, stored
<1>8. ASSUME Commit \/ Sink \/ Drop PROVE SeqInv'
  BY <1>8, <1>1 DEF Commit, Sink, Drop, stored
<1>9. CASE UNCHANGED serverVars
  BY <1>9, <1>1 DEF serverVars, stored
<1> QED BY <1>3, <1>4, <1>5, <1>6, <1>7, <1>8, <1>9
        DEF ServerNext, FanStep

\* No two fan-outs of a channel share a seq, on any replicas.
THEOREM SeqsAreUnique == StreamSpec => []SeqUnique
<1>1. SeqInv => SeqUnique
  BY DEF SeqInv
<1>2. StreamInit => SeqInv
  BY SeqInvInit DEF StreamInit
<1> QED BY <1>1, <1>2, SeqInvStep, PTL DEF StreamSpec

-----------------------------------------------------------------------------
\* Events that were there when the page opened, and events fanned out since.
Old(id) == id \in 1..Loaded

\* What handleConnection and the fan-outs hold.
ReplayType ==
  /\ handshake \in {None, Foreign} \cup 1..Loaded
  /\ bounds \in [DOMAIN FaultLimit -> Nat]
  /\ read.cut \in BOOLEAN
  /\ \A r \in Replicas : fan[r].kept => fan[r].at = "emit"

\* A fan-out is never of an old event, and new entries follow the old ones.
OldFirst ==
  /\ 1..Loaded \subseteq done
  /\ \A r \in Replicas : fan[r].at # "idle" => ~Old(fan[r].id)
  /\ \A i, j \in 1..Len(stream) :
       Old(stream[i].id) /\ ~Old(stream[j].id) => i < j

\* Appended, and emitted or about to be.
Kept(m) ==
  \/ m \in buffered
  \/ \E r \in Replicas : fan[r].at = "emit" /\ fan[r].kept /\ fan[r].id = m

\* As long as an old entry is in the buffer, no new one was trimmed away.
KeptIsStored ==
  (\E i \in 1..Len(stream) : Old(stream[i].id)) =>
    \A m : Kept(m) => ~Old(m) /\ \E j \in 1..Len(stream) : stream[j].id = m

\* The events handleConnection read from the buffer.
Read == {read.events[i].id : i \in DOMAIN read.events}

\* What was read from the buffer and what came from the room make up
\* everything that was appended and emitted.
ReadMeetsLive ==
  /\ conn = "range" /\ ~read.cut /\ bounds.lost = 0 =>
       buffered \subseteq sent \cup Read
  /\ replayed => conn = "ready"

ReplayInv ==
  SeqInv /\ ReplayType /\ OldFirst /\ KeptIsStored /\ ReadMeetsLive
  /\ ReplayMeetsLive

\* No event is kept before the first fan-out, and the buffer holds old entries.
LEMMA ReplayInit == ServerInit => ReplayInv
<1> SUFFICES ASSUME ServerInit PROVE ReplayInv
  OBVIOUS
<1>1. SeqInv
  BY SeqInvInit
<1> USE ChannelStreamAssumption
    DEF ChannelStreamAssumption, ServerInit, NoFan
<1>2. ReplayType
  BY DEF ReplayType, Nothing
<1>3. /\ Len(stream) = Loaded
      /\ \A i \in 1..Len(stream) : stream[i].id = i
  OBVIOUS
<1>4. OldFirst
  BY <1>3 DEF OldFirst, Old
<1>5. KeptIsStored /\ ReadMeetsLive /\ ReplayMeetsLive
  BY DEF KeptIsStored, Kept, ReadMeetsLive, ReplayMeetsLive
<1> QED BY <1>1, <1>2, <1>4, <1>5 DEF ReplayInv

\* A fault adds to one count and takes from none.
LEMMA UseAdds ==
  ASSUME ReplayType, NEW kind \in DOMAIN FaultLimit, Use(kind)
  PROVE  /\ bounds' \in [DOMAIN FaultLimit -> Nat]
         /\ bounds'.lost = 0 => bounds.lost = 0 /\ kind # "lost"
BY DEF ReplayType, Use, FaultLimit

\* No step takes a fault back: an emit that was lost stays counted.
LEMMA BoundsStep ==
  ASSUME ReplayType, [ServerNext \/ Sink \/ Drop]_serverVars
  PROVE  /\ bounds' \in [DOMAIN FaultLimit -> Nat]
         /\ bounds'.lost = 0 => bounds.lost = 0
<1> DEFINE Goal == /\ bounds' \in [DOMAIN FaultLimit -> Nat]
                   /\ bounds'.lost = 0 => bounds.lost = 0
<1>1. ASSUME UNCHANGED bounds PROVE Goal
  BY <1>1 DEF ReplayType
<1>2. ASSUME NEW kind \in DOMAIN FaultLimit, Use(kind) PROVE Goal
  BY <1>2, UseAdds
<1>3. DOMAIN FaultLimit =
        {"crash", "seq", "append", "handler", "lost", "disconnect"}
  BY DEF FaultLimit
<1> HIDE DEF Goal
<1>4. ASSUME NEW r \in Replicas, FanStep(r) \/ FanEmitLost(r) \/ FanCrash(r)
      PROVE  Goal
  BY <1>1, <1>2, <1>3, <1>4
     DEF FanStep, FanStart, FanSeq, FanAppend, FanEmit, FanEmitLost, FanCrash
<1>5. ASSUME HandleConnection PROVE Goal
  BY <1>1, <1>2, <1>3, <1>5
     DEF HandleConnection, Connect, Join, ReadBaseline, SendBaseline,
         ReadReplay, SendReplay
<1>6. ASSUME Commit \/ Sink \/ Drop \/ UNCHANGED serverVars PROVE Goal
  BY <1>1, <1>2, <1>3, <1>6 DEF Commit, Sink, Drop, serverVars
<1> QED BY <1>4, <1>5, <1>6 DEF ServerNext, Goal

\* The buffers r's append may leave.
Longer(r) ==
  Trimmed(Append(stream, [id |-> fan[r].id, seq |-> fan[r].seq]))

\* What each action of a fan-out does to its record.
LEMMA FanMoves ==
  ASSUME SeqInv, NEW r \in Replicas
  PROVE  /\ \A m \in Msgs : FanStart(r, m) =>
              fan'[r].at = "seq" /\ fan'[r].id = m /\ ~fan'[r].kept
         /\ FanSeq(r) => /\ fan'[r].at = "append" /\ fan'[r].id = fan[r].id
                         /\ fan'[r].kept = fan[r].kept
         /\ FanAppend(r) =>
              /\ fan'[r].at = "emit" /\ fan'[r].id = fan[r].id
              /\ fan'[r].kept = fan[r].kept \/ stream' \in Longer(r)
         /\ FanDone(r) \/ FanCrash(r) =>
              fan'[r].at = "idle" /\ ~fan'[r].kept
         /\ (\E m \in Msgs : FanStart(r, m)) \/ FanSeq(r) \/ FanAppend(r)
            \/ FanDone(r) \/ FanCrash(r) =>
              \A q \in Replicas \ {r} : fan'[q] = fan[q]
<1> USE DEF SeqInv, SeqType, Fan
<1>1. ASSUME NEW m \in Msgs, FanStart(r, m)
      PROVE  fan'[r].at = "seq" /\ fan'[r].id = m /\ ~fan'[r].kept
  BY <1>1 DEF FanStart, NoFan
<1>2. ASSUME FanSeq(r)
      PROVE  /\ fan'[r].at = "append" /\ fan'[r].id = fan[r].id
             /\ fan'[r].kept = fan[r].kept
  BY <1>2 DEF FanSeq
<1>3. ASSUME FanAppend(r)
      PROVE  /\ fan'[r].at = "emit" /\ fan'[r].id = fan[r].id
             /\ fan'[r].kept = fan[r].kept \/ stream' \in Longer(r)
  BY <1>3 DEF FanAppend, Longer
<1>4. ASSUME FanDone(r) \/ FanCrash(r)
      PROVE  fan'[r].at = "idle" /\ ~fan'[r].kept
  BY <1>4 DEF FanDone, FanCrash, NoFan
<1>5. ASSUME (\E m \in Msgs : FanStart(r, m)) \/ FanSeq(r) \/ FanAppend(r)
             \/ FanDone(r) \/ FanCrash(r),
             NEW q \in Replicas \ {r}
      PROVE  fan'[q] = fan[q]
  BY <1>5 DEF FanStart, FanSeq, FanAppend, FanDone, FanCrash
<1> QED BY <1>1, <1>2, <1>3, <1>4, <1>5

\* The actions that change a fan-out, and only those do.
LEMMA FanActions ==
  ASSUME [ServerNext \/ Sink \/ Drop]_serverVars
  PROVE  \/ UNCHANGED <<stream, fan, done, buffered>>
         \/ \E r \in Replicas :
              \/ \E m \in Msgs : FanStart(r, m)
              \/ FanSeq(r) \/ FanAppend(r) \/ FanEmit(r) \/ FanEmitLost(r)
              \/ FanCrash(r)
BY DEF ServerNext, FanStep, HandleConnection, Connect, Join, ReadBaseline,
       SendBaseline, ReadReplay, SendReplay, Commit, Sink, Drop, serverVars,
       stored

\* lastEventId never changes, and only an event about to be emitted is kept.
LEMMA ReplayTypeStep ==
  ReplayInv /\ [ServerNext \/ Sink \/ Drop]_serverVars => ReplayType'
<1> SUFFICES ASSUME ReplayInv, [ServerNext \/ Sink \/ Drop]_serverVars
             PROVE  ReplayType'
  OBVIOUS
<1>1. bounds' \in [DOMAIN FaultLimit -> Nat]
  BY BoundsStep DEF ReplayInv
<1>2. handshake' = handshake
  BY DEF ServerNext, FanStep, FanStart, FanSeq, FanAppend, FanDone, FanEmit,
         FanEmitLost, FanCrash, HandleConnection, Connect, Join, ReadBaseline,
         SendBaseline, ReadReplay, SendReplay, Commit, Sink, Drop, serverVars,
         socket
<1>3. read'.cut \in BOOLEAN
  <2>1. UNCHANGED read \/ ReadBaseline \/ SendBaseline \/ ReadReplay
        \/ SendReplay \/ Drop
    BY DEF ServerNext, FanStep, FanStart, FanSeq, FanAppend, FanDone, FanEmit,
           FanEmitLost, FanCrash, HandleConnection, Connect, Join, Commit, Sink,
           serverVars, socket
  <2>2. /\ Nothing.cut = FALSE
        /\ \A id : RangeAfter(id).cut \in BOOLEAN
        /\ \A q : [Nothing EXCEPT !.seq = q].cut = FALSE
    BY DEF RangeAfter, Nothing
  <2> QED BY <2>1, <2>2 DEF ReplayInv, ReplayType, ReadBaseline, SendBaseline,
                            ReadReplay, SendReplay, Drop
<1>4. \A r \in Replicas : fan'[r].kept => fan'[r].at = "emit"
  <2> USE DEF ReplayInv, ReplayType
  <2>1. ASSUME NEW r \in Replicas,
               \/ \E m \in Msgs : FanStart(r, m)
               \/ FanSeq(r) \/ FanAppend(r) \/ FanEmit(r) \/ FanEmitLost(r)
               \/ FanCrash(r),
               NEW q \in Replicas, fan'[q].kept
        PROVE  fan'[q].at = "emit"
    <3>1. FanSeq(r) => fan[r].at = "seq"
      BY DEF FanSeq
    <3>2. FanEmit(r) \/ FanEmitLost(r) => FanDone(r)
      BY DEF FanEmit, FanEmitLost
    <3> QED BY <2>1, <3>1, <3>2, FanMoves
  <2> QED BY <2>1, FanActions
<1> QED BY <1>1, <1>2, <1>3, <1>4 DEF ReplayInv, ReplayType

\* The buffer changes by an append that trims the oldest entries, or not at all.
LEMMA StreamMoves ==
  ASSUME SeqInv, NEW r \in Replicas, stream' \in Longer(r)
  PROVE  \E k \in Nat :
           /\ Len(stream') + k = Len(stream) + 1
           /\ \A i \in 1..Len(stream') :
                \/ i + k = Len(stream) + 1 /\ stream'[i].id = fan[r].id
                \/ i + k \in 1..Len(stream) /\ stream'[i].id = stream[i + k].id
<1> DEFINE e == [id |-> fan[r].id, seq |-> fan[r].seq]
<1>1. e \in Entry /\ stream \in Seq(Entry)
  BY DEF SeqInv, SeqType, Fan, Entry
<1>2. stream' \in Trimmed(Append(stream, e))
  BY DEF Longer
<1>3. PICK k \in Nat :
        /\ Len(stream') + k = Len(stream) + 1
        /\ \A i \in 1..Len(stream') :
             stream'[i] = IF i + k = Len(stream) + 1 THEN e ELSE stream[i + k]
  BY <1>1, <1>2, TrimmedIsSuffix
<1>4. Len(stream) \in Nat /\ Len(stream') \in Nat /\ e.id = fan[r].id
  BY <1>1, <1>2, TrimmedIsSuffix
<1>5. ASSUME NEW i \in 1..Len(stream')
      PROVE  \/ i + k = Len(stream) + 1 /\ stream'[i].id = fan[r].id
             \/ i + k \in 1..Len(stream) /\ stream'[i].id = stream[i + k].id
  BY <1>3, <1>4
<1> QED BY <1>3, <1>5

\* Nothing but replay.append changes the buffer.
LEMMA StreamFixed ==
  ASSUME [ServerNext \/ Sink \/ Drop]_serverVars
  PROVE  \/ stream' = stream
         \/ \E r \in Replicas : FanAppend(r) /\ stream' \in Longer(r)
BY FanActions DEF FanStart, FanSeq, FanAppend, FanEmit, FanEmitLost, FanDone,
                  FanCrash, stored, Longer

\* A finished event is not fanned out again, and XADD appends at the end.
LEMMA OldFirstStep ==
  ReplayInv /\ [ServerNext \/ Sink \/ Drop]_serverVars => OldFirst'
<1> SUFFICES ASSUME ReplayInv, [ServerNext \/ Sink \/ Drop]_serverVars
             PROVE  OldFirst'
  OBVIOUS
<1> USE DEF ReplayInv, OldFirst
<1>1. 1..Loaded \subseteq done'
  <2>1. done \subseteq done'
    BY FanActions DEF FanStart, FanSeq, FanAppend, FanEmit, FanEmitLost,
                      FanDone, FanCrash, stored
  <2> QED BY <2>1
<1>2. \A r \in Replicas : fan'[r].at # "idle" => ~Old(fan'[r].id)
  <2>1. ASSUME NEW r \in Replicas,
               \/ \E m \in Msgs : FanStart(r, m)
               \/ FanSeq(r) \/ FanAppend(r) \/ FanEmit(r) \/ FanEmitLost(r)
               \/ FanCrash(r),
               NEW q \in Replicas, fan'[q].at # "idle"
        PROVE  ~Old(fan'[q].id)
    <3>1. /\ FanSeq(r) => fan[r].at = "seq"
          /\ FanAppend(r) => fan[r].at = "append"
          /\ FanEmit(r) \/ FanEmitLost(r) => FanDone(r)
      BY DEF FanSeq, FanAppend, FanEmit, FanEmitLost
    <3>2. \A m \in Msgs : FanStart(r, m) => ~Old(m)
      BY DEF FanStart, Old
    <3>3. CASE q # r
      <4>1. fan'[q] = fan[q]
        BY <2>1, <3>1, <3>3, FanMoves
      <4> QED BY <2>1, <4>1
    <3>4. CASE q = r
      BY <2>1, <3>1, <3>2, <3>4, FanMoves
    <3> QED BY <3>3, <3>4
  <2> QED BY <2>1, FanActions
<1>3. ASSUME NEW i \in 1..Len(stream'), NEW j \in 1..Len(stream'),
             Old(stream'[i].id), ~Old(stream'[j].id)
      PROVE  i < j
  <2>1. CASE stream' = stream
    BY <1>3, <2>1
  <2>2. ASSUME NEW r \in Replicas, FanAppend(r), stream' \in Longer(r)
        PROVE  i < j
    <3>1. ~Old(fan[r].id)
      BY <2>2 DEF FanAppend
    <3>2. PICK k \in Nat :
           /\ Len(stream') + k = Len(stream) + 1
           /\ \A x \in 1..Len(stream') :
                \/ x + k = Len(stream) + 1 /\ stream'[x].id = fan[r].id
                \/ x + k \in 1..Len(stream) /\ stream'[x].id = stream[x + k].id
      BY <2>2, StreamMoves
    <3>3. Len(stream) \in Nat
      BY DEF SeqInv, SeqType
    <3>4. i + k \in 1..Len(stream) /\ Old(stream[i + k].id)
      BY <1>3, <3>1, <3>2
    <3>5. CASE j + k = Len(stream) + 1
      BY <3>3, <3>4, <3>5
    <3>6. CASE j + k \in 1..Len(stream) /\ stream'[j].id = stream[j + k].id
      <4>1. i + k < j + k
        BY <1>3, <3>4, <3>6
      <4> QED BY <4>1
    <3> QED BY <3>2, <3>5, <3>6
  <2> QED BY <2>1, <2>2, StreamFixed
<1> QED BY <1>1, <1>2, <1>3
\* An append makes an event kept; every other step keeps none or forgets one.
LEMMA KeptGrows ==
  ASSUME ReplayInv, [ServerNext \/ Sink \/ Drop]_serverVars, NEW m, Kept(m)'
  PROVE  \/ Kept(m)
         \/ \E r \in Replicas :
              FanAppend(r) /\ m = fan[r].id /\ stream' \in Longer(r)
<1> USE DEF ReplayInv, ReplayType
<1>1. CASE UNCHANGED <<fan, buffered>>
  BY <1>1 DEF Kept
<1>2. ASSUME NEW r \in Replicas, FanAppend(r)
      PROVE  Kept(m) \/ (m = fan[r].id /\ stream' \in Longer(r))
  <2>1. buffered' = buffered /\ fan[r].at = "append"
    BY <1>2 DEF FanAppend
  <2>2. CASE m \in buffered
    BY <2>2 DEF Kept
  <2> DEFINE holds(q) == fan'[q].at = "emit" /\ fan'[q].kept /\ fan'[q].id = m
  <2>3. CASE \E q \in Replicas \ {r} : holds(q)
    <3>1. PICK q \in Replicas \ {r} : holds(q)
      BY <2>3
    <3>2. fan'[q] = fan[q]
      BY <1>2, FanMoves
    <3> QED BY <3>1, <3>2 DEF Kept
  <2>4. CASE fan'[r].kept /\ fan'[r].id = m
    BY <1>2, <2>1, <2>4, FanMoves
  <2> QED BY <2>1, <2>2, <2>3, <2>4 DEF Kept
<1>3. ASSUME NEW r \in Replicas,
             \/ \E x \in Msgs : FanStart(r, x)
             \/ FanSeq(r) \/ FanEmit(r) \/ FanEmitLost(r) \/ FanCrash(r)
      PROVE  Kept(m)
  <2>1. /\ fan'[r].at # "emit"
        /\ \A q \in Replicas \ {r} : fan'[q] = fan[q]
    BY <1>3, FanMoves DEF FanEmit, FanEmitLost
  <2>2. CASE buffered' = buffered
    BY <2>1, <2>2 DEF Kept
  <2>3. CASE FanEmit(r)
    <3>1. fan[r].at = "emit"
      BY <2>3 DEF FanEmit, FanDone
    <3> QED BY <2>1, <2>3, <3>1 DEF Kept, FanEmit
  <2> QED BY <1>3, <2>2, <2>3 DEF FanStart, FanSeq, FanEmitLost, FanCrash
<1> QED BY <1>1, <1>2, <1>3, FanActions

\* XADD trims from the old end: a new entry goes only after every old one.
LEMMA KeptStep ==
  ReplayInv /\ [ServerNext \/ Sink \/ Drop]_serverVars => KeptIsStored'
<1> SUFFICES ASSUME ReplayInv, [ServerNext \/ Sink \/ Drop]_serverVars,
                    NEW i \in 1..Len(stream'), Old(stream'[i].id),
                    NEW m, Kept(m)'
             PROVE  ~Old(m) /\ \E j \in 1..Len(stream') : stream'[j].id = m
  BY DEF KeptIsStored, Old
<1> USE DEF ReplayInv
<1>1. CASE stream' = stream /\ Kept(m)
  BY <1>1 DEF KeptIsStored
<1>2. ASSUME NEW r \in Replicas, FanAppend(r), stream' \in Longer(r),
             Kept(m) \/ m = fan[r].id
      PROVE  ~Old(m) /\ \E j \in 1..Len(stream') : stream'[j].id = m
  <2>1. ~Old(fan[r].id)
    BY <1>2 DEF OldFirst, FanAppend
  <2>2. PICK k \in Nat :
         /\ Len(stream') + k = Len(stream) + 1
         /\ \A x \in 1..Len(stream') :
              \/ x + k = Len(stream) + 1 /\ stream'[x].id = fan[r].id
              \/ x + k \in 1..Len(stream) /\ stream'[x].id = stream[x + k].id
    BY <1>2, StreamMoves
  <2>3. Len(stream) \in Nat
    BY DEF SeqInv, SeqType
  <2>4. Len(stream') \in Nat
    BY <2>2, <2>3
  <2>5. i + k \in 1..Len(stream) /\ Old(stream[i + k].id)
    BY <2>1, <2>2
  <2>6. CASE Kept(m)
    <3>1. PICK j \in 1..Len(stream) : stream[j].id = m /\ ~Old(m)
      BY <2>5, <2>6 DEF KeptIsStored
    <3>2. i + k < j
      BY <2>5, <3>1 DEF OldFirst
    <3>3. j - k \in 1..Len(stream') /\ (j - k) + k = j
      BY <2>2, <2>3, <2>4, <2>5, <3>1, <3>2
    <3>4. stream'[j - k].id = m
      BY <2>2, <2>3, <3>1, <3>3
    <3> QED BY <3>1, <3>3, <3>4
  <2>7. CASE m = fan[r].id
    <3>1. Len(stream') \in 1..Len(stream') /\ Len(stream') + k = Len(stream) + 1
      BY <2>2, <2>4
    <3>2. stream'[Len(stream')].id = m
      BY <2>2, <2>3, <2>7, <3>1
    <3> QED BY <2>1, <2>7, <3>1, <3>2
  <2> QED BY <1>2, <2>6, <2>7
<1>3. Kept(m) \/ \E r \in Replicas :
                   FanAppend(r) /\ m = fan[r].id /\ stream' \in Longer(r)
  BY KeptGrows
<1> QED BY <1>1, <1>2, <1>3, StreamFixed
\* While the socket is in the room, what the fan-outs emit reaches its wire.
LEMMA LiveStep ==
  ASSUME ReplayInv,
         \/ \E r \in Replicas : FanStep(r) \/ FanEmitLost(r) \/ FanCrash(r)
         \/ Commit \/ Sink \/ UNCHANGED serverVars
  PROVE  /\ UNCHANGED <<conn, read, replayed>>
         /\ conn \in InRoom /\ bounds'.lost = 0 =>
              sent \subseteq sent' /\ buffered' \subseteq buffered \cup sent'
<1>1. UNCHANGED <<conn, read, replayed>>
  BY DEF FanStep, FanStart, FanSeq, FanAppend, FanEmit, FanEmitLost, FanDone,
         FanCrash, Commit, Sink, serverVars, socket
<1>2. CASE UNCHANGED <<sent, buffered>>
  BY <1>1, <1>2
<1>3. ASSUME NEW r \in Replicas, FanEmit(r), conn \in InRoom
      PROVE  sent \subseteq sent' /\ buffered' \subseteq buffered \cup sent'
  BY <1>3 DEF FanEmit
<1>4. ASSUME NEW r \in Replicas, FanEmitLost(r) PROVE bounds'.lost # 0
  BY <1>4, UseAdds DEF FanEmitLost, ReplayInv, FaultLimit
<1>5. \/ UNCHANGED <<sent, buffered>>
      \/ \E r \in Replicas : FanEmit(r) \/ FanEmitLost(r)
  BY DEF FanStep, FanStart, FanSeq, FanAppend, FanCrash, Commit, Sink,
         serverVars, socket
<1> QED BY <1>1, <1>2, <1>3, <1>4, <1>5

\* Nat is well ordered.
LEMMA LeastNat ==
  ASSUME NEW S \in SUBSET Nat, S # {}
  PROVE  \E j \in S : \A k \in S : j <= k
<1> DEFINE R == {p \in Nat \X Nat : p[1] < p[2]}
<1>1. IsWellFoundedOn(R, Nat)
  BY NatLessThanWellFounded DEF OpToRel
<1> HIDE DEF R
<1>2. PICK j \in S : \A k \in S : <<k, j>> \notin R
  BY <1>1, WFMin
<1>3. j \in Nat /\ S \subseteq Nat
  OBVIOUS
<1>4. ASSUME NEW k \in S PROVE j <= k
  <2>1. k \in Nat /\ ~(k < j)
    BY <1>2, <1>3 DEF R
  <2> QED BY <1>3, <2>1
<1> QED BY <1>4

\* What is left of a sequence after its i-th entry.
LEMMA TailProperties ==
  ASSUME NEW s \in Seq(Entry), NEW i \in 1..Len(s)
  PROVE  /\ DOMAIN SubSeq(s, i + 1, Len(s)) = 1..(Len(s) - i)
         /\ \A x \in 1..(Len(s) - i) : SubSeq(s, i + 1, Len(s))[x] = s[i + x]
<1> DEFINE t == SubSeq(s, i + 1, Len(s))
<1>1. /\ Len(s) \in Nat /\ i + 1 \in Int
      /\ \A x \in (i + 1)..Len(s) : s[x] \in Entry
  OBVIOUS
<1>2. /\ t \in Seq(Entry)
      /\ Len(t) = IF i + 1 <= Len(s) THEN Len(s) - (i + 1) + 1 ELSE 0
      /\ \A x \in 1..(Len(s) - (i + 1) + 1) : t[x] = s[(i + 1) + x - 1]
  BY <1>1, SubSeqProperties
<1> HIDE DEF t
<1>3. DOMAIN t = 1..Len(t) /\ Len(t) = Len(s) - i
  BY <1>1, <1>2
<1>4. ASSUME NEW x \in 1..(Len(s) - i) PROVE t[x] = s[i + x]
  <2>1. x \in 1..(Len(s) - (i + 1) + 1) /\ (i + 1) + x - 1 = i + x
    BY <1>1
  <2> QED BY <1>2, <2>1
<1> QED BY <1>3, <1>4 DEF t

\* A replay that is not cut off holds everything appended and emitted so far.
LEMMA ReadReplayReads ==
  ASSUME ReplayInv, ReadReplay, conn' = "range", ~read'.cut
  PROVE  buffered \subseteq Read'
<1> USE DEF ReplayInv
<1> DEFINE at == {i \in DOMAIN stream : stream[i].id = handshake}
<1>1. /\ stream \in Seq(Entry) /\ Len(stream) \in Nat
      /\ DOMAIN stream = 1..Len(stream)
  BY DEF SeqInv, SeqType
<1>2. read' = RangeAfter(handshake)
  BY DEF ReadReplay
<1>3. at # {}
  BY <1>2 DEF RangeAfter, Nothing
<1> DEFINE i == CHOOSE j \in at : \A k \in at : j <= k
<1>4. i \in at
  <2>1. at \in SUBSET Nat
    BY <1>1
  <2> HIDE DEF at
  <2>2. \E j \in at : \A k \in at : j <= k
    BY <1>3, <2>1, LeastNat
  <2> QED BY <2>2
<1>5. read'.events = SubSeq(stream, i + 1, Len(stream))
  BY <1>2, <1>3 DEF RangeAfter, Nothing
<1>6. i \in 1..Len(stream) /\ stream[i].id = handshake
  BY <1>1, <1>4
<1> HIDE DEF at, i
<1>7. Old(stream[i].id)
  <2>1. handshake \in Nat
    <3>1. stream[i] \in Entry
      BY <1>1, <1>6
    <3> QED BY <1>6, <3>1 DEF Entry
  <2> QED BY <1>6, <2>1, ChannelStreamAssumption
          DEF ReplayType, Old, ChannelStreamAssumption
<1>8. /\ DOMAIN read'.events = 1..(Len(stream) - i)
      /\ \A x \in 1..(Len(stream) - i) : read'.events[x] = stream[i + x]
  BY <1>1, <1>5, <1>6, TailProperties
<1>9. ASSUME NEW m \in buffered PROVE m \in Read'
  <2>1. PICK j \in 1..Len(stream) : stream[j].id = m /\ ~Old(m)
    BY <1>6, <1>7 DEF KeptIsStored, Kept
  <2>2. i < j
    BY <1>6, <1>7, <2>1 DEF OldFirst
  <2>3. j - i \in 1..(Len(stream) - i) /\ i + (j - i) = j
    BY <1>1, <1>6, <2>1, <2>2
  <2>4. read'.events[j - i].id = m /\ j - i \in DOMAIN read'.events
    BY <1>8, <2>1, <2>3
  <2> QED BY <2>4 DEF Read
<1> QED BY <1>9

\* client.join comes before XRANGE, and XADD before the emit: what the read of
\* the buffer misses was emitted while the socket was in the room.
LEMMA ReadStep ==
  ReplayInv /\ [ServerNext \/ Sink \/ Drop]_serverVars
    => ReadMeetsLive' /\ ReplayMeetsLive'
<1> SUFFICES ASSUME ReplayInv, [ServerNext \/ Sink \/ Drop]_serverVars
             PROVE  ReadMeetsLive' /\ ReplayMeetsLive'
  OBVIOUS
<1> USE DEF ReadMeetsLive, ReplayMeetsLive
<1>0. bounds'.lost = 0 => bounds.lost = 0
  BY BoundsStep DEF ReplayInv
<1>1. CASE \/ \E r \in Replicas : FanStep(r) \/ FanEmitLost(r) \/ FanCrash(r)
           \/ Commit \/ Sink \/ UNCHANGED serverVars
  <2>1. /\ UNCHANGED <<conn, read, replayed>>
        /\ conn \in InRoom /\ bounds'.lost = 0 =>
             sent \subseteq sent' /\ buffered' \subseteq buffered \cup sent'
    BY <1>1, LiveStep
  <2>2. Read' = Read
    BY <2>1 DEF Read
  <2> QED BY <1>0, <2>1, <2>2 DEF ReplayInv, InRoom
<1>2. CASE ReadReplay
  <2>1. /\ UNCHANGED <<sent, replayed, buffered>>
        /\ conn' \in {"range", "ready"} /\ ~replayed
    BY <1>2 DEF ReadReplay, ReplayInv
  <2> QED BY <1>2, <2>1, ReadReplayReads
<1>3. CASE SendReplay
  <2>1. conn = "range" /\ conn' = "ready" /\ buffered' = buffered /\ ~replayed
    BY <1>3 DEF SendReplay, ReplayInv
  <2>2. CASE read.cut
    BY <1>3, <2>1, <2>2 DEF SendReplay
  <2>3. CASE ~read.cut
    <3>1. sent' = sent \cup Read
      BY <1>3, <2>3 DEF SendReplay, Read
    <3> QED BY <1>0, <2>1, <2>3, <3>1 DEF ReplayInv
  <2> QED BY <2>2, <2>3
<1>4. CASE Connect \/ Join \/ ReadBaseline \/ SendBaseline \/ Drop
  <2>1. conn' # "range" /\ ~replayed'
    BY <1>4 DEF Connect, Join, ReadBaseline, SendBaseline, Drop, ReplayInv
  <2> QED BY <2>1
<1> QED BY <1>1, <1>2, <1>3, <1>4 DEF ServerNext, HandleConnection

\* Every step keeps the invariant of the replay.
LEMMA ReplayStep ==
  ReplayInv /\ [ServerNext \/ Sink \/ Drop]_serverVars => ReplayInv'
BY SeqInvStep, ReplayTypeStep, OldFirstStep, KeptStep, ReadStep DEF ReplayInv

\* No event falls between the replay and the live stream, for any buffer size
\* and any interleaving of the fan-outs with handleConnection.
THEOREM ReplayIsComplete == StreamSpec => []ReplayMeetsLive
<1>1. StreamInit => ReplayInv
  BY ReplayInit DEF StreamInit
<1>2. ReplayInv => ReplayMeetsLive
  BY DEF ReplayInv
<1> QED BY <1>1, <1>2, ReplayStep, PTL DEF StreamSpec

-----------------------------------------------------------------------------
(* A page that follows the channel: its fetch is never left alone. *)

\* What the fetch, the backoff and the FSM are made of.
Fetches == [at : {"idle", "fetch", "ok"}, after : Nat, got : SUBSET Int, pages : Nat,
            over : BOOLEAN, waiters : Nat]

FetchTypes ==
  /\ db \in Nat /\ cursor \in Nat /\ (loading = None \/ loading \in Nat)
  /\ fsm \in States /\ attempt \in Nat /\ timer \in BOOLEAN
  /\ gap \in Fetches
  /\ gap.waiters > 0 <=> gap.at # "idle"

\* GapFetchingIsDriven is inductive with the types: a failed fetch arms the timer
\* because somebody waits for it, and each who waits counts an attempt.
DrivenIInv == FetchTypes /\ GapFetchingIsDriven

\* What the assumptions say of the bounds.
LEMMA SyncConstants ==
  /\ PageLimit \in Nat /\ PageLimit > 0 /\ MaxPages \in Nat /\ MaxAttempts \in Nat
  /\ Loaded \in Nat /\ NMsgs \in Nat
BY ChannelStreamAssumption, ChannelSyncAssumption
   DEF ChannelStreamAssumption, ChannelSyncAssumption

\* channelSyncFsm: the edges of each state.
LEMMA EdgesOf ==
  /\ Edges["DISCONNECTED"] = [connect |-> "RECONNECTING"]
  /\ Edges["RECONNECTING"] = [gapNeeded |-> "GAP_FETCHING", seqHole |-> "GAP_FETCHING",
                              replayComplete |-> "SYNCED"]
  /\ Edges["GAP_FETCHING"] = [synced |-> "SYNCED", failed |-> "SYNC_FAILED"]
  /\ Edges["SYNCED"] = [gapNeeded |-> "GAP_FETCHING", seqHole |-> "GAP_FETCHING",
                        connect |-> "RECONNECTING"]
  /\ Edges["SYNC_FAILED"] = [retry |-> "GAP_FETCHING", connect |-> "RECONNECTING"]
BY DEF Edges

\* Where the events lead: GAP_FETCHING is entered by a gap or a hole, left by the
\* end of a fetch, and otherwise stays what it is.
LEMMA Leads ==
  ASSUME NEW f \in States
  PROVE  /\ transition(f, "synced") \in States \ {"GAP_FETCHING"}
         /\ transition(f, "failed") \in States \ {"GAP_FETCHING"}
         /\ \A e \in {"connect", "replayComplete", "disconnect"} :
              /\ transition(f, e) \in States
              /\ transition(f, e) = "GAP_FETCHING" => f = "GAP_FETCHING"
         /\ \A e \in {"gapNeeded", "seqHole"} : transition(f, e) \in States
<1> USE EdgesOf DEF States
<1>1. CASE f = "DISCONNECTED"
  BY <1>1 DEF transition
<1>2. CASE f = "RECONNECTING"
  BY <1>2 DEF transition
<1>3. CASE f = "GAP_FETCHING"
  BY <1>3 DEF transition
<1>4. CASE f = "SYNCED"
  BY <1>4 DEF transition
<1>5. CASE f = "SYNC_FAILED"
  BY <1>5 DEF transition
<1> QED BY <1>1, <1>2, <1>3, <1>4, <1>5

\* No fetch is under way at first.
LEMMA DrivenInit == SyncInit => DrivenIInv
<1> SUFFICES ASSUME SyncInit PROVE DrivenIInv
  OBVIOUS
<1>1. gap = NoGap /\ NoGap \in Fetches /\ NoGap.waiters = 0 /\ NoGap.at = "idle"
  BY DEF SyncInit, NoGap, Fetches
<1>2. /\ db = Loaded /\ cursor = Loaded /\ loading = None
      /\ fsm = "DISCONNECTED" /\ attempt = 0 /\ timer = FALSE
  BY SyncConstants DEF SyncInit, ServerInit
<1>4. FetchTypes
  <2>1. gap \in Fetches /\ gap.waiters = 0 /\ gap.at = "idle"
    BY <1>1
  <2>2. timer \in BOOLEAN
    BY <1>2
  <2>3. db \in Nat /\ cursor \in Nat /\ fsm \in States /\ attempt \in Nat
    BY <1>2, SyncConstants DEF States
  <2> QED BY <1>2, <2>1, <2>2, <2>3 DEF FetchTypes
<1>3. GapFetchingIsDriven
  BY DEF SyncInit, GapFetchingIsDriven
<1> QED BY <1>3, <1>4 DEF DrivenIInv

\* runSync: a fetch is shared or started, or there is nothing to fetch.
LEMMA RunSyncDrives ==
  ASSUME DrivenIInv, NEW f \in States, NEW a \in Nat, RunSync(f, a)
  PROVE  /\ fsm' \in States /\ attempt' \in Nat /\ gap' \in Fetches
         /\ gap'.waiters > 0 <=> gap'.at # "idle"
         /\ fsm' = "GAP_FETCHING" => gap'.at # "idle"
<1> PICK g : g = gap
  OBVIOUS
<1>g. g \in Fetches /\ (g.waiters > 0 <=> g.at # "idle")
  BY DEF DrivenIInv, FetchTypes
<1>1. CASE gap.at # "idle" /\ gap' = [gap EXCEPT !.waiters = @ + 1] /\ fsm' = f /\ attempt' = a
  <2>1. gap' = [g EXCEPT !.waiters = g.waiters + 1]
    BY <1>1
  <2>2. gap' \in Fetches /\ gap'.waiters = g.waiters + 1 /\ gap'.at = g.at
    BY <1>g, <2>1 DEF Fetches
  <2>3. g.waiters \in Nat
    BY <1>g DEF Fetches
  <2> QED BY <1>1, <1>g, <2>2, <2>3
<1>2. CASE /\ gap' = [NoGap EXCEPT !.at = "fetch", !.after = After, !.waiters = 1]
           /\ fsm' = f /\ attempt' = a
  <2>1. gap' = [at |-> "fetch", after |-> cursor, got |-> {}, pages |-> 0,
                over |-> FALSE, waiters |-> 1]
    BY <1>2 DEF NoGap, After
  <2>2. cursor \in Nat
    BY DEF DrivenIInv, FetchTypes
  <2>3. gap' \in Fetches /\ gap'.waiters = 1 /\ gap'.at = "fetch"
    BY <2>1, <2>2 DEF Fetches
  <2> QED BY <1>2, <2>3
<1>3. CASE fsm' = transition(f, "synced") /\ attempt' = 0 /\ UNCHANGED gap
  BY <1>3, <1>g, Leads
<1> QED BY <1>1, <1>2, <1>3 DEF RunSync

\* enterGapFetch, whichever way the FSM goes.
LEMMA EnterDrives ==
  ASSUME DrivenIInv, NEW e \in {"gapNeeded", "seqHole"}, EnterGapFetch(e)
  PROVE  /\ fsm' \in States /\ attempt' \in Nat /\ gap' \in Fetches
         /\ gap'.waiters > 0 <=> gap'.at # "idle"
         /\ timer' \in BOOLEAN
         /\ fsm' = "GAP_FETCHING" => gap'.at # "idle"
<1> PICK f : f = transition(fsm, e)
  OBVIOUS
<1>1. f \in States
  BY Leads DEF DrivenIInv, FetchTypes
<1>2. CASE f = "GAP_FETCHING"
  <2>1. RunSync(f, 0) /\ UNCHANGED timer
    BY <1>2 DEF EnterGapFetch
  <2> QED BY <1>1, <2>1, RunSyncDrives DEF DrivenIInv, FetchTypes
<1>3. CASE f # "GAP_FETCHING"
  <2>1. fsm' = f /\ UNCHANGED <<gap, timer, attempt>>
    BY <1>3 DEF EnterGapFetch
  <2> QED BY <1>1, <1>3, <2>1 DEF DrivenIInv, FetchTypes
<1> QED BY <1>2, <1>3

\* A step that leaves the list and the database alone.
LEMMA ListStays ==
  ASSUME DrivenIInv, UNCHANGED <<db, cursor, loading>>,
         fsm' \in States, attempt' \in Nat, timer' \in BOOLEAN, gap' \in Fetches,
         gap'.waiters > 0 <=> gap'.at # "idle",
         fsm' = "GAP_FETCHING" => gap'.at # "idle" \/ timer'
  PROVE  DrivenIInv'
BY DEF DrivenIInv, FetchTypes, GapFetchingIsDriven

\* A step that moves neither the fetch nor the FSM.
LEMMA FetchStays ==
  ASSUME DrivenIInv, UNCHANGED <<fsm, attempt, timer, gap>>,
         db' \in Nat, cursor' \in Nat, loading' = None \/ loading' \in Nat
  PROVE  DrivenIInv'
BY DEF DrivenIInv, FetchTypes, GapFetchingIsDriven

\* An event of the connection: GAP_FETCHING is not entered.
LEMMA DispatchedStays ==
  ASSUME DrivenIInv, NEW e \in {"connect", "replayComplete", "disconnect"}, Dispatched(e),
         UNCHANGED <<db, cursor, loading>>
  PROVE  DrivenIInv'
<1>1. /\ fsm' \in States /\ (fsm' = "GAP_FETCHING" => fsm = "GAP_FETCHING")
      /\ UNCHANGED <<gap, timer, attempt>>
  BY Leads DEF Dispatched, DrivenIInv, FetchTypes
<1> QED BY <1>1 DEF DrivenIInv, FetchTypes, GapFetchingIsDriven

\* A page arrives: the fetch goes on or is over, and is not idle.
LEMMA PageDrives == DrivenIInv /\ GapPage => DrivenIInv'
<1> SUFFICES ASSUME DrivenIInv, GapPage PROVE DrivenIInv'
  OBVIOUS
<1> PICK g : g = gap
  OBVIOUS
<1>g. g \in Fetches /\ g.at = "fetch" /\ g.waiters > 0
  BY DEF DrivenIInv, FetchTypes, GapPage
<1> PICK rows : rows = Page
  OBVIOUS
<1>r. rows \subseteq Int
  BY DEF Page
<1>m. (g.after + PageLimit < db) \in BOOLEAN
  OBVIOUS
<1> PICK more \in BOOLEAN : more = (g.after + PageLimit < db)
  BY <1>m
<1> PICK stop \in BOOLEAN : stop = (g.pages + 1 = MaxPages)
  OBVIOUS
<1>1. gap' = [g EXCEPT !.got = g.got \cup rows, !.pages = g.pages + 1,
                       !.after = IF more THEN g.after + PageLimit ELSE g.after,
                       !.over = more /\ stop,
                       !.at = IF more /\ ~stop THEN "fetch" ELSE "ok"]
  BY DEF GapPage
<1>2. gap' = [at |-> IF more /\ ~stop THEN "fetch" ELSE "ok",
              after |-> IF more THEN g.after + PageLimit ELSE g.after,
              got |-> g.got \cup rows, pages |-> g.pages + 1, over |-> more /\ stop,
              waiters |-> g.waiters]
  BY <1>1, <1>g DEF Fetches
<1>3. gap' \in Fetches /\ gap'.at # "idle" /\ gap'.waiters > 0
  <2>1. /\ g.after \in Nat /\ g.got \in SUBSET Int /\ g.pages \in Nat /\ g.waiters \in Nat
    BY <1>g DEF Fetches
  <2>2. /\ g.after + PageLimit \in Nat /\ g.pages + 1 \in Nat
    BY <2>1, SyncConstants
  <2>3. g.got \cup rows \in SUBSET Int
    BY <2>1, <1>r
  <2>4. (more /\ stop) \in BOOLEAN
    OBVIOUS
  <2> QED BY <1>2, <1>g, <2>1, <2>2, <2>3, <2>4 DEF Fetches
<1>4. UNCHANGED <<db, cursor, loading, fsm, attempt, timer>>
  BY DEF GapPage, serverVars, stored, list
<1> QED BY <1>3, <1>4, ListStays DEF DrivenIInv, FetchTypes

\* The fetch ends: the FSM is no longer GAP_FETCHING.
LEMMA SettlesDrives == DrivenIInv /\ GapSettles => DrivenIInv'
<1> SUFFICES ASSUME DrivenIInv, GapSettles PROVE DrivenIInv'
  OBVIOUS
<1>1. gap' = NoGap /\ NoGap \in Fetches /\ NoGap.waiters = 0 /\ NoGap.at = "idle"
  BY DEF GapSettles, NoGap, Fetches
<1>2. fsm' \in States \ {"GAP_FETCHING"}
  BY Leads DEF GapSettles, DrivenIInv, FetchTypes
<1>3. UNCHANGED <<db, cursor, loading, timer>> /\ attempt' = 0
  BY DEF GapSettles, serverVars, stored
<1> QED BY <1>1, <1>2, <1>3, ListStays DEF DrivenIInv, FetchTypes

\* The fetch fails: if all who wait together have not used the attempts up, the
\* first of them had not either, and has armed the timer.
LEMMA FailsDrives == DrivenIInv /\ GapFails => DrivenIInv'
<1> SUFFICES ASSUME DrivenIInv, GapFails PROVE DrivenIInv'
  OBVIOUS
<1>1. gap' = NoGap /\ NoGap \in Fetches /\ NoGap.waiters = 0 /\ NoGap.at = "idle"
  BY DEF GapFails, NoGap, Fetches
<1>2. gap.waiters \in Nat /\ gap.waiters > 0 /\ attempt \in Nat /\ attempt' = attempt + gap.waiters
  BY DEF GapFails, DrivenIInv, FetchTypes, Fetches
<1>3. fsm' \in States /\ (fsm' = "GAP_FETCHING" => ~Exhausted(attempt'))
  BY Leads DEF GapFails, DrivenIInv, FetchTypes
<1>4. ~Exhausted(attempt') => ~Exhausted(attempt + 1)
  BY <1>2, SyncConstants DEF Exhausted
<1>5. timer' \in BOOLEAN /\ (~Exhausted(attempt + 1) => timer')
  BY DEF GapFails, DrivenIInv, FetchTypes
<1>6. UNCHANGED <<db, cursor, loading>>
  BY DEF GapFails, serverVars, stored, list
<1> QED BY <1>1, <1>2, <1>3, <1>4, <1>5, <1>6, ListStays

\* An event of the channel.
LEMMA EventDrives == DrivenIInv /\ OnChannelEvent => DrivenIInv'
<1> SUFFICES ASSUME DrivenIInv, OnChannelEvent PROVE DrivenIInv'
  OBVIOUS
<1>1. UNCHANGED <<db, cursor, loading>>
  BY DEF OnChannelEvent, Frame, stored
<1>2. CASE UNCHANGED <<fsm, gap, timer, attempt>>
  BY <1>1, <1>2, FetchStays DEF DrivenIInv, FetchTypes
<1>3. CASE EnterGapFetch("seqHole")
  BY <1>1, <1>3, EnterDrives, ListStays
<1>4. \/ UNCHANGED <<fsm, gap, timer, attempt>>
      \/ EnterGapFetch("seqHole")
  BY DEF OnChannelEvent, sync
<1> QED BY <1>2, <1>3, <1>4

\* Every step keeps the fetch driven.
LEMMA DrivenStep == DrivenIInv /\ [Next]_allVars => DrivenIInv'
<1> SUFFICES ASSUME DrivenIInv, [Next]_allVars PROVE DrivenIInv'
  OBVIOUS
<1>t. FetchTypes
  BY DEF DrivenIInv
<1>1. CASE ServerNext /\ UNCHANGED clientVars
  <2>1. db' = db \/ db' = db + 1
    BY <1>1 DEF ServerNext, Commit, FanStep, FanStart, FanSeq, FanAppend, FanEmit, FanDone,
       FanEmitLost, FanCrash, HandleConnection, Connect, Join, ReadBaseline, SendBaseline,
       ReadReplay, SendReplay, stored
  <2>2. UNCHANGED <<fsm, attempt, timer, gap, cursor, loading>>
    BY <1>1 DEF clientVars, list, sync
  <2> QED BY <1>t, <2>1, <2>2, FetchStays DEF FetchTypes
<1>2. CASE OnConnect \/ OnReplayComplete \/ OnDisconnect
  <2>1. UNCHANGED <<db, cursor, loading>>
    BY <1>2 DEF OnConnect, OnReplayComplete, OnDisconnect, Frame, Drop, stored, list
  <2>2. Dispatched("connect") \/ Dispatched("replayComplete") \/ Dispatched("disconnect")
    BY <1>2 DEF OnConnect, OnReplayComplete, OnDisconnect
  <2> QED BY <2>1, <2>2, DispatchedStays
<1>3. CASE OnChannelJoined
  BY <1>3, <1>t, FetchStays DEF OnChannelJoined, Frame, stored, list, sync, FetchTypes
<1>4. CASE OnReplayTruncated
  <2>1. UNCHANGED <<db, cursor, loading>> /\ EnterGapFetch("gapNeeded")
    BY <1>4 DEF OnReplayTruncated, Frame, stored, list
  <2> QED BY <2>1, EnterDrives, ListStays
<1>5. CASE OnChannelEvent
  BY <1>5, EventDrives
<1>6. CASE GapPage \/ GapSettles \/ GapFails
  BY <1>6, PageDrives, SettlesDrives, FailsDrives
<1>7. CASE RetryFires
  <2>1. RunSync(fsm, attempt) /\ timer' = FALSE /\ UNCHANGED <<db, cursor, loading>>
    BY <1>7 DEF RetryFires, serverVars, stored, list
  <2>2. fsm \in States /\ attempt \in Nat
    BY <1>t DEF FetchTypes
  <2> QED BY <2>1, <2>2, RunSyncDrives, ListStays
<1>8. CASE Evict
  <2>1. fsm' = "DISCONNECTED" /\ cursor' = 0 /\ UNCHANGED <<db, loading, gap, timer, attempt>>
    BY <1>8 DEF Evict, serverVars, stored
  <2> QED BY <2>1, <1>t DEF DrivenIInv, FetchTypes, GapFetchingIsDriven, States
<1>9. CASE LoadList \/ ListLoaded
  BY <1>9, <1>t, FetchStays DEF LoadList, ListLoaded, serverVars, stored, sync, FetchTypes
<1>10. CASE Abandon \/ UNCHANGED allVars
  BY <1>10, <1>t, FetchStays
     DEF Abandon, allVars, serverVars, stored, clientVars, list, sync, FetchTypes
<1> QED BY <1>1, <1>2, <1>3, <1>4, <1>5, <1>6, <1>7, <1>8, <1>9, <1>10
        DEF Next, ClientNext, Receive, Fetch, Load

\* GAP_FETCHING is never left alone, for any limits of pages, rows and attempts and
\* any faults: a fetch is in flight or its retry is armed (installChannelSync's
\* runSync and scheduleRetry).
THEOREM FetchesAreDriven == Spec => []GapFetchingIsDriven
<1>1. DrivenIInv => GapFetchingIsDriven
  BY DEF DrivenIInv
<1> QED BY <1>1, DrivenInit, DrivenStep, PTL DEF Spec

-----------------------------------------------------------------------------
(* No gap is silent, while one connection breaks at most and Redis, the      *)
(* adapter and the list answer.                                              *)

\* The page was opened online, with messages and with an event it has seen; its
\* socket breaks once at most; no append, emit or handler fails; the list is not
\* evicted.  INCRs and requests may fail, replicas crash, and buffers overflow.
\* Without any one of these conditions a gap can be silent.
Calm ==
  /\ StartOnline /\ Loaded > 0 /\ None \notin Handshakes /\ MaxDisconnects \in {0, 1}
  /\ MaxAppendFaults = 0 /\ MaxHandlerFaults = 0 /\ MaxLost = 0 /\ MaxEvicts = 0

\* What is on the wire, and the events among it.
Frames == [t : {"connect", "truncated", "complete"}] \cup [t : {"joined"}, seq : Int]
          \cup [t : {"event"}, id : Nat, seq : Int]
Wired == {wire[i] : i \in 1..Len(wire)}
Arriving == {f.id : f \in {g \in Wired : g.t = "event"}}
FrontIs(t) == wire # <<>> /\ wire[1].t = t

\* Nobody knows of a message that is not in the table.
BufferKnown == \A i \in 1..Len(stream) : stream[i].id \in 1..db
FansKnown == \A r \in Replicas : fan[r].at # "idle" => fan[r].id \in 1..db
ReadKnown == /\ read \in [seq : Int, cut : BOOLEAN, events : Seq(Entry)]
             /\ \A i \in 1..Len(read.events) : read.events[i].id \in 1..db
WireKnown == wire \in Seq(Frames) /\ Arriving \subseteq 1..db
IdsKnown == BufferKnown /\ FansKnown /\ ReadKnown /\ WireKnown /\ done \subseteq 1..db

\* The list is there, and shows what it was loaded with.
ListKept ==
  /\ db <= Loaded + NMsgs /\ used \in [http : Int, evict : {0}]
  /\ cursor = Loaded /\ loading = None /\ last # None
  /\ cache # None /\ cache \subseteq 1..db /\ 1..Loaded \subseteq cache

\* What was emitted since the page opened was appended before.
NothingLost ==
  /\ handshake # None /\ bounds.lost = 0
  /\ \A r \in Replicas : fan[r].at = "emit" => fan[r].kept
  /\ done \subseteq 1..Loaded \cup buffered

\* What this connection was sent is on its way or in the list.
SentArrives == sent \subseteq cache \cup Arriving

\* The page has not begun to catch up.
Untouched == fsm = "DISCONNECTED" /\ gap.at = "idle" /\ ~timer

\* The connect event comes first, and nothing of the channel before the room is
\* joined: catching up begins in the room of the second connection.
FirstFrame == (\A i \in 2..Len(wire) : wire[i].t # "connect") /\ (FrontIs("connect") => Untouched)
RoomFrames == \A f \in Wired : f.t # "connect" => conn \in InRoom
FirstLife ==
  bounds.disconnect = 0 => conn = "ready" /\ Untouched /\ \A f \in Wired : f.t = "event"
NextLife ==
  bounds.disconnect # 0 =>
    /\ conn \in Down => Untouched /\ wire = <<>>
    /\ conn \notin Down /\ fsm = "DISCONNECTED" => FrontIs("connect")
BusyInRoom ==
  gap.at # "idle" \/ timer \/ fsm \notin {"DISCONNECTED", "RECONNECTING"} => conn \in InRoom
FramesInOrder == FirstFrame /\ RoomFrames /\ FirstLife /\ NextLife /\ BusyInRoom

\* The pages of a fetch join the list they started from, and the last of them had
\* every message that this connection was not sent.
FetchCovers ==
  /\ gap.got \subseteq 1..db
  /\ gap.at = "fetch" => 1..gap.after \subseteq cache \cup gap.got
  /\ gap.at = "ok" /\ ~gap.over => done \subseteq cache \cup sent \cup gap.got

\* Every message is in the list or was sent on this connection, or the page says
\* that it is not so, or it is about to find out.
Caught == done \subseteq cache \cup sent
GapOwed ==
  conn = "ready" =>
    \/ Caught \/ truncated
    \/ fsm \in {"GAP_FETCHING", "SYNC_FAILED"}
    \/ \E f \in Wired : f.t = "truncated"

\* NoSilentGap is not inductive: what it needs of the page and the frames, of the
\* replay, of the fetch, and of who may know which message.
PageInv == ListKept /\ NothingLost /\ SentArrives /\ FramesInOrder /\ FetchCovers /\ GapOwed
GapIInv == ReplayInv /\ DrivenIInv /\ IdsKnown /\ PageInv

\* A set of messages is a list, and None is none.
LEMMA NoneIsNoList ==
  ASSUME NEW S, S \subseteq 1..db, db \in Nat, db <= Loaded + NMsgs
  PROVE  S # None
<1>1. 1..db \subseteq 1..(Loaded + NMsgs)
  BY SyncConstants
<1>2. S \in SUBSET (1..(Loaded + NMsgs))
  BY <1>1
<1> QED BY <1>2, ChannelSyncAssumption DEF ChannelSyncAssumption

\* What the faults may do.
LEMMA CalmUses ==
  ASSUME Calm, bounds \in [DOMAIN FaultLimit -> Nat]
  PROVE  /\ ~Use("append") /\ ~Use("handler") /\ ~Use("lost")
         /\ Use("disconnect") =>
              bounds.disconnect = 0 /\ bounds'.disconnect # 0 /\ bounds'.lost = bounds.lost
         /\ Use("seq") \/ Use("crash") =>
              bounds'.disconnect = bounds.disconnect /\ bounds'.lost = bounds.lost
<1>1. /\ DOMAIN FaultLimit = {"crash", "seq", "append", "handler", "lost", "disconnect"}
      /\ FaultLimit["append"] = 0 /\ FaultLimit["handler"] = 0 /\ FaultLimit["lost"] = 0
      /\ FaultLimit["disconnect"] \in {0, 1}
  BY DEF Calm, FaultLimit
<1>2. \A k \in DOMAIN FaultLimit : bounds[k] \in Nat
  OBVIOUS
<1>4. ~Use("append") /\ ~Use("handler") /\ ~Use("lost")
  BY <1>1, <1>2 DEF Use
<1>5. Use("disconnect") =>
         bounds.disconnect = 0 /\ bounds'.disconnect # 0 /\ bounds'.lost = bounds.lost
  <2>1. SUFFICES ASSUME Use("disconnect")
                 PROVE  bounds.disconnect = 0 /\ bounds'.disconnect # 0 /\ bounds'.lost = bounds.lost
    OBVIOUS
  <2>2. /\ bounds["disconnect"] < FaultLimit["disconnect"]
        /\ bounds' = [bounds EXCEPT !["disconnect"] = bounds["disconnect"] + 1]
    BY <2>1 DEF Use
  <2>3. MaxDisconnects \in {0, 1} /\ FaultLimit["disconnect"] = MaxDisconnects
    BY DEF Calm, FaultLimit
  <2>4. bounds["disconnect"] \in Nat /\ bounds["disconnect"] < MaxDisconnects
    BY <1>1, <1>2, <2>2, <2>3
  <2>5. bounds["disconnect"] = 0
      BY <2>3, <2>4
  <2> QED BY <1>1, <2>2, <2>5
<1>6. Use("seq") \/ Use("crash") =>
         bounds'.disconnect = bounds.disconnect /\ bounds'.lost = bounds.lost
  BY <1>1, <1>2 DEF Use
<1> QED BY <1>4, <1>5, <1>6

\* A frame is taken from the front of the wire.
LEMMA FrameTaken ==
  ASSUME wire \in Seq(Frames), wire # <<>>, wire' = Tail(wire)
  PROVE  /\ wire' \in Seq(Frames) /\ Head(wire) = wire[1]
         /\ wire[1] \in Wired /\ wire[1] \in Frames
         /\ Wired' \subseteq Wired /\ Wired \subseteq Wired' \cup {wire[1]}
         /\ \A i \in 1..Len(wire') : wire'[i] = wire[i + 1] /\ i + 1 \in 2..Len(wire)
<1> PICK w : w = wire
  OBVIOUS
<1>1. w \in Seq(Frames) /\ w # <<>> /\ wire' = Tail(w)
  OBVIOUS
<1>2. /\ Len(w) \in Nat /\ Len(w) >= 1 /\ Tail(w) \in Seq(Frames) /\ Len(Tail(w)) = Len(w) - 1
      /\ \A i \in 1..Len(Tail(w)) : Tail(w)[i] = w[i + 1]
      /\ Head(w) = w[1] /\ w[1] \in Frames
  BY <1>1
<1>3. \A i \in 1..Len(Tail(w)) : i + 1 \in 2..Len(w) /\ i + 1 \in 1..Len(w)
  BY <1>2
<1>4. \A i \in 2..Len(w) : i - 1 \in 1..Len(Tail(w)) /\ Tail(w)[i - 1] = w[i]
  BY <1>2
<1>5. \A i \in 1..Len(w) : i = 1 \/ i \in 2..Len(w)
  BY <1>2
<1>6. 1 \in 1..Len(w)
  BY <1>2
<1>7. {Tail(w)[i] : i \in 1..Len(Tail(w))} \subseteq {w[i] : i \in 1..Len(w)}
  BY <1>2, <1>3
<1>8. {w[i] : i \in 1..Len(w)} \subseteq {Tail(w)[i] : i \in 1..Len(Tail(w))} \cup {w[1]}
  BY <1>4, <1>5
<1>9. Wired = {w[i] : i \in 1..Len(w)} /\ Wired' = {Tail(w)[i] : i \in 1..Len(Tail(w))}
  BY <1>1 DEF Wired
<1>10. w[1] \in {w[i] : i \in 1..Len(w)}
  BY <1>6
<1>11. wire' \in Seq(Frames) /\ Head(wire) = w[1] /\ w[1] = wire[1]
  BY <1>1, <1>2
<1>12. \A i \in 1..Len(wire') : wire'[i] = w[i + 1] /\ i + 1 \in 2..Len(w)
  BY <1>1, <1>2, <1>3
<1> QED BY <1>2, <1>7, <1>8, <1>9, <1>10, <1>11, <1>12

\* Frames that are not a connect event are put at the end of the wire.
LEMMA FramesAdded ==
  ASSUME wire \in Seq(Frames), NEW more \in Seq(Frames), wire' = wire \o more,
         \A j \in 1..Len(more) : more[j].t # "connect"
  PROVE  /\ wire' \in Seq(Frames)
         /\ Wired' = Wired \cup {more[j] : j \in 1..Len(more)}
         /\ FrontIs("connect")' <=> FrontIs("connect")
         /\ (\A i \in 2..Len(wire) : wire[i].t # "connect") =>
               (\A i \in 2..Len(wire') : wire'[i].t # "connect")
<1> PICK w : w = wire
  OBVIOUS
<1> DEFINE v == w \o more
<1>1. /\ w \in Seq(Frames) /\ wire' = v
  OBVIOUS
<1>2. /\ v \in Seq(Frames) /\ Len(v) = Len(w) + Len(more) /\ Len(w) \in Nat /\ Len(more) \in Nat
      /\ \A i \in 1..Len(v) : v[i] = IF i <= Len(w) THEN w[i] ELSE more[i - Len(w)]
  BY <1>1, ConcatProperties
<1> HIDE DEF v
<1>3. \A i \in 1..Len(w) : i \in 1..Len(v) /\ v[i] = w[i]
  BY <1>2
<1>4. \A j \in 1..Len(more) : j + Len(w) \in 1..Len(v) /\ v[j + Len(w)] = more[j]
  <2>1. TAKE j \in 1..Len(more)
  <2>2. j + Len(w) \in 1..Len(v) /\ ~(j + Len(w) <= Len(w)) /\ (j + Len(w)) - Len(w) = j
    BY <1>2
  <2> QED BY <1>2, <2>2
<1>5. \A i \in 1..Len(v) : \/ i \in 1..Len(w) /\ v[i] = w[i]
                           \/ \E j \in 1..Len(more) : i = j + Len(w) /\ v[i] = more[j]
  <2>1. TAKE i \in 1..Len(v)
  <2>2. CASE i <= Len(w)
    BY <1>2, <2>2
  <2>3. CASE ~(i <= Len(w))
    <3>1. i - Len(w) \in 1..Len(more) /\ (i - Len(w)) + Len(w) = i
      BY <1>2, <2>3
    <3> QED BY <1>2, <2>3, <3>1
  <2> QED BY <2>2, <2>3
<1>6. {v[i] : i \in 1..Len(v)} = {w[i] : i \in 1..Len(w)} \cup {more[j] : j \in 1..Len(more)}
  <2>1. {v[i] : i \in 1..Len(v)} \subseteq {w[i] : i \in 1..Len(w)} \cup {more[j] : j \in 1..Len(more)}
    <3>1. SUFFICES ASSUME NEW i \in 1..Len(v)
                   PROVE  v[i] \in {w[k] : k \in 1..Len(w)} \cup {more[j] : j \in 1..Len(more)}
      OBVIOUS
    <3> QED BY <1>5, <3>1
  <2>2. {w[i] : i \in 1..Len(w)} \subseteq {v[i] : i \in 1..Len(v)}
    BY <1>3
  <2>3. {more[j] : j \in 1..Len(more)} \subseteq {v[i] : i \in 1..Len(v)}
    BY <1>4
  <2> QED BY <2>1, <2>2, <2>3
<1>7. v # <<>> /\ v[1].t = "connect" <=> w # <<>> /\ w[1].t = "connect"
  <2>1. CASE w = <<>>
    <3>1. Len(w) = 0
      BY <2>1
    <3>2. v # <<>> => 1 \in 1..Len(v)
      BY <1>2
    <3>3. v # <<>> => \E j \in 1..Len(more) : v[1] = more[j]
      BY <1>5, <3>1, <3>2
    <3> QED BY <2>1, <3>3
  <2>2. CASE w # <<>>
    <3>1. 1 \in 1..Len(w)
      BY <1>1, <2>2
    <3>2. v[1] = w[1] /\ v # <<>>
      BY <1>2, <1>3, <3>1
    <3> QED BY <2>2, <3>2
  <2> QED BY <2>1, <2>2
<1>8. (\A i \in 2..Len(w) : w[i].t # "connect") => (\A i \in 2..Len(v) : v[i].t # "connect")
  <2>1. SUFFICES ASSUME \A i \in 2..Len(w) : w[i].t # "connect", NEW i \in 2..Len(v)
                 PROVE  v[i].t # "connect"
    OBVIOUS
  <2>2. i \in 1..Len(v) /\ (i \in 1..Len(w) => i \in 2..Len(w))
    BY <1>2
  <2> QED BY <1>5, <2>1, <2>2
<1>9. wire = w
  OBVIOUS
<1>10. /\ Wired = {w[i] : i \in 1..Len(w)} /\ Wired' = {v[i] : i \in 1..Len(v)}
       /\ FrontIs("connect") <=> w # <<>> /\ w[1].t = "connect"
       /\ FrontIs("connect")' <=> v # <<>> /\ v[1].t = "connect"
  BY <1>1, <1>9 DEF Wired, FrontIs
<1> QED BY <1>1, <1>2, <1>6, <1>7, <1>8, <1>9, <1>10

\* A page that was opened online shows what there is.
LEMMA GapInit == Calm /\ SyncInit => GapIInv
<1> SUFFICES ASSUME Calm, SyncInit PROVE GapIInv
  OBVIOUS
<1>1. ReplayInv /\ DrivenIInv
  BY ReplayInit, DrivenInit DEF SyncInit
<1>2. /\ db = Loaded /\ done = 1..Loaded /\ stream = [m \in 1..Loaded |-> [id |-> m, seq |-> m]]
      /\ fan = [r \in Replicas |-> NoFan] /\ handshake \in Handshakes /\ read = Nothing
      /\ wire = <<>> /\ sent = {} /\ buffered = {} /\ bounds = [k \in DOMAIN FaultLimit |-> 0]
      /\ conn = "ready" /\ last = counter /\ cache = 1..Loaded /\ cursor = Loaded
      /\ loading = None /\ fsm = "DISCONNECTED" /\ gap = NoGap /\ timer = FALSE
      /\ counter = Loaded
  BY DEF Calm, SyncInit, ServerInit
<1>3. Loaded \in Nat /\ None \notin Int
  BY ChannelStreamAssumption DEF ChannelStreamAssumption
<1>4. IdsKnown
  <2>1. BufferKnown
    BY <1>2, <1>3 DEF BufferKnown
  <2>2. FansKnown
    BY <1>2 DEF FansKnown, NoFan
  <2>3. ReadKnown
    BY <1>2 DEF ReadKnown, Nothing
  <2>4. WireKnown
    BY <1>2 DEF WireKnown, Arriving, Wired
  <2> QED BY <1>2, <2>1, <2>2, <2>3, <2>4 DEF IdsKnown
<1>5. cache # None
  BY <1>2, <1>3, NoneIsNoList, SyncConstants
<1>6. ListKept
  <2>1. used \in [http : Int, evict : {0}]
    BY DEF SyncInit
  <2> QED BY <1>2, <1>3, <1>5, <2>1, SyncConstants DEF ListKept
<1>7. bounds.lost = 0 /\ bounds.disconnect = 0
  BY <1>2 DEF FaultLimit
<1>8. NothingLost
  BY <1>2, <1>7 DEF NothingLost, NoFan, Calm
<1>9. Wired = {} /\ ~FrontIs("connect") /\ Len(wire) = 0
  BY <1>2 DEF Wired, FrontIs
<1>10. Untouched
  BY <1>2 DEF Untouched, NoGap
<1>11. FramesInOrder
  BY <1>2, <1>7, <1>9, <1>10
     DEF FramesInOrder, FirstFrame, RoomFrames, FirstLife, NextLife, BusyInRoom, InRoom
<1>12. SentArrives /\ FetchCovers /\ GapOwed
  BY <1>2 DEF SentArrives, FetchCovers, GapOwed, Caught, NoGap
<1> QED BY <1>1, <1>4, <1>6, <1>8, <1>11, <1>12 DEF GapIInv, PageInv

\* The replay does not look at the wire, nor at a connection that is not there.
LEMMA ReplayStays ==
  ASSUME ReplayInv,
         UNCHANGED <<stored, fan, handshake, read, sent, replayed, buffered, bounds>>,
         conn' = conn \/ (conn \in Down /\ conn' \in Down)
  PROVE  ReplayInv'
<1> USE DEF ReplayInv, stored
<1>1. SeqInv'
  BY DEF SeqInv, SeqType, SeqBound, SeqUnique, Appending, Clash
<1>2. ReplayType' /\ OldFirst'
  BY DEF ReplayType, OldFirst, Old
<1>3. KeptIsStored'
  BY DEF KeptIsStored, Kept, Old
<1>4. Read' = Read
  BY DEF Read
<1>5. ReadMeetsLive' /\ ReplayMeetsLive'
  BY <1>4 DEF ReadMeetsLive, ReplayMeetsLive, Down
<1> QED BY <1>1, <1>2, <1>3, <1>5

\* The page takes frames from the wire, or its connection breaks or is given up, or
\* it leaves the stream alone.
LEMMA ClientMoves ==
  ASSUME ClientNext
  PROVE  \/ \E t \in {"connect", "joined", "complete", "truncated", "event"} : Frame(t)
         \/ Drop \/ Abandon \/ UNCHANGED serverVars
BY DEF ClientNext, Receive, OnConnect, OnChannelJoined, OnReplayComplete, OnReplayTruncated,
       OnChannelEvent, OnDisconnect, Fetch, GapPage, GapSettles, GapFails, RetryFires, Evict,
       Load, LoadList, ListLoaded

\* The replay is complete beside a page that follows the channel as well.
LEMMA ReplayKept == ReplayInv /\ [Next]_allVars => ReplayInv'
<1> SUFFICES ASSUME ReplayInv, [Next]_allVars PROVE ReplayInv'
  OBVIOUS
<1>1. CASE ServerNext
  BY <1>1, ReplayStep
<1>2. CASE \E t \in {"connect", "joined", "complete", "truncated", "event"} : Frame(t)
  BY <1>2, ReplayStays DEF Frame
<1>3. CASE Drop \/ UNCHANGED serverVars
  BY <1>3, ReplayStep
<1>4. CASE Abandon
  BY <1>4, ReplayStays DEF Abandon, Down
<1> QED BY <1>1, <1>2, <1>3, <1>4, ClientMoves DEF Next, allVars

\* Messages are committed one at a time, up to the bound.
LEMMA DbGrows ==
  ASSUME DrivenIInv, ListKept, [Next]_allVars
  PROVE  db \in Nat /\ db' \in Nat /\ db <= db' /\ db' <= Loaded + NMsgs
         /\ 1..db \subseteq 1..db' /\ (db' = db \/ Commit)
<1>1. db' = db \/ Commit
  BY ClientMoves DEF Next, ServerNext, FanStep, FanStart, FanSeq, FanAppend, FanEmit, FanDone,
     FanEmitLost, FanCrash, HandleConnection, Connect, Join, ReadBaseline, SendBaseline,
     ReadReplay, SendReplay, Frame, Drop, Abandon, stored, serverVars, allVars
<1>2. db \in Nat /\ db <= Loaded + NMsgs /\ Loaded \in Nat /\ NMsgs \in Nat
  BY SyncConstants DEF DrivenIInv, FetchTypes, ListKept
<1>3. Commit => db' = db + 1 /\ db + 1 <= NMsgs
  BY <1>2 DEF Commit
<1> QED BY <1>1, <1>2, <1>3

\* rangeAfter answers with a part of the buffer, or cuts the replay off.
LEMMA RangeOfBuffer ==
  ASSUME stream \in Seq(Entry), NEW id
  PROVE  /\ RangeAfter(id) \in [seq : Int, cut : BOOLEAN, events : Seq(Entry)]
         /\ \A x \in 1..Len(RangeAfter(id).events) :
              \E y \in 1..Len(stream) : RangeAfter(id).events[x] = stream[y]
<1> DEFINE at == {i \in DOMAIN stream : stream[i].id = id}
<1>1. Len(stream) \in Nat /\ DOMAIN stream = 1..Len(stream)
  OBVIOUS
<1>2. CASE at = {}
  <2>1. RangeAfter(id) = [seq |-> 0, cut |-> TRUE, events |-> <<>>]
    BY <1>2 DEF RangeAfter, Nothing
  <2> QED BY <2>1
<1>3. CASE at # {}
  <2>1. at \in SUBSET Nat
    BY <1>1
  <2> DEFINE i == CHOOSE j \in at : \A k \in at : j <= k
  <2>2. i \in at
    <3> HIDE DEF at
    <3>1. \E j \in at : \A k \in at : j <= k
      BY <1>3, <2>1, LeastNat
    <3> QED BY <3>1
  <2> PICK e : e = SubSeq(stream, i + 1, Len(stream))
    OBVIOUS
  <2>3. RangeAfter(id) = [seq |-> 0, cut |-> FALSE, events |-> e]
    BY <1>3 DEF RangeAfter, Nothing
  <2>4. i \in 1..Len(stream)
    BY <1>1, <2>2
  <2> HIDE DEF i, at
  <2>5. \A x \in 1..(Len(stream) - i) : e[x] = stream[i + x]
    BY <2>4, TailProperties
  <2>6. e \in Seq(Entry) /\ Len(e) = Len(stream) - i
    <3>1. i + 1 \in Int /\ \A x \in (i + 1)..Len(stream) : stream[x] \in Entry
      BY <1>1, <2>4
    <3>2. e \in Seq(Entry) /\ Len(e) = IF i + 1 <= Len(stream) THEN Len(stream) - (i + 1) + 1 ELSE 0
      BY <1>1, <3>1, SubSeqProperties
    <3>3. ASSUME NEW n \in Nat, NEW k \in 1..n
          PROVE  (IF k + 1 <= n THEN n - (k + 1) + 1 ELSE 0) = n - k
      OBVIOUS
    <3>4. Len(stream) \in Nat
      OBVIOUS
    <3> QED BY <2>4, <3>2, <3>3, <3>4
  <2>7. ASSUME NEW x \in 1..Len(e)
        PROVE  i + x \in 1..Len(stream) /\ e[x] = stream[i + x]
    <3>1. ASSUME NEW n \in Nat, NEW k \in 1..n, NEW y \in 1..(n - k)
          PROVE  k + y \in 1..n
      OBVIOUS
    <3>2. Len(stream) \in Nat /\ x \in 1..(Len(stream) - i)
      BY <2>6
    <3>3. i + x \in 1..Len(stream)
      BY <2>4, <3>1, <3>2
    <3> QED BY <2>5, <3>2, <3>3
  <2>8. /\ RangeAfter(id).events = e
        /\ RangeAfter(id) \in [seq : Int, cut : BOOLEAN, events : Seq(Entry)]
    BY <2>3, <2>6
  <2> QED BY <2>7, <2>8
<1> QED BY <1>2, <1>3

\* The server fans out, keeps and reads messages that are in the table.
LEMMA ServerKnows ==
  ASSUME ReplayInv, IdsKnown, ServerNext, 1..db \subseteq 1..db'
  PROVE  FansKnown' /\ BufferKnown' /\ ReadKnown' /\ done' \subseteq 1..db'
<1> USE DEF ReplayInv, IdsKnown
<1>0. [ServerNext \/ Sink \/ Drop]_serverVars
  OBVIOUS
<1>1. FansKnown'
  <2>1. CASE UNCHANGED fan
    BY <2>1 DEF FansKnown
  <2>2. ASSUME NEW r \in Replicas,
               \/ \E m \in Msgs : FanStart(r, m)
               \/ FanSeq(r) \/ FanAppend(r) \/ FanEmit(r) \/ FanEmitLost(r) \/ FanCrash(r),
               NEW q \in Replicas, fan'[q].at # "idle"
        PROVE  fan'[q].id \in 1..db'
    <3>1. /\ FanSeq(r) => fan[r].at = "seq"
          /\ FanAppend(r) => fan[r].at = "append"
          /\ FanEmit(r) \/ FanEmitLost(r) => FanDone(r)
          /\ \A m \in Msgs : FanStart(r, m) => m \in 1..db
      BY DEF FanSeq, FanAppend, FanEmit, FanEmitLost, FanStart
    <3>2. CASE q # r
      <4>1. fan'[q] = fan[q]
        BY <2>2, <3>1, <3>2, FanMoves
      <4> QED BY <2>2, <4>1 DEF FansKnown
    <3>3. CASE q = r
      BY <2>2, <3>1, <3>3, FanMoves DEF FansKnown
    <3> QED BY <3>2, <3>3
  <2> QED BY <1>0, <2>1, <2>2, FanActions DEF FansKnown
<1>2. BufferKnown'
  <2>1. CASE stream' = stream
    BY <2>1 DEF BufferKnown
  <2>2. ASSUME NEW r \in Replicas, FanAppend(r), stream' \in Longer(r)
        PROVE  BufferKnown'
    <3>1. fan[r].id \in 1..db
      BY <2>2 DEF FanAppend, FansKnown
    <3>2. PICK k \in Nat :
           /\ Len(stream') + k = Len(stream) + 1
           /\ \A x \in 1..Len(stream') :
                \/ x + k = Len(stream) + 1 /\ stream'[x].id = fan[r].id
                \/ x + k \in 1..Len(stream) /\ stream'[x].id = stream[x + k].id
      BY <2>2, StreamMoves
    <3> QED BY <3>1, <3>2 DEF BufferKnown
  <2> QED BY <1>0, <2>1, <2>2, StreamFixed
<1>3. ReadKnown'
  <2>1. UNCHANGED read \/ ReadBaseline \/ SendBaseline \/ ReadReplay \/ SendReplay
    BY DEF ServerNext, FanStep, FanStart, FanSeq, FanAppend, FanDone, FanEmit,
           FanEmitLost, FanCrash, HandleConnection, Connect, Join, Commit, socket
  <2>2. counter \in Int /\ stream \in Seq(Entry)
    BY DEF SeqInv, SeqType
  <2>3. CASE UNCHANGED read
    BY <2>3 DEF ReadKnown
  <2>4. CASE ReadBaseline
    <3>1. UNCHANGED read \/ \E s \in Int : read' = [Nothing EXCEPT !.seq = s]
      BY <2>2, <2>4 DEF ReadBaseline, Sentinel
    <3>2. ASSUME NEW s \in Int, read' = [Nothing EXCEPT !.seq = s] PROVE ReadKnown'
      <4>1. read' = [seq |-> s, cut |-> FALSE, events |-> <<>>]
        BY <3>2 DEF Nothing
      <4> QED BY <4>1 DEF ReadKnown
    <3> QED BY <2>3, <3>1, <3>2
  <2>5. CASE read' = Nothing
    BY <2>5 DEF ReadKnown, Nothing
  <2>6. CASE ReadReplay
    <3>1. UNCHANGED read \/ read' = RangeAfter(handshake)
      BY <2>6 DEF ReadReplay
    <3>2. CASE read' = RangeAfter(handshake)
      <4>1. /\ read' \in [seq : Int, cut : BOOLEAN, events : Seq(Entry)]
            /\ \A x \in 1..Len(read'.events) :
                 \E y \in 1..Len(stream) : read'.events[x] = stream[y]
        BY <2>2, <3>2, RangeOfBuffer
      <4> QED BY <4>1 DEF ReadKnown, BufferKnown
    <3> QED BY <2>3, <3>1, <3>2
  <2> QED BY <2>1, <2>3, <2>4, <2>5, <2>6 DEF SendBaseline, SendReplay
<1>4. done' \subseteq 1..db'
  <2>1. UNCHANGED done \/ \E r \in Replicas : FanDone(r)
    BY DEF ServerNext, FanStep, FanStart, FanSeq, FanAppend, FanEmit, FanEmitLost, FanCrash,
       HandleConnection, Connect, Join, ReadBaseline, SendBaseline, ReadReplay, SendReplay,
       Commit, stored
  <2>2. ASSUME NEW r \in Replicas, FanDone(r) PROVE done' \subseteq 1..db'
    BY <2>2 DEF FanDone, FansKnown
  <2> QED BY <2>1, <2>2
<1> QED BY <1>1, <1>2, <1>3, <1>4

\* What a step sends is made of messages in the table, and reaches the end of the wire.
LEMMA SendsKnown ==
  ASSUME WireKnown, 1..db \subseteq 1..db', NEW more \in Seq(Frames), wire' = wire \o more,
         \A j \in 1..Len(more) :
           more[j].t # "connect" /\ (more[j].t = "event" => more[j].id \in 1..db)
  PROVE  /\ WireKnown'
         /\ Arriving \subseteq Arriving'
         /\ \A j \in 1..Len(more) : more[j].t = "event" => more[j].id \in Arriving'
<1>1. wire' \in Seq(Frames) /\ Wired' = Wired \cup {more[j] : j \in 1..Len(more)}
  BY FramesAdded DEF WireKnown
<1>2. Arriving \subseteq Arriving'
  BY <1>1 DEF Arriving
<1>3. \A j \in 1..Len(more) : more[j].t = "event" => more[j].id \in Arriving'
  BY <1>1 DEF Arriving
<1>4. Arriving' \subseteq 1..db'
  <2>1. SUFFICES ASSUME NEW f \in Wired', f.t = "event" PROVE f.id \in 1..db'
    BY DEF Arriving
  <2>2. CASE f \in Wired
    BY <2>1, <2>2 DEF WireKnown, Arriving
  <2>3. CASE f \in {more[j] : j \in 1..Len(more)}
    BY <2>1, <2>3
  <2> QED BY <1>1, <2>1, <2>2, <2>3
<1> QED BY <1>1, <1>2, <1>3, <1>4 DEF WireKnown

\* Frames that follow others change nothing of their order.
LEMMA SendsInOrder ==
  ASSUME FramesInOrder, WireKnown, conn \in InRoom, conn' \in InRoom,
         UNCHANGED <<fsm, gap, timer>>, bounds'.disconnect = bounds.disconnect,
         NEW more \in Seq(Frames), wire' = wire \o more,
         \A j \in 1..Len(more) : more[j].t # "connect",
         bounds.disconnect = 0 =>
           conn' = "ready" /\ \A j \in 1..Len(more) : more[j].t = "event"
  PROVE  FramesInOrder'
<1>1. /\ Wired' = Wired \cup {more[j] : j \in 1..Len(more)}
      /\ FrontIs("connect")' <=> FrontIs("connect")
      /\ (\A i \in 2..Len(wire) : wire[i].t # "connect") =>
            (\A i \in 2..Len(wire') : wire'[i].t # "connect")
  BY FramesAdded DEF WireKnown
<1>2. Untouched' <=> Untouched
  BY DEF Untouched
<1> USE DEF FramesInOrder
<1>3. FirstFrame'
  BY <1>1, <1>2 DEF FirstFrame
<1>4. RoomFrames' /\ BusyInRoom'
  BY DEF RoomFrames, BusyInRoom
<1>5. FirstLife'
  BY <1>1, <1>2 DEF FirstLife
<1>6. NextLife'
  BY <1>1 DEF NextLife, InRoom, Down
<1> QED BY <1>3, <1>4, <1>5, <1>6

\* Steps that neither send nor receive leave the frames as they are.
LEMMA QuietOrder ==
  ASSUME FramesInOrder, UNCHANGED <<wire, fsm, gap, timer>>,
         bounds'.disconnect = bounds.disconnect,
         conn' \in Down <=> conn \in Down, conn \in InRoom => conn' \in InRoom,
         conn' = "ready" <=> conn = "ready"
  PROVE  FramesInOrder'
<1>1. /\ (Untouched' <=> Untouched) /\ Wired' = Wired
      /\ (FrontIs("connect")' <=> FrontIs("connect"))
  BY DEF Untouched, Wired, FrontIs
<1> USE DEF FramesInOrder
<1>2. FirstFrame'
  BY <1>1 DEF FirstFrame
<1>3. RoomFrames'
  BY <1>1 DEF RoomFrames
<1>4. FirstLife'
  BY <1>1 DEF FirstLife
<1>5. NextLife'
  BY <1>1 DEF NextLife
<1>6. BusyInRoom'
  BY DEF BusyInRoom
<1> QED BY <1>2, <1>3, <1>4, <1>5, <1>6

\* The list is not touched by the server.
LEMMA ServerKeepsList ==
  ASSUME ListKept, UNCHANGED clientVars, 1..db \subseteq 1..db', db' <= Loaded + NMsgs
  PROVE  ListKept'
BY DEF ListKept, clientVars, list

\* An emit follows an append that went through.
LEMMA EmitsAreKept ==
  ASSUME Calm, ReplayInv, NothingLost, ServerNext
  PROVE  \A r \in Replicas : fan'[r].at = "emit" => fan'[r].kept
<1> USE DEF ReplayInv, NothingLost
<1>1. CASE UNCHANGED fan
  BY <1>1
<1>2. ASSUME NEW r \in Replicas,
             \/ \E m \in Msgs : FanStart(r, m)
             \/ FanSeq(r) \/ FanAppend(r) \/ FanEmit(r) \/ FanEmitLost(r) \/ FanCrash(r),
             NEW q \in Replicas, fan'[q].at = "emit"
      PROVE  fan'[q].kept
  <2>1. CASE q # r
    <3>1. fan'[q] = fan[q]
      BY <1>2, <2>1, FanMoves DEF FanEmit, FanEmitLost
    <3> QED BY <1>2, <3>1
  <2>2. CASE q = r
    <3>1. FanAppend(r)
      BY <1>2, <2>2, FanMoves DEF FanEmit, FanEmitLost
    <3>2. ~Use("append")
      BY CalmUses DEF ReplayType
    <3>3. fan' = [fan EXCEPT ![r].at = "emit", ![r].kept = TRUE]
      BY <3>1, <3>2 DEF FanAppend
    <3>4. fan[r] \in Fan /\ r \in DOMAIN fan
      BY DEF SeqInv, SeqType
    <3> QED BY <2>2, <3>3, <3>4 DEF Fan
  <2> QED BY <2>1, <2>2
<1>3. [ServerNext \/ Sink \/ Drop]_serverVars
  OBVIOUS
<1> QED BY <1>1, <1>2, <1>3, FanActions

\* A step of the server that sends nothing keeps what the page has been promised.
LEMMA QuietPage ==
  ASSUME PageInv, UNCHANGED clientVars, UNCHANGED <<wire, sent, buffered, handshake, done>>,
         1..db \subseteq 1..db', db' <= Loaded + NMsgs,
         bounds'.disconnect = bounds.disconnect, bounds'.lost = bounds.lost,
         \A r \in Replicas : fan'[r].at = "emit" => fan'[r].kept,
         conn' \in Down <=> conn \in Down, conn \in InRoom => conn' \in InRoom,
         conn' = "ready" <=> conn = "ready"
  PROVE  PageInv'
<1> USE DEF PageInv
<1>1. UNCHANGED <<cache, fsm, gap, timer, truncated>>
  BY DEF clientVars, list, sync
<1>2. ListKept'
  BY ServerKeepsList
<1>3. NothingLost'
  BY DEF NothingLost
<1>4. Wired' = Wired /\ Arriving' = Arriving
  BY DEF Wired, Arriving
<1>5. SentArrives'
  BY <1>1, <1>4 DEF SentArrives
<1>6. FramesInOrder'
  BY <1>1, QuietOrder
<1>7. FetchCovers'
  BY <1>1 DEF FetchCovers
<1>8. GapOwed'
  BY <1>1, <1>4 DEF GapOwed, Caught
<1> QED BY <1>2, <1>3, <1>5, <1>6, <1>7, <1>8

\* The steps of the server between what it sends.
LEMMA QuietStep ==
  ASSUME Calm, ReplayInv, DrivenIInv, PageInv, ServerNext, UNCHANGED clientVars,
         \/ Commit \/ Join \/ ReadBaseline \/ ReadReplay
         \/ \E r \in Replicas : \/ \E m \in Msgs : FanStart(r, m)
                                \/ FanSeq(r) \/ FanAppend(r) \/ FanCrash(r)
  PROVE  PageInv'
<1>1. 1..db \subseteq 1..db' /\ db' <= Loaded + NMsgs
  BY DbGrows DEF PageInv, Next
<1>2. UNCHANGED <<wire, sent, buffered, handshake, done>>
  BY DEF Commit, Join, ReadBaseline, ReadReplay, FanStart, FanSeq, FanAppend, FanCrash, socket,
         stored
<1>3. /\ ~Use("append") /\ ~Use("handler")
      /\ Use("seq") \/ Use("crash") =>
           bounds'.disconnect = bounds.disconnect /\ bounds'.lost = bounds.lost
  BY CalmUses DEF ReplayInv, ReplayType
<1>4. bounds'.disconnect = bounds.disconnect /\ bounds'.lost = bounds.lost
  <2>1. UNCHANGED bounds \/ Use("seq") \/ Use("crash")
    BY <1>3 DEF Commit, Join, ReadBaseline, ReadReplay, FanStart, FanSeq, FanAppend, FanCrash
  <2> QED BY <1>3, <2>1
<1>5. /\ conn' \in Down <=> conn \in Down
      /\ conn \in InRoom => conn' \in InRoom
      /\ conn' = "ready" <=> conn = "ready"
  BY <1>3 DEF Commit, Join, ReadBaseline, ReadReplay, FanStart, FanSeq, FanAppend, FanCrash,
              socket, InRoom, Down
<1>6. \A r \in Replicas : fan'[r].at = "emit" => fan'[r].kept
  BY EmitsAreKept DEF PageInv
<1> QED BY <1>1, <1>2, <1>4, <1>5, <1>6, QuietPage

\* An event is emitted: it reaches the wire of a page in the room, and a page
\* that is not in the room has not begun to catch up.
LEMMA EmitStep ==
  ASSUME Calm, ReplayInv, DrivenIInv, IdsKnown, PageInv, ServerNext, UNCHANGED clientVars,
         NEW r \in Replicas, FanEmit(r)
  PROVE  WireKnown' /\ PageInv'
<1> USE DEF PageInv
<1>1. /\ db' = db /\ done' = done \cup {fan[r].id} /\ fan[r].at = "emit"
      /\ UNCHANGED <<handshake, conn, bounds>>
  BY DEF FanEmit, FanDone
<1>2. UNCHANGED <<cache, fsm, gap, timer, truncated>>
  BY DEF clientVars, list, sync
<1>3. 1..db \subseteq 1..db' /\ db' <= Loaded + NMsgs
  BY DbGrows DEF Next
<1>4. fan[r].id \in 1..db /\ fan[r].id \in Nat /\ fan[r].seq \in Int /\ fan[r].kept
  BY <1>1 DEF IdsKnown, FansKnown, ReplayInv, SeqInv, SeqType, Fan, NothingLost
<1>5. ListKept'
  BY <1>3, ServerKeepsList
<1>6. NothingLost'
  <2>1. \A q \in Replicas : fan'[q].at = "emit" => fan'[q].kept
    BY EmitsAreKept
  <2>2. buffered' = buffered \cup {fan[r].id}
    BY <1>4 DEF FanEmit
  <2> QED BY <1>1, <2>1, <2>2 DEF NothingLost
<1>7. CASE conn \in InRoom
  <2> PICK more : more = <<Event(fan[r])>>
    OBVIOUS
  <2>1. Event(fan[r]) \in Frames /\ Event(fan[r]).t = "event" /\ Event(fan[r]).id = fan[r].id
    BY <1>4 DEF Frames, Event
  <2>2. /\ more \in Seq(Frames) /\ Len(more) = 1 /\ more[1] = Event(fan[r])
        /\ \A j \in 1..Len(more) : more[j] = Event(fan[r])
    BY <2>1
  <2>3. wire' = wire \o more /\ sent' = sent \cup {fan[r].id}
    <3>1. wire' = Append(wire, Event(fan[r])) /\ sent' = sent \cup {fan[r].id}
      BY <1>7 DEF FanEmit
    <3>2. wire \in Seq(Frames)
      BY DEF IdsKnown, WireKnown
    <3> QED BY <2>1, <3>1, <3>2, AppendIsConcat
  <2>4. WireKnown' /\ Arriving \subseteq Arriving' /\ fan[r].id \in Arriving'
    <3>1. \A j \in 1..Len(more) :
            more[j].t # "connect" /\ (more[j].t = "event" => more[j].id \in 1..db)
      BY <1>4, <2>1, <2>2
    <3>2. 1 \in 1..Len(more) /\ more[1].t = "event" /\ more[1].id = fan[r].id
      BY <2>1, <2>2
    <3> QED BY <1>3, <2>2, <2>3, <3>1, <3>2, SendsKnown DEF IdsKnown
  <2>5. SentArrives'
    BY <1>2, <2>3, <2>4 DEF SentArrives
  <2>6. FramesInOrder'
    <3>1. bounds.disconnect = 0 => conn' = "ready"
      BY <1>1 DEF FramesInOrder, FirstLife
    <3>2. \A j \in 1..Len(more) : more[j].t = "event"
      BY <2>1, <2>2
    <3> QED BY <1>1, <1>2, <1>7, <2>2, <2>3, <3>1, <3>2, SendsInOrder DEF IdsKnown
  <2>7. FetchCovers'
    BY <1>1, <1>2, <2>3 DEF FetchCovers
  <2>8. GapOwed'
    <3>1. Caught => Caught'
      BY <1>1, <1>2, <2>3 DEF Caught
    <3>2. Wired \subseteq Wired'
      BY <2>2, <2>3, FramesAdded, <2>1 DEF IdsKnown, WireKnown
    <3> QED BY <1>1, <1>2, <3>1, <3>2 DEF GapOwed
  <2> QED BY <1>5, <1>6, <2>4, <2>5, <2>6, <2>7, <2>8
<1>8. CASE conn \notin InRoom
  <2>1. UNCHANGED <<wire, sent>>
    BY <1>8 DEF FanEmit
  <2>2. Wired' = Wired /\ Arriving' = Arriving
    BY <2>1 DEF Wired, Arriving
  <2>3. WireKnown'
    BY <1>1, <2>1, <2>2 DEF IdsKnown, WireKnown
  <2>4. SentArrives'
    BY <1>2, <2>1, <2>2 DEF SentArrives
  <2>5. FramesInOrder'
    BY <1>1, <1>2, <2>1, QuietOrder
  <2>6. gap.at = "idle" /\ conn # "ready"
    BY <1>8 DEF FramesInOrder, BusyInRoom, InRoom
  <2>7. FetchCovers' /\ GapOwed'
    BY <1>1, <1>2, <2>6 DEF FetchCovers, GapOwed
  <2> QED BY <1>5, <1>6, <2>3, <2>4, <2>5, <2>7
<1> QED BY <1>7, <1>8

\* The page connects again: nothing has reached it yet.
LEMMA ConnectStep ==
  ASSUME DrivenIInv, IdsKnown, PageInv, Connect, UNCHANGED clientVars
  PROVE  WireKnown' /\ PageInv'
<1> USE DEF PageInv
<1>1. /\ UNCHANGED <<db, done, fan, handshake, buffered, bounds>>
      /\ conn = "off" /\ conn' = "auth" /\ wire' = <<[t |-> "connect"]>> /\ sent' = {}
  BY DEF Connect, stored
<1>2. UNCHANGED <<cache, fsm, gap, timer, truncated>>
  BY DEF clientVars, list, sync
<1>3. /\ wire' \in Seq(Frames) /\ Len(wire') = 1 /\ wire'[1].t = "connect" /\ wire' # <<>>
      /\ Wired' = {[t |-> "connect"]}
  <2>1. [t |-> "connect"] \in Frames
    BY DEF Frames
  <2> QED BY <1>1, <2>1 DEF Wired
<1>4. Arriving' = {}
  BY <1>3 DEF Arriving
<1>5. WireKnown'
  BY <1>3, <1>4 DEF WireKnown
<1>6. ListKept'
  BY <1>1 DEF ListKept, clientVars, list
<1>7. NothingLost' /\ SentArrives' /\ FetchCovers' /\ GapOwed'
  <2>1. gap.at = "idle"
    BY <1>1 DEF FramesInOrder, BusyInRoom, InRoom
  <2> QED BY <1>1, <1>2, <2>1 DEF NothingLost, SentArrives, FetchCovers, GapOwed
<1>8. FramesInOrder'
  <2>1. bounds'.disconnect # 0 /\ Untouched /\ Untouched'
    BY <1>1, <1>2 DEF FramesInOrder, FirstLife, NextLife, Untouched, Down
  <2>2. FrontIs("connect")' /\ \A i \in 2..Len(wire') : FALSE
    BY <1>3 DEF FrontIs
  <2>3. FirstFrame' /\ RoomFrames'
    BY <1>3, <2>1, <2>2 DEF FirstFrame, RoomFrames
  <2>4. FirstLife' /\ NextLife'
    BY <1>1, <2>1, <2>2 DEF FirstLife, NextLife, Down
  <2>5. BusyInRoom'
    BY <2>1 DEF BusyInRoom, Untouched
  <2> QED BY <2>3, <2>4, <2>5 DEF FramesInOrder
<1> QED BY <1>5, <1>6, <1>7, <1>8

\* The baseline is sent, and the handshake has an id to replay from.
LEMMA BaselineStep ==
  ASSUME DrivenIInv, IdsKnown, PageInv, SendBaseline, UNCHANGED clientVars
  PROVE  WireKnown' /\ PageInv'
<1> USE DEF PageInv
<1>1. /\ UNCHANGED <<db, done, fan, handshake, buffered, bounds, sent>>
      /\ conn = "based" /\ conn' = "replay" /\ wire' = wire \o <<[t |-> "joined", seq |-> read.seq]>>
  BY DEF SendBaseline, stored, Send, NothingLost
<1>2. UNCHANGED <<cache, fsm, gap, timer, truncated>>
  BY DEF clientVars, list, sync
<1> PICK more : more = <<[t |-> "joined", seq |-> read.seq]>>
  OBVIOUS
<1>3. /\ more \in Seq(Frames) /\ Len(more) = 1
      /\ \A j \in 1..Len(more) : more[j].t = "joined"
  <2>1. read.seq \in Int
    BY DEF IdsKnown, ReadKnown
  <2>2. [t |-> "joined", seq |-> read.seq] \in Frames
    BY <2>1 DEF Frames
  <2> QED BY <2>2
<1>4. WireKnown' /\ Arriving \subseteq Arriving'
  <2>1. 1..db \subseteq 1..db'
    BY <1>1
  <2> QED BY <1>1, <1>3, <2>1, SendsKnown DEF IdsKnown
<1>5. ListKept'
  BY <1>1 DEF ListKept, clientVars, list
<1>6. NothingLost' /\ SentArrives' /\ FetchCovers' /\ GapOwed'
  BY <1>1, <1>2, <1>4 DEF NothingLost, SentArrives, FetchCovers, GapOwed
<1>7. FramesInOrder'
  <2>1. conn \in InRoom /\ conn' \in InRoom /\ bounds.disconnect # 0
    BY <1>1 DEF InRoom, FramesInOrder, FirstLife
  <2> QED BY <1>1, <1>2, <1>3, <2>1, SendsInOrder DEF IdsKnown
<1> QED BY <1>4, <1>5, <1>6, <1>7

\* What SendReplay puts on the wire: the events it read, or the word that there
\* are too many.
LEMMA ReplayFrames ==
  ASSUME IdsKnown, SendReplay
  PROVE  \E more \in Seq(Frames) :
           /\ wire' = wire \o more
           /\ \A j \in 1..Len(more) :
                more[j].t # "connect" /\ (more[j].t = "event" => more[j].id \in 1..db)
           /\ \A j \in 1..Len(more) :
                \/ more[j].t \in {"truncated", "complete"}
                \/ \E i \in 1..Len(read.events) : more[j] = Event(read.events[i])
           /\ IF read.cut
              THEN /\ sent' = sent /\ \E j \in 1..Len(more) : more[j].t = "truncated"
              ELSE /\ sent' = sent \cup Read
                   /\ \A m \in Read : \E j \in 1..Len(more) : more[j].t = "event" /\ more[j].id = m
<1>1. CASE read.cut
  <2> PICK more : more = <<[t |-> "truncated"], [t |-> "complete"]>>
    OBVIOUS
  <2>1. wire' = wire \o more /\ sent' = sent
    BY <1>1 DEF SendReplay, Send
  <2>2. [t |-> "truncated"] \in Frames /\ [t |-> "complete"] \in Frames
    BY DEF Frames
  <2>3. more \in Seq(Frames) /\ Len(more) = 2 /\ more[1].t = "truncated" /\ more[2].t = "complete"
    BY <2>2
  <2>4. \A j \in 1..Len(more) : more[j].t \in {"truncated", "complete"}
    BY <2>3
  <2>5. 1 \in 1..Len(more)
    BY <2>3
  <2> QED BY <1>1, <2>1, <2>3, <2>4, <2>5
<1>2. CASE ~read.cut
  <2> PICK es \in Seq(Entry) : es = read.events /\ \A i \in 1..Len(es) : es[i].id \in 1..db
    BY DEF IdsKnown, ReadKnown
  <2> PICK evs : evs = [i \in DOMAIN es |-> Event(es[i])]
    OBVIOUS
  <2> PICK end : end = <<[t |-> "complete"]>>
    OBVIOUS
  <2> PICK more : more = evs \o end
    OBVIOUS
  <2>1. wire' = wire \o more /\ sent' = sent \cup Read
    BY <1>2 DEF SendReplay, Send, Read
  <2>2. Len(es) \in Nat /\ DOMAIN es = 1..Len(es)
    OBVIOUS
  <2>3. \A i \in 1..Len(es) : /\ Event(es[i]) \in Frames /\ Event(es[i]).t = "event"
                               /\ Event(es[i]).id = es[i].id
    <3>1. \A i \in 1..Len(es) : es[i] \in Entry
      OBVIOUS
    <3>2. \A e \in Entry : e.id \in Nat /\ e.seq \in Int
      BY DEF Entry
    <3> QED BY <3>1, <3>2 DEF Frames, Event
  <2>4. /\ evs \in Seq(Frames) /\ Len(evs) = Len(es)
        /\ \A i \in 1..Len(es) : evs[i] = Event(es[i])
    BY <2>2, <2>3
  <2>5. end \in Seq(Frames) /\ Len(end) = 1 /\ end[1].t = "complete"
    <3>1. [t |-> "complete"] \in Frames
      BY DEF Frames
    <3> QED BY <3>1
  <2>6. /\ more \in Seq(Frames) /\ Len(more) = Len(es) + 1
        /\ \A i \in 1..(Len(es) + 1) : more[i] = IF i <= Len(es) THEN evs[i] ELSE end[i - Len(es)]
    <3>1. Len(evs) + Len(end) = Len(es) + 1
      BY <2>4, <2>5
    <3> QED BY <2>4, <2>5, <3>1, ConcatProperties
  <2>7. \A i \in 1..Len(es) : i \in 1..Len(more) /\ more[i] = Event(es[i])
    <3>1. TAKE i \in 1..Len(es)
    <3>2. i \in 1..(Len(es) + 1) /\ i <= Len(es)
      BY <2>2
    <3> QED BY <2>4, <2>6, <3>2
  <2>8. ASSUME NEW j \in 1..Len(more)
        PROVE  /\ more[j].t # "connect" /\ (more[j].t = "event" => more[j].id \in 1..db)
               /\ \/ more[j].t \in {"truncated", "complete"}
                  \/ \E i \in 1..Len(es) : more[j] = Event(es[i])
    <3>1. CASE j <= Len(es)
      <4>1. j \in 1..Len(es)
        BY <2>2, <2>6, <3>1
      <4> QED BY <2>3, <2>7, <4>1
    <3>2. CASE ~(j <= Len(es))
      <4>1. j \in 1..(Len(es) + 1) /\ j - Len(es) = 1
        BY <2>2, <2>6, <3>2
      <4> QED BY <2>5, <2>6, <3>2, <4>1
    <3> QED BY <3>1, <3>2
  <2>9. \A m \in Read : \E j \in 1..Len(more) : more[j].t = "event" /\ more[j].id = m
    <3>1. SUFFICES ASSUME NEW m \in Read
                   PROVE  \E j \in 1..Len(more) : more[j].t = "event" /\ more[j].id = m
      OBVIOUS
    <3>2. PICK i \in 1..Len(es) : es[i].id = m
      BY <2>2 DEF Read
    <3> QED BY <2>3, <2>7, <3>2
  <2>10. \A j \in 1..Len(more) :
          \/ more[j].t \in {"truncated", "complete"}
          \/ \E i \in 1..Len(read.events) : more[j] = Event(read.events[i])
    BY <2>8
  <2>11. \A j \in 1..Len(more) :
           more[j].t # "connect" /\ (more[j].t = "event" => more[j].id \in 1..db)
    <3> TAKE j \in 1..Len(more)
    <3> QED BY <2>8
  <2>12. more \in Seq(Frames)
    BY <2>6
  <2> QED BY <1>2, <2>1, <2>9, <2>10, <2>11, <2>12
<1>3. read.cut \in BOOLEAN
  BY DEF IdsKnown, ReadKnown
<1> QED BY <1>1, <1>2, <1>3

\* The replay is sent: with it and with what came from the room the page has
\* every message, or it is told that it has not.
LEMMA ReplaySentStep ==
  ASSUME Calm, ReplayInv, DrivenIInv, IdsKnown, PageInv, SendReplay, UNCHANGED clientVars
  PROVE  WireKnown' /\ PageInv'
<1> USE DEF PageInv
<1>1. /\ UNCHANGED <<db, done, fan, handshake, buffered, bounds>>
      /\ conn = "range" /\ conn' = "ready"
  BY DEF SendReplay, stored
<1>2. UNCHANGED <<cache, fsm, gap, timer, truncated>>
  BY DEF clientVars, list, sync
<1>3. PICK more \in Seq(Frames) :
        /\ wire' = wire \o more
        /\ \A j \in 1..Len(more) :
             more[j].t # "connect" /\ (more[j].t = "event" => more[j].id \in 1..db)
        /\ IF read.cut
           THEN /\ sent' = sent /\ \E j \in 1..Len(more) : more[j].t = "truncated"
           ELSE /\ sent' = sent \cup Read
                /\ \A m \in Read : \E j \in 1..Len(more) : more[j].t = "event" /\ more[j].id = m
  BY ReplayFrames
<1>4. /\ WireKnown' /\ Arriving \subseteq Arriving'
      /\ \A j \in 1..Len(more) : more[j].t = "event" => more[j].id \in Arriving'
  <2>1. 1..db \subseteq 1..db'
    BY <1>1
  <2> QED BY <1>3, <2>1, SendsKnown DEF IdsKnown
<1>5. ListKept' /\ NothingLost'
  BY <1>1 DEF ListKept, NothingLost, clientVars, list
<1>6. sent \subseteq sent' /\ sent' \subseteq cache \cup Arriving'
  <2>1. sent \subseteq cache \cup Arriving'
    BY <1>4 DEF SentArrives
  <2>2. CASE read.cut
    BY <1>3, <2>1, <2>2
  <2>3. CASE ~read.cut
    <3>1. sent' = sent \cup Read
      BY <1>3, <2>3
    <3>2. \A m \in Read : m \in Arriving'
      BY <1>3, <1>4, <2>3
    <3> QED BY <2>1, <3>1, <3>2
  <2> QED BY <2>2, <2>3
<1>7. SentArrives' /\ FetchCovers'
  BY <1>1, <1>2, <1>6 DEF SentArrives, FetchCovers
<1>8. FramesInOrder'
  <2>1. conn \in InRoom /\ conn' \in InRoom /\ bounds.disconnect # 0
    BY <1>1 DEF InRoom, FramesInOrder, FirstLife
  <2> QED BY <1>1, <1>2, <1>3, <2>1, SendsInOrder DEF IdsKnown
<1>9. GapOwed'
  <2>1. CASE read.cut
    <3>1. Wired' = Wired \cup {more[j] : j \in 1..Len(more)}
      BY <1>3, FramesAdded DEF IdsKnown, WireKnown
    <3>2. \E f \in Wired' : f.t = "truncated"
      BY <1>3, <2>1, <3>1
    <3> QED BY <3>2 DEF GapOwed
  <2>2. CASE ~read.cut
    <3>1. buffered \subseteq sent \cup Read
      BY <1>1, <2>2 DEF ReplayInv, ReadMeetsLive, NothingLost
    <3>2. done \subseteq cache \cup sent'
      BY <1>3, <2>2, <3>1 DEF NothingLost, ListKept
    <3> QED BY <1>1, <1>2, <3>2 DEF GapOwed, Caught
  <2>3. read.cut \in BOOLEAN
    BY DEF IdsKnown, ReadKnown
  <2> QED BY <2>1, <2>2, <2>3
<1> QED BY <1>4, <1>5, <1>7, <1>8, <1>9

\* Every step of the server keeps the promises.
LEMMA ServerStep ==
  ASSUME Calm, ReplayInv, DrivenIInv, IdsKnown, PageInv, ServerNext, UNCHANGED clientVars
  PROVE  IdsKnown' /\ PageInv'
<1>1. 1..db \subseteq 1..db'
  BY DbGrows DEF PageInv, Next
<1>2. FansKnown' /\ BufferKnown' /\ ReadKnown' /\ done' \subseteq 1..db'
  BY <1>1, ServerKnows
<1>3. CASE \/ Commit \/ Join \/ ReadBaseline \/ ReadReplay
           \/ \E r \in Replicas : \/ \E m \in Msgs : FanStart(r, m)
                                  \/ FanSeq(r) \/ FanAppend(r) \/ FanCrash(r)
  <2>1. PageInv'
    BY <1>3, QuietStep
  <2>2. wire' = wire
    BY <1>3 DEF Commit, Join, ReadBaseline, ReadReplay, FanStart, FanSeq, FanAppend, FanCrash,
                socket
  <2>3. WireKnown'
    <3>1. Arriving' = Arriving
      BY <2>2 DEF Arriving, Wired
    <3> QED BY <1>1, <2>2, <3>1 DEF IdsKnown, WireKnown
  <2> QED BY <1>2, <2>1, <2>3 DEF IdsKnown
<1>4. CASE \E r \in Replicas : FanEmit(r)
  BY <1>2, <1>4, EmitStep DEF IdsKnown
<1>5. CASE Connect
  BY <1>2, <1>5, ConnectStep DEF IdsKnown
<1>6. CASE SendBaseline
  BY <1>2, <1>6, BaselineStep DEF IdsKnown
<1>7. CASE SendReplay
  BY <1>2, <1>7, ReplaySentStep DEF IdsKnown
<1>8. \A r \in Replicas : ~FanEmitLost(r)
  BY CalmUses DEF FanEmitLost, ReplayInv, ReplayType
<1> QED BY <1>3, <1>4, <1>5, <1>6, <1>7, <1>8 DEF ServerNext, FanStep, HandleConnection

-----------------------------------------------------------------------------
\* The page has begun to catch up: it is in the room of its second connection.
LEMMA BusyPage ==
  ASSUME FramesInOrder, gap.at # "idle" \/ timer
  PROVE  /\ conn \in InRoom /\ conn \notin Down /\ bounds.disconnect # 0
         /\ fsm # "DISCONNECTED" /\ ~FrontIs("connect")
<1>1. conn \in InRoom /\ conn \notin Down
  BY DEF FramesInOrder, BusyInRoom, InRoom, Down
<1>2. ~Untouched
  BY DEF Untouched
<1>3. bounds.disconnect # 0 /\ ~FrontIs("connect")
  BY <1>2 DEF FramesInOrder, FirstLife, FirstFrame
<1>4. fsm # "DISCONNECTED"
  BY <1>1, <1>3 DEF FramesInOrder, NextLife
<1> QED BY <1>1, <1>3, <1>4

\* A step of the fetch moves no frame.
LEMMA FetchInOrder ==
  ASSUME FramesInOrder, UNCHANGED serverVars, gap.at # "idle" \/ timer, fsm' # "DISCONNECTED"
  PROVE  FramesInOrder'
<1>1. UNCHANGED <<wire, conn, bounds>>
  BY DEF serverVars, socket
<1>2. /\ conn \in InRoom /\ conn \notin Down /\ bounds.disconnect # 0 /\ ~FrontIs("connect")
  BY BusyPage
<1>3. Wired' = Wired /\ ~FrontIs("connect")'
  BY <1>1, <1>2 DEF Wired, FrontIs
<1>4. FirstFrame' /\ RoomFrames' /\ BusyInRoom'
  BY <1>1, <1>2, <1>3 DEF FramesInOrder, FirstFrame, RoomFrames, BusyInRoom
<1>5. FirstLife' /\ NextLife'
  BY <1>1, <1>2 DEF FirstLife, NextLife
<1> QED BY <1>4, <1>5 DEF FramesInOrder

\* What a frame says of the connection that carries it.
LEMMA FrameTells ==
  ASSUME FramesInOrder, WireKnown, NEW t, Frame(t)
  PROVE  /\ wire[1] \in Wired /\ wire[1].t = t /\ Head(wire) = wire[1] /\ conn \notin Down
         /\ t = "connect" => Untouched
         /\ t # "connect" => conn \in InRoom /\ ~FrontIs("connect")
         /\ t # "event" => bounds.disconnect # 0
         /\ bounds.disconnect # 0 /\ t # "connect" => fsm # "DISCONNECTED"
<1>1. wire[1] \in Wired /\ wire[1].t = t /\ Head(wire) = wire[1] /\ wire # <<>>
  BY FrameTaken DEF Frame, WireKnown
<1>2. FrontIs(t)
  BY <1>1 DEF FrontIs
<1>3. conn \notin Down
  BY <1>1 DEF FramesInOrder, FirstLife, NextLife, Down
<1>4. t = "connect" => Untouched
  BY <1>2 DEF FramesInOrder, FirstFrame
<1>5. t # "connect" => conn \in InRoom /\ ~FrontIs("connect")
  BY <1>1 DEF FramesInOrder, RoomFrames, FrontIs
<1>6. t # "event" => bounds.disconnect # 0
  BY <1>1 DEF FramesInOrder, FirstLife
<1>7. bounds.disconnect # 0 /\ t # "connect" => fsm # "DISCONNECTED"
  BY <1>3, <1>5 DEF FramesInOrder, NextLife
<1> QED BY <1>1, <1>3, <1>4, <1>5, <1>6, <1>7

\* A frame that was taken leaves the others in order.
LEMMA FrameInOrder ==
  ASSUME FramesInOrder, WireKnown, NEW t, Frame(t),
         bounds.disconnect = 0 => Untouched',
         bounds.disconnect # 0 => fsm' # "DISCONNECTED",
         t = "connect" => gap'.at = "idle" /\ ~timer' /\ fsm' = "RECONNECTING"
  PROVE  FramesInOrder'
<1>1. UNCHANGED <<conn, bounds>>
  BY DEF Frame
<1>2. /\ Wired' \subseteq Wired
      /\ \A i \in 1..Len(wire') : wire'[i] = wire[i + 1] /\ i + 1 \in 2..Len(wire)
      /\ wire' \in Seq(Frames)
  BY FrameTaken DEF Frame, WireKnown
<1>3. \A i \in 1..Len(wire') : wire'[i].t # "connect"
  BY <1>2 DEF FramesInOrder, FirstFrame
<1>4. FirstFrame'
  <2>1. wire' # <<>> => 1 \in 1..Len(wire')
    BY <1>2
  <2>2. ~FrontIs("connect")'
    BY <1>3, <2>1 DEF FrontIs
  <2>3. \A i \in 2..Len(wire') : i \in 1..Len(wire')
    BY <1>2
  <2> QED BY <1>3, <2>2, <2>3 DEF FirstFrame
<1>5. RoomFrames'
  BY <1>1, <1>2 DEF FramesInOrder, RoomFrames
<1>6. FirstLife'
  BY <1>1, <1>2 DEF FramesInOrder, FirstLife
<1>7. NextLife'
  <2>1. conn \notin Down
    BY FrameTells
  <2> QED BY <1>1, <2>1 DEF NextLife
<1>8. BusyInRoom'
  <2>1. CASE t = "connect"
    BY <2>1 DEF BusyInRoom
  <2>2. CASE t # "connect"
    BY <1>1, <2>2, FrameTells DEF BusyInRoom
  <2> QED BY <2>1, <2>2
<1> QED BY <1>4, <1>5, <1>6, <1>7, <1>8 DEF FramesInOrder

\* What arrives is still on its way, or is the event that was taken.
LEMMA FrameArrives ==
  ASSUME WireKnown, NEW t, Frame(t)
  PROVE  /\ WireKnown'
         /\ t # "event" => Arriving \subseteq Arriving'
         /\ t = "event" => /\ Head(wire).id \in 1..db
                           /\ Arriving \subseteq Arriving' \cup {Head(wire).id}
         /\ t # "truncated" =>
              ((\E f \in Wired : f.t = "truncated") => \E f \in Wired' : f.t = "truncated")
<1>1. /\ wire' \in Seq(Frames) /\ Head(wire) = wire[1] /\ wire[1] \in Wired
      /\ Wired' \subseteq Wired /\ Wired \subseteq Wired' \cup {wire[1]}
  BY FrameTaken DEF Frame, WireKnown
<1>2. wire[1].t = t /\ db' = db
  BY <1>1 DEF Frame, stored
<1>3. Arriving' \subseteq Arriving
  BY <1>1 DEF Arriving
<1>4. WireKnown'
  BY <1>1, <1>2, <1>3 DEF WireKnown
<1>5. ASSUME NEW m \in Arriving PROVE m \in Arriving' \/ (t = "event" /\ m = wire[1].id)
  <2>1. PICK f \in Wired : f.t = "event" /\ f.id = m
    BY DEF Arriving
  <2>2. CASE f \in Wired'
    BY <2>1, <2>2 DEF Arriving
  <2>3. CASE f = wire[1]
    BY <1>2, <2>1, <2>3
  <2> QED BY <1>1, <2>2, <2>3
<1>6. t = "event" => wire[1].id \in Arriving
  BY <1>1, <1>2 DEF Arriving
<1>7. t # "truncated" =>
        ((\E f \in Wired : f.t = "truncated") => \E f \in Wired' : f.t = "truncated")
  BY <1>1, <1>2
<1> QED BY <1>1, <1>4, <1>5, <1>6, <1>7 DEF WireKnown

-----------------------------------------------------------------------------
\* Where the FSM goes while a page catches up.
LEMMA CatchesUp ==
  ASSUME NEW f \in States
  PROVE  /\ transition("DISCONNECTED", "connect") = "RECONNECTING"
         /\ transition(f, "disconnect") = "DISCONNECTED"
         /\ \A e \in {"replayComplete", "synced", "failed", "gapNeeded", "seqHole"} :
              /\ transition("DISCONNECTED", e) = "DISCONNECTED"
              /\ f # "DISCONNECTED" => transition(f, e) # "DISCONNECTED"
         /\ \A e \in {"replayComplete", "failed", "gapNeeded", "seqHole"} :
              f \in {"GAP_FETCHING", "SYNC_FAILED"} =>
                transition(f, e) \in {"GAP_FETCHING", "SYNC_FAILED"}
         /\ \A e \in {"gapNeeded", "seqHole"} :
              f # "DISCONNECTED" => transition(f, e) \in {"GAP_FETCHING", "SYNC_FAILED"}
<1> USE EdgesOf DEF States
<1>1. CASE f = "DISCONNECTED"
  BY <1>1 DEF transition
<1>2. CASE f = "RECONNECTING"
  BY <1>2 DEF transition
<1>3. CASE f = "GAP_FETCHING"
  BY <1>3 DEF transition
<1>4. CASE f = "SYNCED"
  BY <1>4 DEF transition
<1>5. CASE f = "SYNC_FAILED"
  BY <1>5 DEF transition
<1> QED BY <1>1, <1>2, <1>3, <1>4, <1>5

\* A fetch goes on as it was, or starts after the list that was loaded.
FetchRuns ==
  \/ gap'.at = gap.at /\ gap'.after = gap.after /\ gap'.got = gap.got /\ gap'.over = gap.over
  \/ gap'.at = "fetch" /\ gap'.after = Loaded /\ gap'.got = {}

\* runSync shares the fetch or starts one: the list has a cursor.
LEMMA RunSyncFetches ==
  ASSUME Calm, DrivenIInv, ListKept, NEW f, NEW a, RunSync(f, a)
  PROVE  fsm' = f /\ truncated' = truncated /\ FetchRuns
<1> PICK g \in Fetches : g = gap
  BY DEF DrivenIInv, FetchTypes
<1>1. CASE gap' = [gap EXCEPT !.waiters = @ + 1] /\ fsm' = f /\ UNCHANGED truncated
  <2>1. gap' = [g EXCEPT !.waiters = g.waiters + 1]
    BY <1>1
  <2>2. gap'.at = g.at /\ gap'.after = g.after /\ gap'.got = g.got /\ gap'.over = g.over
    BY <2>1 DEF Fetches
  <2> QED BY <1>1, <2>2 DEF FetchRuns
<1>2. CASE /\ gap' = [NoGap EXCEPT !.at = "fetch", !.after = After, !.waiters = 1]
           /\ fsm' = f /\ UNCHANGED truncated
  <2>1. gap' = [at |-> "fetch", after |-> cursor, got |-> {}, pages |-> 0,
                over |-> FALSE, waiters |-> 1]
    BY <1>2 DEF NoGap, After
  <2>2. gap'.at = "fetch" /\ gap'.after = cursor /\ gap'.got = {}
    BY <2>1
  <2>3. cursor = Loaded
    BY DEF ListKept
  <2>4. FetchRuns
    BY <2>2, <2>3 DEF FetchRuns
  <2> QED BY <1>2, <2>4
<1>3. After # 0
  BY SyncConstants DEF After, ListKept, Calm
<1> QED BY <1>1, <1>2, <1>3 DEF RunSync

\* enterGapFetch: the FSM fetches, or has given up, or is not connected.
LEMMA EnterFetches ==
  ASSUME Calm, DrivenIInv, ListKept, NEW e \in {"gapNeeded", "seqHole"}, EnterGapFetch(e)
  PROVE  /\ fsm' = transition(fsm, e) /\ truncated' = truncated /\ timer' = timer /\ FetchRuns
         /\ fsm = "DISCONNECTED" => UNCHANGED <<fsm, gap, timer>>
<1>1. CASE transition(fsm, e) = "GAP_FETCHING"
  <2>1. RunSync("GAP_FETCHING", 0) /\ UNCHANGED timer
    BY <1>1 DEF EnterGapFetch
  <2>2. fsm # "DISCONNECTED"
    BY <1>1, CatchesUp DEF DrivenIInv, FetchTypes
  <2> QED BY <1>1, <2>1, <2>2, RunSyncFetches
<1>2. CASE transition(fsm, e) # "GAP_FETCHING"
  <2>1. fsm' = transition(fsm, e) /\ UNCHANGED <<truncated, gap, timer>>
    BY <1>2 DEF EnterGapFetch
  <2>2. fsm = "DISCONNECTED" => transition(fsm, e) = fsm
    BY CatchesUp DEF DrivenIInv, FetchTypes
  <2> QED BY <2>1, <2>2 DEF FetchRuns
<1> QED BY <1>1, <1>2

\* The fetch covers what it covered, and a new one starts from the list.
LEMMA FetchStillCovers ==
  ASSUME FetchCovers, ListKept, FetchRuns, UNCHANGED <<db, done, sent>>, cache \subseteq cache'
  PROVE  FetchCovers'
<1>1. CASE gap'.at = gap.at /\ gap'.after = gap.after /\ gap'.got = gap.got /\ gap'.over = gap.over
  <2>1. gap'.got \subseteq 1..db'
    BY <1>1 DEF FetchCovers
  <2>2. gap'.at = "fetch" => 1..gap'.after \subseteq cache' \cup gap'.got
    BY <1>1 DEF FetchCovers
  <2>3. gap'.at = "ok" /\ ~gap'.over => done' \subseteq cache' \cup sent' \cup gap'.got
    BY <1>1 DEF FetchCovers
  <2> QED BY <2>1, <2>2, <2>3 DEF FetchCovers
<1>2. CASE gap'.at = "fetch" /\ gap'.after = Loaded /\ gap'.got = {}
  BY <1>2 DEF FetchCovers, ListKept
<1> QED BY <1>1, <1>2 DEF FetchRuns

\* Frames other than events leave the list alone.
LEMMA ControlFrame ==
  ASSUME IdsKnown, PageInv, NEW t, Frame(t), t # "event", UNCHANGED <<list, used, truncated>>,
         last' # None, fsm' # "DISCONNECTED", FetchRuns,
         t = "connect" => gap'.at = "idle" /\ ~timer' /\ fsm' = "RECONNECTING",
         t = "truncated" => fsm' \in {"GAP_FETCHING", "SYNC_FAILED"},
         t # "truncated" => (fsm \in {"GAP_FETCHING", "SYNC_FAILED"} =>
                               fsm' \in {"GAP_FETCHING", "SYNC_FAILED"})
  PROVE  WireKnown' /\ PageInv'
<1> USE DEF PageInv, IdsKnown
<1>1. UNCHANGED <<db, done, fan, handshake, conn, sent, buffered, bounds, cache, cursor, loading>>
  BY DEF Frame, stored, list
<1>2. /\ WireKnown' /\ Arriving \subseteq Arriving'
      /\ t # "truncated" =>
           ((\E f \in Wired : f.t = "truncated") => \E f \in Wired' : f.t = "truncated")
  BY FrameArrives
<1>3. ListKept'
  BY <1>1 DEF ListKept
<1>4. NothingLost' /\ SentArrives'
  BY <1>1, <1>2 DEF NothingLost, SentArrives
<1>5. FetchCovers'
  BY <1>1, FetchStillCovers
<1>6. FramesInOrder'
  <2>1. bounds.disconnect # 0
    BY FrameTells
  <2> QED BY <2>1, FrameInOrder
<1>7. GapOwed'
  <2>1. CASE t = "truncated"
    BY <2>1 DEF GapOwed
  <2>2. CASE t # "truncated"
    BY <1>1, <1>2, <2>2 DEF GapOwed, Caught
  <2> QED BY <2>1, <2>2
<1> QED BY <1>2, <1>3, <1>4, <1>5, <1>6, <1>7

\* "connect", "complete", "joined" and "truncated" reach the page.
LEMMA ControlStep ==
  ASSUME Calm, DrivenIInv, IdsKnown, PageInv,
         OnConnect \/ OnReplayComplete \/ OnChannelJoined \/ OnReplayTruncated
  PROVE  WireKnown' /\ PageInv'
<1> USE DEF PageInv
<1>0. fsm \in States /\ last # None /\ WireKnown
  BY DEF DrivenIInv, FetchTypes, ListKept, IdsKnown
<1>1. CASE OnConnect
  <2>1. Frame("connect") /\ UNCHANGED <<list, last, used, truncated, gap, timer>>
        /\ fsm' = transition(fsm, "connect")
    BY <1>0, <1>1 DEF OnConnect, Dispatched
  <2>2. fsm = "DISCONNECTED" /\ gap.at = "idle" /\ ~timer
    BY <1>0, <2>1, FrameTells DEF Untouched
  <2>3. fsm' = "RECONNECTING"
    BY <1>0, <2>1, <2>2, CatchesUp
  <2>4. FetchRuns /\ last' # None /\ gap'.at = "idle" /\ ~timer'
    BY <1>0, <2>1, <2>2 DEF FetchRuns
  <2> QED BY <2>1, <2>2, <2>3, <2>4, ControlFrame
<1>2. CASE OnReplayComplete
  <2>1. Frame("complete") /\ UNCHANGED <<list, last, used, truncated, gap, timer>>
        /\ fsm' = transition(fsm, "replayComplete")
    BY <1>0, <1>2 DEF OnReplayComplete, Dispatched
  <2>2. fsm # "DISCONNECTED"
    BY <1>0, <2>1, FrameTells
  <2>3. /\ fsm' # "DISCONNECTED"
        /\ fsm \in {"GAP_FETCHING", "SYNC_FAILED"} => fsm' \in {"GAP_FETCHING", "SYNC_FAILED"}
    BY <1>0, <2>1, <2>2, CatchesUp
  <2>4. FetchRuns /\ last' # None
    BY <1>0, <2>1 DEF FetchRuns
  <2> QED BY <2>1, <2>3, <2>4, ControlFrame
<1>3. CASE OnChannelJoined
  <2>1. Frame("joined") /\ UNCHANGED <<list, used, fsm, truncated, gap, timer>>
        /\ last' = IF Head(wire).seq = Sentinel THEN last ELSE Head(wire).seq
    BY <1>3 DEF OnChannelJoined, sync
  <2>2. fsm # "DISCONNECTED"
    BY <1>0, <2>1, FrameTells
  <2>3. last' # None
    <3>1. Head(wire) \in Frames /\ Head(wire).t = "joined"
      BY <1>0, <2>1, FrameTaken, FrameTells DEF Frame, WireKnown
    <3>2. Head(wire).seq \in Int
      BY <3>1 DEF Frames
    <3>3. None \notin Int
      BY ChannelStreamAssumption DEF ChannelStreamAssumption
    <3> QED BY <1>0, <2>1, <3>2, <3>3
  <2>4. FetchRuns
    BY <2>1 DEF FetchRuns
  <2> QED BY <2>1, <2>2, <2>3, <2>4, ControlFrame
<1>4. CASE OnReplayTruncated
  <2>1. Frame("truncated") /\ UNCHANGED <<list, last, used>> /\ EnterGapFetch("gapNeeded")
    BY <1>4 DEF OnReplayTruncated
  <2>2. fsm # "DISCONNECTED"
    BY <1>0, <2>1, FrameTells
  <2>3. fsm' = transition(fsm, "gapNeeded") /\ truncated' = truncated /\ FetchRuns
    BY <2>1, EnterFetches
  <2>4. fsm' # "DISCONNECTED" /\ fsm' \in {"GAP_FETCHING", "SYNC_FAILED"}
    BY <1>0, <2>2, <2>3, CatchesUp
  <2> QED BY <1>0, <2>1, <2>3, <2>4, ControlFrame
<1> QED BY <1>1, <1>2, <1>3, <1>4

\* An event reaches the page: its row is in the list, whatever its seq says.
LEMMA EventStep ==
  ASSUME Calm, DrivenIInv, IdsKnown, PageInv, OnChannelEvent
  PROVE  WireKnown' /\ PageInv'
<1> USE DEF PageInv
<1>0. fsm \in States /\ last # None /\ WireKnown /\ Frame("event")
  BY DEF DrivenIInv, FetchTypes, ListKept, IdsKnown, OnChannelEvent
<1>1. UNCHANGED <<db, done, fan, handshake, conn, sent, buffered, bounds>>
  BY <1>0 DEF Frame, stored
<1> PICK id : id = Head(wire).id
  OBVIOUS
<1>2. /\ WireKnown' /\ Arriving \subseteq Arriving' \cup {id} /\ id \in 1..db
      /\ (\E f \in Wired : f.t = "truncated") => \E f \in Wired' : f.t = "truncated"
  BY <1>0, FrameArrives
<1>3. cache' = cache \cup {id} /\ UNCHANGED <<cursor, loading, used>>
  BY DEF OnChannelEvent, WithRow, ListKept
<1>4. /\ truncated' = truncated /\ FetchRuns
      /\ UNCHANGED <<fsm, gap, timer>> \/ fsm' = transition(fsm, "seqHole")
      /\ fsm = "DISCONNECTED" => UNCHANGED <<fsm, gap, timer>>
  <2>1. CASE UNCHANGED <<truncated, fsm, gap, timer>>
    BY <2>1 DEF FetchRuns
  <2>2. CASE EnterGapFetch("seqHole")
    BY <2>2, EnterFetches
  <2> QED BY <2>1, <2>2 DEF OnChannelEvent, sync
<1>5. last' # None
  <2>1. Head(wire) \in Frames /\ Head(wire).t = "event"
    BY <1>0, FrameTaken, FrameTells DEF Frame, WireKnown
  <2>2. Head(wire).seq \in Int
    BY <2>1 DEF Frames
  <2>3. None \notin Int
    BY ChannelStreamAssumption DEF ChannelStreamAssumption
  <2>4. observe(Head(wire).seq).last \in {last, Head(wire).seq}
    BY DEF observe
  <2>5. last' \in {last, Head(wire).seq}
    BY <2>4 DEF OnChannelEvent
  <2> QED BY <1>0, <2>2, <2>3, <2>5
<1>6. ListKept'
  <2>1. db \in Nat /\ db <= Loaded + NMsgs
    BY DEF DrivenIInv, FetchTypes, ListKept
  <2>2. cache' \subseteq 1..db
    BY <1>2, <1>3 DEF ListKept
  <2>3. cache' # None
    BY <2>1, <2>2, NoneIsNoList
  <2> QED BY <1>1, <1>3, <1>5, <2>2, <2>3 DEF ListKept
<1>7. NothingLost' /\ SentArrives'
  BY <1>1, <1>2, <1>3 DEF NothingLost, SentArrives
<1>8. FetchCovers'
  BY <1>1, <1>3, <1>4, FetchStillCovers
<1>9. FramesInOrder'
  <2>1. bounds.disconnect = 0 => Untouched'
    BY <1>4 DEF FramesInOrder, FirstLife, Untouched
  <2>2. bounds.disconnect # 0 => fsm' # "DISCONNECTED"
    <3>1. bounds.disconnect # 0 => fsm # "DISCONNECTED"
      BY <1>0, FrameTells
    <3> QED BY <1>0, <1>4, <3>1, CatchesUp
  <2> QED BY <1>0, <2>1, <2>2, FrameInOrder
<1>10. GapOwed'
  <2>1. fsm \in {"GAP_FETCHING", "SYNC_FAILED"} => fsm' \in {"GAP_FETCHING", "SYNC_FAILED"}
    BY <1>0, <1>4, CatchesUp
  <2>2. Caught => Caught'
    BY <1>1, <1>3 DEF Caught
  <2> QED BY <1>1, <1>2, <1>4, <2>1, <2>2 DEF GapOwed
<1> QED BY <1>2, <1>6, <1>7, <1>8, <1>9, <1>10

\* The first connection breaks.
LEMMA DisconnectStep ==
  ASSUME Calm, ReplayInv, DrivenIInv, IdsKnown, PageInv, OnDisconnect
  PROVE  IdsKnown' /\ PageInv'
<1> USE DEF PageInv
<1>1. /\ UNCHANGED <<db, done, stream, fan, handshake, buffered, list, last, used>>
      /\ conn' = "off" /\ wire' = <<>> /\ sent' = {} /\ read' = Nothing
      /\ UNCHANGED <<truncated, gap, timer>> /\ fsm' = transition(fsm, "disconnect")
      /\ Use("disconnect")
  BY DEF OnDisconnect, Drop, Dispatched, stored, ListKept
<1>2. bounds.disconnect = 0 /\ bounds'.disconnect # 0 /\ bounds'.lost = bounds.lost
  BY <1>1, CalmUses DEF ReplayInv, ReplayType
<1>3. Untouched
  BY <1>2 DEF FramesInOrder, FirstLife
<1>4. fsm' = "DISCONNECTED" /\ Untouched'
  <2>1. fsm' = "DISCONNECTED"
    BY <1>1, CatchesUp DEF DrivenIInv, FetchTypes
  <2> QED BY <1>1, <1>3, <2>1 DEF Untouched
<1>5. Wired' = {} /\ Arriving' = {} /\ Len(wire') = 0 /\ ~FrontIs("connect")'
  BY <1>1 DEF Wired, Arriving, FrontIs
<1>6. IdsKnown'
  <2>1. BufferKnown' /\ FansKnown' /\ done' \subseteq 1..db'
    BY <1>1 DEF IdsKnown, BufferKnown, FansKnown
  <2>2. ReadKnown'
    BY <1>1 DEF ReadKnown, Nothing
  <2>3. WireKnown'
    BY <1>1, <1>5 DEF WireKnown
  <2> QED BY <2>1, <2>2, <2>3 DEF IdsKnown
<1>7. ListKept' /\ NothingLost'
  BY <1>1, <1>2 DEF ListKept, NothingLost, list
<1>8. SentArrives' /\ FetchCovers' /\ GapOwed'
  <2>1. gap'.at = "idle"
    BY <1>4 DEF Untouched
  <2> QED BY <1>1, <2>1 DEF SentArrives, FetchCovers, GapOwed
<1>9. FramesInOrder'
  <2>1. FirstFrame' /\ RoomFrames'
    BY <1>5 DEF FirstFrame, RoomFrames
  <2>2. FirstLife' /\ NextLife' /\ BusyInRoom'
    BY <1>1, <1>2, <1>4 DEF FirstLife, NextLife, BusyInRoom, Untouched, Down
  <2> QED BY <2>1, <2>2 DEF FramesInOrder
<1> QED BY <1>6, <1>7, <1>8, <1>9

\* The page does not try to connect any more: what it needs a connection for is
\* owed no longer.
LEMMA AbandonStep ==
  ASSUME DrivenIInv, IdsKnown, PageInv, Abandon
  PROVE  IdsKnown' /\ PageInv'
<1> USE DEF PageInv
<1>1. /\ conn = "off" /\ conn' = "lost" /\ UNCHANGED clientVars
      /\ UNCHANGED <<db, done, stream, fan, handshake, read, wire, sent, buffered, bounds>>
  BY DEF Abandon, stored
<1>2. Wired' = Wired /\ Arriving' = Arriving
  BY <1>1 DEF Wired, Arriving
<1>3. IdsKnown'
  BY <1>1, <1>2 DEF IdsKnown, BufferKnown, FansKnown, ReadKnown, WireKnown
<1>4. /\ \A r \in Replicas : fan'[r].at = "emit" => fan'[r].kept
      /\ 1..db \subseteq 1..db' /\ db' <= Loaded + NMsgs
  BY <1>1 DEF NothingLost, ListKept
<1>5. /\ conn' \in Down <=> conn \in Down
      /\ conn \in InRoom => conn' \in InRoom
      /\ conn' = "ready" <=> conn = "ready"
  BY <1>1 DEF Down, InRoom
<1>6. bounds'.disconnect = bounds.disconnect /\ bounds'.lost = bounds.lost
  BY <1>1
<1>7. PageInv'
  BY <1>1, <1>4, <1>5, <1>6, QuietPage
<1> QED BY <1>3, <1>7

-----------------------------------------------------------------------------
\* A step of the fetch, as far as it leaves the stream alone.
LEMMA FetchPage ==
  ASSUME DrivenIInv, IdsKnown, PageInv, UNCHANGED serverVars, UNCHANGED <<cursor, loading, last>>,
         gap.at # "idle" \/ timer, fsm' # "DISCONNECTED",
         used' \in [http : Int, evict : {0}],
         cache \subseteq cache', cache' \subseteq 1..db, FetchCovers', GapOwed'
  PROVE  IdsKnown' /\ PageInv'
<1> USE DEF PageInv
<1>1. UNCHANGED <<db, done, stream, fan, handshake, conn, read, wire, sent, buffered, bounds>>
  BY DEF serverVars, stored, socket
<1>2. Wired' = Wired /\ Arriving' = Arriving
  BY <1>1 DEF Wired, Arriving
<1>3. IdsKnown'
  BY <1>1, <1>2 DEF IdsKnown, BufferKnown, FansKnown, ReadKnown, WireKnown
<1>4. ListKept'
  <2>1. db \in Nat /\ db <= Loaded + NMsgs
    BY DEF DrivenIInv, FetchTypes, ListKept
  <2>2. cache' # None
    BY <2>1, NoneIsNoList
  <2> QED BY <1>1, <2>2 DEF ListKept
<1>5. NothingLost' /\ SentArrives'
  BY <1>1, <1>2 DEF NothingLost, SentArrives
<1>6. FramesInOrder'
  BY FetchInOrder
<1> QED BY <1>3, <1>4, <1>5, <1>6

\* A page arrives: the last one reaches the end of the table.
LEMMA PageStep ==
  ASSUME DrivenIInv, IdsKnown, PageInv, GapPage
  PROVE  IdsKnown' /\ PageInv'
<1> USE DEF PageInv
<1> PICK g \in Fetches : g = gap /\ g.at = "fetch"
  BY DEF DrivenIInv, FetchTypes, GapPage
<1> PICK rows : rows = Page
  OBVIOUS
<1>m. (g.after + PageLimit < db) \in BOOLEAN
  OBVIOUS
<1> PICK more \in BOOLEAN : more = (g.after + PageLimit < db)
  BY <1>m
<1> PICK stop \in BOOLEAN : stop = (g.pages + 1 = MaxPages)
  OBVIOUS
<1>1. gap' = [g EXCEPT !.got = g.got \cup rows, !.pages = g.pages + 1,
                       !.after = IF more THEN g.after + PageLimit ELSE g.after,
                       !.over = more /\ stop,
                       !.at = IF more /\ ~stop THEN "fetch" ELSE "ok"]
  BY DEF GapPage
<1>2. gap' = [at |-> IF more /\ ~stop THEN "fetch" ELSE "ok",
              after |-> IF more THEN g.after + PageLimit ELSE g.after,
              got |-> g.got \cup rows, pages |-> g.pages + 1, over |-> more /\ stop,
              waiters |-> g.waiters]
  BY <1>1 DEF Fetches
<1>3. /\ gap'.got = g.got \cup rows
      /\ gap'.at = IF more /\ ~stop THEN "fetch" ELSE "ok"
      /\ gap'.after = IF more THEN g.after + PageLimit ELSE g.after
      /\ gap'.over = (more /\ stop)
  BY <1>2
<1>4. /\ UNCHANGED serverVars /\ UNCHANGED <<cache, cursor, loading, last, used, fsm, truncated>>
      /\ UNCHANGED <<db, done, conn, wire, sent>>
  BY DEF GapPage, serverVars, stored, socket, list
<1>5. g.after \in Nat /\ PageLimit \in Nat /\ db \in Nat
  BY SyncConstants DEF Fetches, DrivenIInv, FetchTypes
<1>6. rows = {m \in 1..db : g.after < m /\ m <= g.after + PageLimit}
  BY DEF Page
<1>7. 1..g.after \subseteq cache \cup g.got /\ g.got \subseteq 1..db
  BY DEF FetchCovers
<1>8. FetchCovers'
  <2>1. gap'.got \subseteq 1..db'
    BY <1>3, <1>4, <1>6, <1>7
  <2>2. CASE more
    <3>1. g.after + PageLimit < db
      BY <2>2
    <3>2. ASSUME NEW m \in 1..(g.after + PageLimit)
          PROVE  m \in cache \cup (g.got \cup rows)
      <4>1. CASE m <= g.after
        <5>1. m \in 1..g.after
          BY <1>5, <4>1
        <5> QED BY <1>7, <5>1
      <4>2. CASE ~(m <= g.after)
        <5>1. m \in 1..db /\ g.after < m /\ m <= g.after + PageLimit
          BY <1>5, <3>1, <4>2
        <5> QED BY <1>6, <5>1
      <4> QED BY <4>1, <4>2
    <3>3. gap'.after = g.after + PageLimit /\ gap'.over = stop
          /\ gap'.at = IF stop THEN "ok" ELSE "fetch"
      BY <1>3, <2>2
    <3>4. gap'.at = "fetch" => 1..gap'.after \subseteq cache' \cup gap'.got
      BY <1>3, <1>4, <3>2, <3>3
    <3>5. gap'.at = "ok" => gap'.over
      BY <3>3
    <3> QED BY <2>1, <3>4, <3>5 DEF FetchCovers
  <2>3. CASE ~more
    <3>1. ~(g.after + PageLimit < db)
      BY <2>3
    <3>2. ASSUME NEW m \in 1..db
          PROVE  m \in cache \cup (g.got \cup rows)
      <4>1. CASE m <= g.after
        <5>1. m \in 1..g.after
          BY <1>5, <4>1
        <5> QED BY <1>7, <5>1
      <4>2. CASE ~(m <= g.after)
        <5>1. g.after < m /\ m <= g.after + PageLimit
          BY <1>5, <3>1, <4>2
        <5> QED BY <1>6, <5>1
      <4> QED BY <4>1, <4>2
    <3>3. done \subseteq 1..db
      BY DEF IdsKnown
    <3>4. done' \subseteq cache' \cup sent' \cup gap'.got
      BY <1>3, <1>4, <3>2, <3>3
    <3>5. gap'.at = "ok"
      BY <1>3, <2>3
    <3> QED BY <2>1, <3>4, <3>5 DEF FetchCovers
  <2> QED BY <2>2, <2>3
<1>9. GapOwed'
  <2>1. Wired' = Wired
    BY <1>4 DEF Wired
  <2> QED BY <1>4, <2>1 DEF GapOwed, Caught
<1>10. fsm' # "DISCONNECTED"
  BY <1>4, BusyPage
<1> QED BY <1>4, <1>8, <1>9, <1>10, FetchPage DEF ListKept

\* The fetch ends, and its pages join the list: what it had left out is reported.
LEMMA SettleStep ==
  ASSUME DrivenIInv, IdsKnown, PageInv, GapSettles
  PROVE  IdsKnown' /\ PageInv'
<1> USE DEF PageInv
<1>1. /\ gap.at = "ok" /\ gap'.at = "idle" /\ gap'.got = {}
      /\ UNCHANGED serverVars /\ UNCHANGED <<cursor, loading, last, used, timer>>
      /\ cache' = cache \cup gap.got /\ fsm' = transition(fsm, "synced")
      /\ truncated' = (truncated \/ gap.over \/ pend.over)
  BY DEF GapSettles, mergeGapMessages, ListKept, NoGap
<1>2. UNCHANGED <<db, done, conn, wire, sent>>
  BY <1>1 DEF serverVars, stored, socket
<1>3. cache \subseteq cache' /\ cache' \subseteq 1..db
  BY <1>1 DEF ListKept, FetchCovers
<1>4. FetchCovers'
  BY <1>1 DEF FetchCovers
<1>5. GapOwed'
  <2>1. CASE gap.over
    BY <1>1, <2>1 DEF GapOwed
  <2>2. CASE ~gap.over
    <3>1. done \subseteq cache \cup sent \cup gap.got
      BY <1>1, <2>2 DEF FetchCovers
    <3>2. Caught'
      BY <1>1, <1>2, <3>1 DEF Caught
    <3> QED BY <3>2 DEF GapOwed
  <2> QED BY <2>1, <2>2
<1>6. fsm' # "DISCONNECTED"
  <2>1. fsm # "DISCONNECTED"
    BY <1>1, BusyPage
  <2> QED BY <1>1, <2>1, CatchesUp DEF DrivenIInv, FetchTypes
<1> QED BY <1>1, <1>3, <1>4, <1>5, <1>6, FetchPage DEF ListKept

\* A request fails: the page goes on fetching, or gives up and says so.
LEMMA FailStep ==
  ASSUME DrivenIInv, IdsKnown, PageInv, GapFails
  PROVE  IdsKnown' /\ PageInv'
<1> USE DEF PageInv
<1>1. /\ gap.at = "fetch" /\ gap'.at = "idle" /\ gap'.got = {}
      /\ UNCHANGED serverVars /\ UNCHANGED <<cache, cursor, loading, last, truncated>>
      /\ fsm' = fsm \/ fsm' = transition(fsm, "failed")
      /\ used' = [used EXCEPT !.http = @ + 1]
  BY DEF GapFails, NoGap, list
<1>2. UNCHANGED <<db, done, conn, wire, sent>>
  BY <1>1 DEF serverVars, stored, socket
<1>3. FetchCovers'
  BY <1>1 DEF FetchCovers
<1>4. fsm # "DISCONNECTED" /\ fsm \in States
  BY <1>1, BusyPage DEF DrivenIInv, FetchTypes
<1>5. /\ fsm' # "DISCONNECTED"
      /\ fsm \in {"GAP_FETCHING", "SYNC_FAILED"} => fsm' \in {"GAP_FETCHING", "SYNC_FAILED"}
  BY <1>1, <1>4, CatchesUp
<1>6. GapOwed'
  <2>1. Wired' = Wired
    BY <1>2 DEF Wired
  <2> QED BY <1>1, <1>2, <1>5, <2>1 DEF GapOwed, Caught
<1>7. used' \in [http : Int, evict : {0}]
  <2> PICK u \in [http : Int, evict : {0}] : u = used
    BY DEF ListKept
  <2>1. used' = [u EXCEPT !.http = u.http + 1]
    BY <1>1
  <2>2. u.http + 1 \in Int
    OBVIOUS
  <2> QED BY <2>1, <2>2
<1> QED BY <1>1, <1>3, <1>5, <1>6, <1>7, FetchPage DEF ListKept

\* The retry timer fires.
LEMMA RetryStep ==
  ASSUME Calm, DrivenIInv, IdsKnown, PageInv, RetryFires
  PROVE  IdsKnown' /\ PageInv'
<1> USE DEF PageInv
<1>1. /\ timer /\ UNCHANGED serverVars /\ UNCHANGED <<cache, cursor, loading, last, used>>
      /\ RunSync(fsm, attempt)
  BY DEF RetryFires, list
<1>2. fsm' = fsm /\ truncated' = truncated /\ FetchRuns
  BY <1>1, RunSyncFetches
<1>3. UNCHANGED <<db, done, conn, wire, sent>>
  BY <1>1 DEF serverVars, stored, socket
<1>4. FetchCovers'
  BY <1>1, <1>2, <1>3, FetchStillCovers
<1>5. fsm' # "DISCONNECTED"
  BY <1>1, <1>2, BusyPage
<1>6. GapOwed'
  <2>1. Wired' = Wired
    BY <1>3 DEF Wired
  <2> QED BY <1>1, <1>2, <1>3, <2>1 DEF GapOwed, Caught
<1> QED BY <1>1, <1>4, <1>5, <1>6, FetchPage DEF ListKept

\* Every step of server and page keeps the invariant.
LEMMA GapStep == Calm /\ GapIInv /\ [Next]_allVars => GapIInv'
<1> SUFFICES ASSUME Calm, GapIInv, [Next]_allVars PROVE GapIInv'
  OBVIOUS
<1> USE DEF GapIInv
<1>1. ReplayInv' /\ DrivenIInv'
  BY ReplayKept, DrivenStep
<1>2. CASE ServerNext /\ UNCHANGED clientVars
  BY <1>1, <1>2, ServerStep
<1>3. ASSUME WireKnown', PageInv', NEW t, Frame(t) PROVE GapIInv'
  <2>1. BufferKnown' /\ FansKnown' /\ ReadKnown' /\ done' \subseteq 1..db'
    BY <1>3 DEF Frame, stored, IdsKnown, BufferKnown, FansKnown, ReadKnown
  <2> QED BY <1>1, <1>3, <2>1 DEF IdsKnown
<1>4. CASE OnConnect \/ OnReplayComplete \/ OnChannelJoined \/ OnReplayTruncated
  <2>1. WireKnown' /\ PageInv'
    BY <1>4, ControlStep
  <2>2. Frame("connect") \/ Frame("complete") \/ Frame("joined") \/ Frame("truncated")
    BY <1>4 DEF OnConnect, OnReplayComplete, OnChannelJoined, OnReplayTruncated
  <2> QED BY <1>3, <2>1, <2>2
<1>5. CASE OnChannelEvent
  <2>1. WireKnown' /\ PageInv' /\ Frame("event")
    BY <1>5, EventStep DEF OnChannelEvent
  <2> QED BY <1>3, <2>1
<1>6. CASE OnDisconnect \/ Abandon
  BY <1>1, <1>6, DisconnectStep, AbandonStep
<1>7. CASE GapPage \/ GapSettles \/ GapFails \/ RetryFires
  BY <1>1, <1>7, PageStep, SettleStep, FailStep, RetryStep
<1>8. ~Evict /\ ~LoadList /\ ~ListLoaded
  <2>1. cache # None /\ loading = None /\ used.evict = 0 /\ MaxEvicts = 0
    BY DEF PageInv, ListKept, Calm
  <2> QED BY <2>1 DEF Evict, LoadList, ListLoaded
<1>9. CASE UNCHANGED allVars
  <2>1. IdsKnown'
    BY <1>9 DEF allVars, serverVars, stored, socket, IdsKnown, BufferKnown, FansKnown, ReadKnown,
                WireKnown, Arriving, Wired
  <2>2. PageInv'
    <3>1. UNCHANGED clientVars /\ UNCHANGED <<wire, sent, buffered, handshake, done>>
          /\ UNCHANGED <<db, fan, bounds, conn>>
      BY <1>9 DEF allVars, serverVars, stored, socket
    <3>2. /\ 1..db \subseteq 1..db' /\ db' <= Loaded + NMsgs
          /\ \A r \in Replicas : fan'[r].at = "emit" => fan'[r].kept
      BY <3>1 DEF PageInv, ListKept, NothingLost
    <3> QED BY <3>1, <3>2, QuietPage
  <2> QED BY <1>1, <2>1, <2>2
<1> QED BY <1>2, <1>4, <1>5, <1>6, <1>7, <1>8, <1>9 DEF Next, ClientNext, Receive, Fetch, Load

\* A page at rest shows every message, unless it says that it does not, for any
\* number of replicas, fan-outs, crashes, failed INCRs and failed requests, any
\* size of the replay buffer and any limits of the fetch (handleConnection,
\* emitAndBuffer and installChannelSync).
THEOREM NoGapIsSilent == ASSUME Calm PROVE Spec => []NoSilentGap
<1>1. SyncInit => GapIInv
  BY GapInit
<1>2. GapIInv /\ [Next]_allVars => GapIInv'
  BY GapStep
<1>3. GapIInv => NoSilentGap
  <2> SUFFICES ASSUME GapIInv, Settled, ~Reported PROVE cache = 1..db
    BY DEF NoSilentGap
  <2>1. fsm \notin {"GAP_FETCHING", "SYNC_FAILED"} /\ ~truncated
    BY DEF Settled, Reported, GapIInv, DrivenIInv, GapFetchingIsDriven
  <2>2. Wired = {} /\ Arriving = {}
    BY DEF Settled, Wired, Arriving
  <2>3. Caught
    BY <2>1, <2>2 DEF Settled, GapIInv, PageInv, GapOwed
  <2>4. sent \subseteq cache
    BY <2>2 DEF GapIInv, PageInv, SentArrives
  <2> QED BY <2>3, <2>4 DEF Settled, Caught, GapIInv, PageInv, ListKept
<1> QED BY <1>1, <1>2, <1>3, PTL DEF Spec

-----------------------------------------------------------------------------
(* The types of stream and page. *)

\* The seqs that INCR has given out, and the sentinel of a failed one.
Seqs == {Sentinel} \cup 1..counter

\* Nobody knows of a message or a seq that is not there yet.
Known(f) == /\ f.t = "event" => f.id \in 1..db /\ f.seq \in Seqs
            /\ f.t = "joined" => f.seq \in {0} \cup Seqs
StreamKnown == \A i \in 1..Len(stream) : stream[i].id \in 1..db /\ stream[i].seq \in Seqs
HeldKnown ==
  \A r \in Replicas :
    /\ fan[r].at # "idle" => fan[r].id \in 1..db
    /\ fan[r].at \in {"append", "emit"} => fan[r].seq \in Seqs
ReplayKnown ==
  /\ read \in [seq : {0} \cup Seqs, cut : BOOLEAN, events : Seq(Entry)]
  /\ \A i \in 1..Len(read.events) : read.events[i].id \in 1..db /\ read.events[i].seq \in Seqs
FramesKnown == wire \in Seq(Frames) /\ \A f \in Wired : Known(f)
AllKnown == StreamKnown /\ HeldKnown /\ ReplayKnown /\ FramesKnown

\* The rest of the server's types.
ServerKeeps ==
  /\ db \in 0..NMsgs /\ started \in [Msgs -> 0..Budget] /\ done \subseteq 1..db
  /\ handshake \in Handshakes /\ conn \in ConnPhases /\ (conn \in Down => wire = <<>>)
  /\ sent \subseteq 1..db
  /\ bounds \in [DOMAIN FaultLimit -> Nat]
  /\ \A k \in DOMAIN FaultLimit : bounds[k] <= FaultLimit[k]

\* The limits of the constants.
LEMMA Limits ==
  /\ NMsgs \in Nat /\ Loaded \in Nat /\ Loaded <= NMsgs /\ Budget \in Nat /\ Budget > 0
  /\ \A k \in DOMAIN FaultLimit : FaultLimit[k] \in Nat
  /\ DOMAIN FaultLimit = {"crash", "seq", "append", "handler", "lost", "disconnect"}
BY ChannelStreamAssumption DEF ChannelStreamAssumption, FaultLimit

\* What is done to the stream that the server does not do itself: the page takes a
\* frame, the sink that reads alone takes all, the connection breaks or is given up.
Reads ==
  \/ \E t \in {"connect", "joined", "complete", "truncated", "event"} : Frame(t)
  \/ Sink \/ Drop \/ Abandon \/ UNCHANGED serverVars

\* They leave the server alone and only take frames off the wire.
LEMMA ReadsMove ==
  ASSUME Reads
  PROVE  /\ UNCHANGED <<db, started, done, counter, stream, fan, handshake>>
         /\ UNCHANGED bounds \/ Use("disconnect")
         /\ sent' = sent \/ sent' = {}
         /\ UNCHANGED read \/ read' = Nothing
         /\ UNCHANGED conn \/ wire' = <<>> \/ (conn \in Down /\ wire' = wire)
         /\ UNCHANGED conn \/ conn' \in Down
         /\ UNCHANGED wire \/ wire' = <<>> \/ (wire # <<>> /\ wire' = Tail(wire))
<1>1. CASE \E t \in {"connect", "joined", "complete", "truncated", "event"} : Frame(t)
  BY <1>1 DEF Frame, stored
<1>2. CASE Sink
  BY <1>2 DEF Sink, stored
<1>3. CASE Drop \/ Abandon
  BY <1>3 DEF Drop, Abandon, Down, stored
<1>4. CASE UNCHANGED serverVars
  BY <1>4 DEF serverVars, stored, socket
<1> QED BY <1>1, <1>2, <1>3, <1>4 DEF Reads

LEMMA PageReads == ASSUME [Next]_allVars PROVE ServerNext \/ Reads
BY ClientMoves DEF Next, Reads, allVars

\* Messages and seqs only become more.
LEMMA MoreKnown ==
  ASSUME SeqInv, db \in Nat, ServerNext \/ Reads
  PROVE  /\ db' \in Nat /\ db <= db' /\ 1..db \subseteq 1..db'
         /\ counter' \in Nat /\ counter <= counter' /\ Seqs \subseteq Seqs'
         /\ db' = db \/ (db < NMsgs /\ db' = db + 1)
<1>1. db' = db \/ (db < NMsgs /\ db' = db + 1)
  <2>1. CASE ServerNext
    BY <2>1 DEF ServerNext, Commit, FanStep, FanStart, FanSeq, FanAppend, FanEmit, FanDone,
       FanEmitLost, FanCrash, HandleConnection, Connect, Join, ReadBaseline, SendBaseline,
       ReadReplay, SendReplay, stored
  <2> QED BY <2>1, ReadsMove
<1>2. counter' = counter \/ counter' = counter + 1
  <2>1. CASE ServerNext
    BY <2>1 DEF ServerNext, Commit, FanStep, FanStart, FanSeq, FanAppend, FanEmit, FanDone,
       FanEmitLost, FanCrash, HandleConnection, Connect, Join, ReadBaseline, SendBaseline,
       ReadReplay, SendReplay, stored
  <2> QED BY <2>1, ReadsMove
<1>3. counter \in Nat
  BY DEF SeqInv, SeqType
<1>4. db' \in Nat /\ db <= db' /\ counter' \in Nat /\ counter <= counter'
  BY <1>1, <1>2, <1>3
<1>5. 1..db \subseteq 1..db' /\ 1..counter \subseteq 1..counter'
  BY <1>3, <1>4
<1>6. Seqs \subseteq Seqs'
  BY <1>5 DEF Seqs
<1> QED BY <1>1, <1>4, <1>5, <1>6

\* What a fan-out holds is a message and a seq of the channel.
LEMMA HeldStep ==
  ASSUME SeqInv, AllKnown, ServerNext, 1..db \subseteq 1..db', Seqs \subseteq Seqs'
  PROVE  HeldKnown'
<1> USE DEF AllKnown
<1>0. [ServerNext \/ Sink \/ Drop]_serverVars
  OBVIOUS
<1>1. CASE UNCHANGED fan
  BY <1>1 DEF HeldKnown
<1>2. ASSUME NEW r \in Replicas,
             \/ \E m \in Msgs : FanStart(r, m)
             \/ FanSeq(r) \/ FanAppend(r) \/ FanEmit(r) \/ FanEmitLost(r) \/ FanCrash(r)
      PROVE  HeldKnown'
  <2>1. ASSUME NEW q \in Replicas \ {r} PROVE fan'[q] = fan[q]
    BY <1>2, FanMoves DEF FanEmit, FanEmitLost
  <2>2. fan[r] \in Fan /\ fan \in [Replicas -> Fan] /\ counter \in Nat
    BY DEF SeqInv, SeqType
  <2>3. /\ fan'[r].at # "idle" => fan'[r].id \in 1..db
        /\ fan'[r].at \in {"append", "emit"} => fan'[r].seq \in Seqs'
    <3>1. CASE \E m \in Msgs : FanStart(r, m)
      <4>1. PICK m \in Msgs : FanStart(r, m)
        BY <3>1
      <4> QED BY <4>1, FanMoves DEF FanStart
    <3>2. CASE FanSeq(r)
      <4>1. fan'[r].at = "append" /\ fan'[r].id = fan[r].id /\ fan[r].at = "seq"
        BY <3>2, FanMoves DEF FanSeq
      <4>2. CASE counter' = counter + 1 /\ fan' = [fan EXCEPT ![r].at = "append", ![r].seq = counter']
        <5>1. fan'[r].seq = counter'
          BY <2>2, <4>2 DEF Fan
        <5>2. counter' \in 1..counter'
          BY <2>2, <4>2
        <5> QED BY <4>1, <5>1, <5>2 DEF HeldKnown, Seqs
      <4>3. CASE fan' = [fan EXCEPT ![r].at = "append", ![r].seq = Sentinel]
        <5>1. fan'[r].seq = Sentinel
          BY <2>2, <4>3 DEF Fan
        <5> QED BY <4>1, <5>1 DEF HeldKnown, Seqs
      <4> QED BY <3>2, <4>2, <4>3 DEF FanSeq
    <3>3. CASE FanAppend(r)
      <4>1. fan[r].at = "append" /\ fan'[r].id = fan[r].id
        BY <3>3, FanMoves DEF FanAppend
      <4>2. fan'[r].seq = fan[r].seq
        BY <2>2, <3>3 DEF FanAppend, Fan
      <4> QED BY <4>1, <4>2 DEF HeldKnown
    <3>4. CASE FanEmit(r) \/ FanEmitLost(r) \/ FanCrash(r)
      <4>1. fan'[r].at = "idle"
        BY <3>4, FanMoves DEF FanEmit, FanEmitLost
      <4> QED BY <4>1
    <3> QED BY <1>2, <3>1, <3>2, <3>3, <3>4
  <2> QED BY <2>1, <2>3 DEF HeldKnown
<1> QED BY <1>0, <1>1, <1>2, FanActions

\* What is appended to the buffer is what the fan-out holds.
LEMMA BufferStep ==
  ASSUME SeqInv, AllKnown, ServerNext, 1..db \subseteq 1..db', Seqs \subseteq Seqs'
  PROVE  StreamKnown'
<1> USE DEF AllKnown
<1>1. CASE stream' = stream
  BY <1>1 DEF StreamKnown
<1>2. ASSUME NEW r \in Replicas, FanAppend(r), stream' \in Longer(r) PROVE StreamKnown'
  <2> DEFINE e == [id |-> fan[r].id, seq |-> fan[r].seq]
  <2>1. e \in Entry /\ stream \in Seq(Entry) /\ e.id = fan[r].id /\ e.seq = fan[r].seq
    BY DEF SeqInv, SeqType, Fan, Entry
  <2>2. e.id \in 1..db /\ e.seq \in Seqs
    BY <1>2, <2>1 DEF HeldKnown, FanAppend
  <2>3. stream' \in Trimmed(Append(stream, e))
    BY <1>2 DEF Longer
  <2> HIDE DEF e
  <2>4. PICK k \in Nat :
          /\ Len(stream') + k = Len(stream) + 1
          /\ \A i \in 1..Len(stream') :
               stream'[i] = IF i + k = Len(stream) + 1 THEN e ELSE stream[i + k]
    BY <2>1, <2>3, TrimmedIsSuffix
  <2>5. ASSUME NEW i \in 1..Len(stream') PROVE stream'[i].id \in 1..db /\ stream'[i].seq \in Seqs
    <3>1. Len(stream) \in Nat /\ Len(stream') \in Nat
      BY <2>1, <2>3, TrimmedIsSuffix
    <3>2. i + k = Len(stream) + 1 \/ i + k \in 1..Len(stream)
      BY <2>4, <3>1
    <3> QED BY <2>2, <2>4, <3>2 DEF StreamKnown
  <2> QED BY <2>5 DEF StreamKnown
<1>3. [ServerNext \/ Sink \/ Drop]_serverVars
  OBVIOUS
<1> QED BY <1>1, <1>2, <1>3, StreamFixed
\* What ids are known follows.
LEMMA AllKnowsIds ==
  ASSUME AllKnown, done \subseteq 1..db, counter \in Nat
  PROVE  IdsKnown
<1> USE DEF AllKnown
<1>1. BufferKnown
  BY DEF StreamKnown, BufferKnown
<1>2. FansKnown
  BY DEF HeldKnown, FansKnown
<1>3. Seqs \subseteq Int
  BY DEF Seqs, Sentinel
<1>4. ReadKnown
  <2>1. {0} \cup Seqs \subseteq Int
    BY <1>3
  <2> QED BY <2>1 DEF ReplayKnown, ReadKnown
<1>5. WireKnown
  BY DEF FramesKnown, WireKnown, Arriving, Known
<1> QED BY <1>1, <1>2, <1>4, <1>5 DEF IdsKnown

\* What handleConnection reads is what there is.
LEMMA ReadsAreKnown ==
  ASSUME SeqInv, AllKnown, ServerNext, 1..db \subseteq 1..db', Seqs \subseteq Seqs'
  PROVE  ReplayKnown'
<1> USE DEF AllKnown
<1>1. UNCHANGED read \/ ReadBaseline \/ SendBaseline \/ ReadReplay \/ SendReplay
  BY DEF ServerNext, FanStep, FanStart, FanSeq, FanAppend, FanDone, FanEmit,
         FanEmitLost, FanCrash, HandleConnection, Connect, Join, Commit, socket
<1>2. counter \in Nat /\ stream \in Seq(Entry)
  BY DEF SeqInv, SeqType
<1>3. CASE UNCHANGED read
  BY <1>3 DEF ReplayKnown
<1>4. CASE ReadBaseline
  <2>1. counter \in {0} \cup Seqs /\ Sentinel \in {0} \cup Seqs
    BY <1>2 DEF Seqs
  <2>2. UNCHANGED read \/ \E s \in {0} \cup Seqs : read' = [Nothing EXCEPT !.seq = s]
    BY <1>4, <2>1 DEF ReadBaseline
  <2>3. ASSUME NEW s \in {0} \cup Seqs, read' = [Nothing EXCEPT !.seq = s] PROVE ReplayKnown'
    <3>1. read' = [seq |-> s, cut |-> FALSE, events |-> <<>>] /\ s \in {0} \cup Seqs'
      BY <2>3 DEF Nothing
    <3> QED BY <3>1 DEF ReplayKnown
  <2> QED BY <1>3, <2>2, <2>3
<1>5. CASE read' = Nothing
  BY <1>5 DEF ReplayKnown, Nothing
<1>6. CASE ReadReplay
  <2>1. UNCHANGED read \/ read' = RangeAfter(handshake)
    BY <1>6 DEF ReadReplay
  <2>2. CASE read' = RangeAfter(handshake)
    <3>1. /\ read' \in [seq : Int, cut : BOOLEAN, events : Seq(Entry)]
          /\ \A x \in 1..Len(read'.events) :
               \E y \in 1..Len(stream) : read'.events[x] = stream[y]
      BY <1>2, <2>2, RangeOfBuffer
    <3>2. read'.seq = 0
      BY <2>2 DEF RangeAfter, Nothing
    <3>3. read' \in [seq : {0} \cup Seqs', cut : BOOLEAN, events : Seq(Entry)]
      BY <3>1, <3>2
    <3> QED BY <3>1, <3>3 DEF ReplayKnown, StreamKnown
  <2> QED BY <1>3, <2>1, <2>2
<1> QED BY <1>1, <1>3, <1>4, <1>5, <1>6 DEF SendBaseline, SendReplay

\* Frames of what is known are put on the wire.
LEMMA SendsAreKnown ==
  ASSUME FramesKnown, 1..db \subseteq 1..db', Seqs \subseteq Seqs',
         NEW more \in Seq(Frames), wire' = wire \o more,
         \A j \in 1..Len(more) : more[j].t # "connect" /\ Known(more[j])
  PROVE  FramesKnown'
<1>1. wire' \in Seq(Frames) /\ Wired' = Wired \cup {more[j] : j \in 1..Len(more)}
  BY FramesAdded DEF FramesKnown
<1>2. \A f : Known(f) => Known(f)'
  BY DEF Known
<1>3. ASSUME NEW f \in Wired' PROVE Known(f)'
  BY <1>1, <1>2 DEF FramesKnown
<1> QED BY <1>1, <1>3 DEF FramesKnown

\* The frames of the server.
LEMMA FramesStep ==
  ASSUME SeqInv, AllKnown, IdsKnown, ServerNext, 1..db \subseteq 1..db', Seqs \subseteq Seqs'
  PROVE  FramesKnown'
<1> USE DEF AllKnown
<1>1. CASE UNCHANGED wire
  <2>1. \A f : Known(f) => Known(f)'
    BY DEF Known
  <2>2. Wired' = Wired
    BY <1>1 DEF Wired
  <2> QED BY <1>1, <2>1, <2>2 DEF FramesKnown
<1>2. ASSUME NEW r \in Replicas, FanEmit(r), conn \in InRoom PROVE FramesKnown'
  <2> PICK f : f = Event(fan[r])
    OBVIOUS
  <2>1. fan[r].at = "emit" /\ fan[r] \in Fan
    BY <1>2 DEF FanEmit, FanDone, SeqInv, SeqType
  <2>2. f = [t |-> "event", id |-> fan[r].id, seq |-> fan[r].seq]
    BY DEF Event
  <2>3. f.t = "event" /\ f.id \in 1..db /\ f.seq \in Seqs
    BY <2>1, <2>2 DEF HeldKnown
  <2>4. f \in Frames /\ Known(f)
    <3>1. fan[r].id \in Nat /\ fan[r].seq \in Int
      BY <2>1 DEF Fan
    <3>2. f \in Frames
      BY <2>2, <3>1 DEF Frames
    <3> QED BY <2>3, <3>2 DEF Known
  <2>5. <<f>> \in Seq(Frames) /\ Len(<<f>>) = 1 /\ <<f>>[1] = f
    BY <2>4
  <2>6. wire' = wire \o <<f>>
    <3>1. wire' = Append(wire, f)
      BY <1>2 DEF FanEmit
    <3>2. wire \in Seq(Frames)
      BY DEF FramesKnown
    <3> QED BY <2>4, <3>1, <3>2
  <2>7. \A j \in 1..Len(<<f>>) : <<f>>[j].t # "connect" /\ Known(<<f>>[j])
    BY <2>3, <2>4, <2>5
  <2> QED BY <2>5, <2>6, <2>7, SendsAreKnown
<1>3. CASE Connect
  <2> PICK f : f = [t |-> "connect"]
    OBVIOUS
  <2>1. wire' = <<f>> /\ f \in Frames /\ f.t = "connect"
    BY <1>3 DEF Connect, Frames
  <2>2. wire' \in Seq(Frames) /\ Wired' = {f}
    BY <2>1 DEF Wired
  <2> QED BY <2>1, <2>2 DEF FramesKnown, Known
<1>4. CASE SendBaseline
  <2> PICK f : f = [t |-> "joined", seq |-> read.seq]
    OBVIOUS
  <2>1. f.t = "joined" /\ f.seq \in {0} \cup Seqs /\ read.seq \in Int
    BY DEF ReplayKnown, Seqs, Sentinel, SeqInv, SeqType
  <2>2. f \in Frames /\ Known(f)
    BY <2>1 DEF Frames, Known
  <2>3. <<f>> \in Seq(Frames) /\ Len(<<f>>) = 1 /\ <<f>>[1] = f
    BY <2>2
  <2>4. wire' = wire \o <<f>>
    BY <1>4 DEF SendBaseline, Send
  <2>5. \A j \in 1..Len(<<f>>) : <<f>>[j].t # "connect" /\ Known(<<f>>[j])
    BY <2>1, <2>2, <2>3
  <2> QED BY <2>3, <2>4, <2>5, SendsAreKnown
<1>5. CASE SendReplay
  <2>1. PICK more \in Seq(Frames) :
          /\ wire' = wire \o more
          /\ \A j \in 1..Len(more) :
               \/ more[j].t \in {"truncated", "complete"}
               \/ \E i \in 1..Len(read.events) : more[j] = Event(read.events[i])
    BY <1>5, ReplayFrames
  <2>2. ASSUME NEW j \in 1..Len(more) PROVE more[j].t # "connect" /\ Known(more[j])
    <3>1. CASE more[j].t \in {"truncated", "complete"}
      BY <3>1 DEF Known
    <3>2. CASE \E i \in 1..Len(read.events) : more[j] = Event(read.events[i])
      BY <3>2 DEF Known, Event, ReplayKnown
    <3> QED BY <2>1, <3>1, <3>2
  <2> QED BY <2>1, <2>2, SendsAreKnown
<1>6. \/ UNCHANGED wire \/ Connect \/ SendBaseline \/ SendReplay
      \/ \E r \in Replicas : FanEmit(r) /\ conn \in InRoom
  BY DEF ServerNext, FanStep, FanStart, FanSeq, FanAppend, FanEmit, FanEmitLost, FanCrash,
         HandleConnection, Join, ReadBaseline, ReadReplay, Commit, socket
<1> QED BY <1>1, <1>2, <1>3, <1>4, <1>5, <1>6

\* The page takes what is known.
LEMMA KnownToThePage ==
  ASSUME AllKnown, Reads
  PROVE  AllKnown'
<1> USE DEF AllKnown
<1>1. UNCHANGED stored /\ UNCHANGED fan
  BY ReadsMove DEF stored
<1>2. StreamKnown' /\ HeldKnown' /\ Seqs' = Seqs /\ \A f : Known(f)' <=> Known(f)
  BY <1>1 DEF StreamKnown, HeldKnown, stored, Seqs, Known
<1>3. ReplayKnown'
  <2>1. CASE UNCHANGED read
    BY <1>1, <1>2, <2>1 DEF ReplayKnown, stored
  <2>2. CASE read' = Nothing
    BY <2>2 DEF ReplayKnown, Nothing
  <2> QED BY <2>1, <2>2, ReadsMove
<1>4. FramesKnown'
  <2>1. CASE UNCHANGED wire
    BY <1>2, <2>1 DEF FramesKnown, Wired
  <2>2. CASE wire # <<>> /\ wire' = Tail(wire)
    <3>1. wire' \in Seq(Frames) /\ Wired' \subseteq Wired
      BY <2>2, FrameTaken DEF FramesKnown
    <3> QED BY <1>2, <3>1 DEF FramesKnown
  <2>3. CASE wire' = <<>>
    <3>1. Wired' = {} /\ wire' \in Seq(Frames)
      BY <2>3 DEF Wired
    <3> QED BY <3>1 DEF FramesKnown
  <2> QED BY <2>1, <2>2, <2>3, ReadsMove
<1> QED BY <1>2, <1>3, <1>4
\* A fault is used up to its limit.
LEMMA UseStaysBounded ==
  ASSUME bounds \in [DOMAIN FaultLimit -> Nat],
         \A k \in DOMAIN FaultLimit : bounds[k] <= FaultLimit[k],
         NEW kind \in DOMAIN FaultLimit, Use(kind)
  PROVE  /\ bounds' \in [DOMAIN FaultLimit -> Nat]
         /\ \A k \in DOMAIN FaultLimit : bounds'[k] <= FaultLimit[k]
<1>1. bounds[kind] \in Nat /\ FaultLimit[kind] \in Nat /\ bounds[kind] < FaultLimit[kind]
  BY Limits DEF Use
<1>2. bounds[kind] + 1 \in Nat /\ bounds[kind] + 1 <= FaultLimit[kind]
  BY <1>1
<1>3. bounds' = [bounds EXCEPT ![kind] = bounds[kind] + 1]
  BY DEF Use
<1>4. ASSUME NEW k \in DOMAIN FaultLimit PROVE bounds'[k] <= FaultLimit[k]
  BY <1>2, <1>3
<1> QED BY <1>2, <1>3, <1>4

\* Who uses up a fault, and who else moves the counts.
LEMMA FaultsOf ==
  ASSUME ServerNext \/ Reads
  PROVE  \/ UNCHANGED bounds
         \/ \E kind \in {"crash", "seq", "append", "handler", "lost", "disconnect"} : Use(kind)
<1>1. CASE ServerNext
  BY <1>1 DEF ServerNext, Commit, FanStep, FanStart, FanSeq, FanAppend, FanEmit, FanDone,
     FanEmitLost, FanCrash, HandleConnection, Connect, Join, ReadBaseline, SendBaseline,
     ReadReplay, SendReplay
<1> QED BY <1>1, ReadsMove

\* Who hands an event out, ends a fan-out, and puts an event on the wire.
LEMMA ServerSteps ==
  ASSUME ServerNext
  PROVE  /\ started' = started \/ \E r \in Replicas, m \in Msgs : FanStart(r, m)
         /\ \/ sent' = sent \/ sent' = {} \/ SendReplay
            \/ \E r \in Replicas : fan[r].at = "emit" /\ sent' = sent \cup {fan[r].id}
<1>1. ASSUME NEW r \in Replicas, FanStep(r) \/ FanEmitLost(r) \/ FanCrash(r)
      PROVE  /\ started' = started \/ \E m \in Msgs : FanStart(r, m)
             /\ sent' = sent \/ (fan[r].at = "emit" /\ sent' = sent \cup {fan[r].id})
  BY <1>1 DEF FanStep, FanStart, FanSeq, FanAppend, FanEmit, FanDone, FanEmitLost, FanCrash,
     stored, socket
<1>2. ASSUME Commit \/ HandleConnection
      PROVE  started' = started /\ (sent' = sent \/ sent' = {} \/ SendReplay)
  BY <1>2 DEF Commit, HandleConnection, Connect, Join, ReadBaseline, SendBaseline, ReadReplay,
     SendReplay, stored, socket
<1> QED BY <1>1, <1>2 DEF ServerNext

\* A connection that is down carries nothing.
LEMMA DownIsSilent ==
  ASSUME conn \in ConnPhases, conn \in Down => wire = <<>>, ServerNext \/ Reads
  PROVE  conn' \in ConnPhases /\ (conn' \in Down => wire' = <<>>)
<1> USE DEF ConnPhases, InRoom, Down
<1>1. CASE ServerNext
  <2>1. UNCHANGED <<conn, wire>> \/ (conn' \in ConnPhases /\ conn' \notin Down)
    BY <1>1 DEF ServerNext, Commit, FanStep, FanStart, FanSeq, FanAppend, FanEmit, FanDone,
       FanEmitLost, FanCrash, HandleConnection, Connect, Join, ReadBaseline, SendBaseline,
       ReadReplay, SendReplay, socket
  <2> QED BY <2>1
<1>2. CASE Reads
  <2>1. (UNCHANGED conn \/ wire' = <<>> \/ (conn \in Down /\ wire' = wire))
        /\ (UNCHANGED conn \/ conn' \in Down)
        /\ (UNCHANGED wire \/ wire' = <<>> \/ (wire # <<>> /\ wire' = Tail(wire)))
    BY <1>2, ReadsMove
  <2> QED BY <2>1
<1> QED BY <1>1, <1>2

\* The server keeps its types.
LEMMA ServerStaysTyped ==
  ASSUME SeqInv, AllKnown, ServerKeeps, ServerNext \/ Reads
  PROVE  ServerKeeps'
<1> USE DEF ServerKeeps
<1>1. db \in Nat /\ NMsgs \in Nat /\ Budget \in Nat /\ Budget > 0
  BY Limits
<1>2. /\ 1..db \subseteq 1..db' /\ Seqs \subseteq Seqs' /\ db' \in Nat
      /\ db' = db \/ (db < NMsgs /\ db' = db + 1)
  BY <1>1, MoreKnown
<1>3. db' \in 0..NMsgs
  BY <1>1, <1>2
<1>4. IdsKnown
  BY AllKnowsIds DEF SeqInv, SeqType
<1>5. conn' \in ConnPhases /\ (conn' \in Down => wire' = <<>>)
  BY DownIsSilent
<1>6. /\ bounds' \in [DOMAIN FaultLimit -> Nat]
      /\ \A k \in DOMAIN FaultLimit : bounds'[k] <= FaultLimit[k]
  BY FaultsOf, UseStaysBounded, Limits
<1>7. handshake' = handshake
  <2>1. CASE ServerNext
    BY <2>1 DEF ServerNext, Commit, FanStep, FanStart, FanSeq, FanAppend, FanEmit, FanDone,
       FanEmitLost, FanCrash, HandleConnection, Connect, Join, ReadBaseline, SendBaseline,
       ReadReplay, SendReplay, socket
  <2> QED BY <2>1, ReadsMove
<1>8. CASE ServerNext
  <2>1. ASSUME NEW r \in Replicas, NEW m \in Msgs, FanStart(r, m)
        PROVE  started' \in [Msgs -> 0..Budget]
    <3>1. started[m] \in 0..Budget /\ started[m] < Budget
      BY <2>1 DEF FanStart
    <3>2. started[m] + 1 \in 0..Budget
      BY <1>1, <3>1
    <3> QED BY <2>1, <3>2 DEF FanStart
  <2>2. started' \in [Msgs -> 0..Budget]
    BY <1>8, <2>1, ServerSteps
  <2>3. done' \subseteq 1..db'
    <3>1. UNCHANGED done \/ \E r \in Replicas : FanDone(r)
      BY <1>8 DEF ServerNext, FanStep, FanStart, FanSeq, FanAppend, FanEmit, FanEmitLost,
         FanCrash, HandleConnection, Connect, Join, ReadBaseline, SendBaseline, ReadReplay,
         SendReplay, Commit, stored
    <3>2. ASSUME NEW r \in Replicas, FanDone(r) PROVE done' \subseteq 1..db'
      BY <1>2, <1>4, <3>2 DEF FanDone, IdsKnown, FansKnown
    <3> QED BY <1>2, <3>1, <3>2
  <2>4. sent' \subseteq 1..db'
    <3>1. CASE SendReplay
      <4>1. Read \subseteq 1..db
        BY DEF Read, AllKnown, ReplayKnown
      <4>2. sent' = sent \/ sent' = sent \cup Read
        BY <3>1 DEF SendReplay, Read
      <4> QED BY <1>2, <4>1, <4>2
    <3>2. ASSUME NEW r \in Replicas, fan[r].at = "emit" PROVE fan[r].id \in 1..db
      BY <3>2 DEF AllKnown, HeldKnown
    <3>3. CASE sent' = sent \/ sent' = {}
      BY <1>2, <3>3
    <3>4. CASE \E r \in Replicas : fan[r].at = "emit" /\ sent' = sent \cup {fan[r].id}
      BY <1>2, <3>2, <3>4
    <3> QED BY <1>8, <3>1, <3>3, <3>4, ServerSteps
  <2> QED BY <1>3, <1>5, <1>6, <1>7, <2>2, <2>3, <2>4
<1>9. CASE Reads
  <2>1. UNCHANGED <<started, done, db>> /\ (sent' = sent \/ sent' = {})
    BY <1>9, ReadsMove
  <2> QED BY <1>3, <1>5, <1>6, <1>7, <2>1
<1> QED BY <1>8, <1>9

\* What the server and its frames know of is kept by every step.
LEMMA KnownStep ==
  ASSUME SeqInv, AllKnown, ServerKeeps, ServerNext \/ Reads
  PROVE  AllKnown'
<1>1. db \in Nat /\ counter \in Nat
  BY Limits DEF ServerKeeps, SeqInv, SeqType
<1>2. 1..db \subseteq 1..db' /\ Seqs \subseteq Seqs'
  BY <1>1, MoreKnown
<1>3. IdsKnown
  BY <1>1, AllKnowsIds DEF ServerKeeps
<1>4. CASE ServerNext
  BY <1>2, <1>3, <1>4, HeldStep, BufferStep, ReadsAreKnown, FramesStep DEF AllKnown
<1> QED BY <1>4, KnownToThePage

\* The server begins with its types.
LEMMA ServerTypedInit ==
  ASSUME ServerInit, conn \in {"off", "ready"} PROVE AllKnown /\ ServerKeeps
<1> USE Limits
<1>2. /\ db = Loaded /\ counter = Loaded /\ done = 1..Loaded /\ sent = {} /\ wire = <<>>
      /\ read = Nothing /\ stream = [m \in 1..Loaded |-> [id |-> m, seq |-> m]]
      /\ fan = [r \in Replicas |-> NoFan]
  BY DEF ServerInit
<1>3. StreamKnown
  <2>1. Len(stream) = Loaded /\ \A i \in 1..Loaded : stream[i].id = i /\ stream[i].seq = i
    BY <1>2
  <2> QED BY <1>2, <2>1 DEF StreamKnown, Seqs
<1>4. HeldKnown
  BY <1>2 DEF HeldKnown, NoFan
<1>5. ReplayKnown
  BY <1>2 DEF ReplayKnown, Nothing
<1>6. FramesKnown
  <2>1. wire \in Seq(Frames) /\ Len(wire) = 0
    BY <1>2
  <2>2. Wired = {}
    BY <2>1 DEF Wired
  <2> QED BY <2>1, <2>2 DEF FramesKnown
<1>7. ServerKeeps
  <2>1. started \in [Msgs -> 0..Budget]
    <3>1. 0 \in 0..Budget /\ 1 \in 0..Budget
      OBVIOUS
    <3> QED BY <3>1 DEF ServerInit
  <2>2. conn \in ConnPhases /\ handshake \in Handshakes /\ db \in 0..NMsgs
    BY <1>2 DEF ServerInit, ConnPhases
  <2>3. /\ bounds \in [DOMAIN FaultLimit -> Nat]
        /\ \A k \in DOMAIN FaultLimit : bounds[k] <= FaultLimit[k]
    BY DEF ServerInit
  <2> QED BY <1>2, <2>1, <2>2, <2>3 DEF ServerKeeps
<1> QED BY <1>3, <1>4, <1>5, <1>6, <1>7 DEF AllKnown

\* What it keeps are its types.
LEMMA ServerIsTyped == ASSUME SeqInv, AllKnown, ServerKeeps PROVE ServerTypeOK
<1>1. SeqType
  BY DEF SeqInv
<1>2. /\ counter \in Nat
      /\ \A i \in DOMAIN stream : stream[i].id \in 1..db /\ stream[i].seq \in {Sentinel} \cup 1..counter
  BY <1>1 DEF SeqType, AllKnown, StreamKnown, Seqs
<1>3. \A r \in Replicas :
        /\ fan[r].at \in {"idle", "seq", "append", "emit"}
        /\ fan[r].at # "idle" => fan[r].id \in 1..db
        /\ fan[r].at \in {"append", "emit"} => fan[r].seq \in {Sentinel} \cup 1..counter
  BY <1>1 DEF SeqType, Fan, AllKnown, HeldKnown, Seqs
<1>4. \A k \in DOMAIN bounds : bounds[k] \in 0..FaultLimit[k]
  <2>1. DOMAIN bounds = DOMAIN FaultLimit
    BY DEF ServerKeeps
  <2>2. ASSUME NEW k \in DOMAIN FaultLimit PROVE bounds[k] \in 0..FaultLimit[k]
    BY <2>2, Limits DEF ServerKeeps
  <2> QED BY <2>1, <2>2
<1> QED BY <1>2, <1>3, <1>4 DEF ServerTypeOK, ServerKeeps

\* The stream alone, with a client that only reads, keeps its types.
THEOREM StreamTypes == StreamSpec => []ServerTypeOK
<1> DEFINE I == SeqInv /\ AllKnown /\ ServerKeeps
<1>1. StreamInit => I
  <2>1. StreamInit => SeqInv /\ AllKnown /\ ServerKeeps
    BY SeqInvInit, ServerTypedInit DEF StreamInit
  <2> QED BY <2>1
<1>2. I /\ [ServerNext \/ Sink \/ Drop]_serverVars => I'
  <2>1. ASSUME SeqInv, AllKnown, ServerKeeps, [ServerNext \/ Sink \/ Drop]_serverVars
        PROVE  SeqInv' /\ AllKnown' /\ ServerKeeps'
    <3>1. ServerNext \/ Reads
      BY <2>1 DEF Reads
    <3> QED BY <2>1, <3>1, SeqInvStep, KnownStep, ServerStaysTyped
  <2> QED BY <2>1
<1>3. I => ServerTypeOK
  BY ServerIsTyped
<1> QED BY <1>1, <1>2, <1>3, PTL DEF StreamSpec

\* The list and what is loading, the tracker, the fetch and the buffer.
ListTyped ==
  /\ cache = None \/ cache \subseteq 1..db
  /\ cursor \in 0..db /\ (cache = None => cursor = 0)
  /\ loading = None \/ loading \in 0..db
TrackerTyped == last = None \/ last \in 0..counter
GapTyped ==
  /\ gap.got \subseteq 1..db /\ gap.pages \in 0..MaxPages
  /\ gap.at = "fetch" => gap.pages < MaxPages
BufferTyped == truncated \in BOOLEAN /\ pend \in [size : 0..MaxPending, over : BOOLEAN]
UsedTyped == used \in [http : 0..MaxHttpFaults, evict : 0..MaxEvicts]
PageTyped == ListTyped /\ TrackerTyped /\ GapTyped /\ BufferTyped /\ UsedTyped

\* What the page is told is known, and so is what it takes from the database.
LEMMA FrontKnown ==
  ASSUME FramesKnown, NEW t, Frame(t)
  PROVE  Known(Head(wire)) /\ Head(wire).t = t /\ UNCHANGED <<db, counter>>
<1>1. wire # <<>> /\ wire' = Tail(wire) /\ Head(wire).t = t /\ UNCHANGED <<db, counter>>
  BY DEF Frame, stored
<1>2. Head(wire) = wire[1] /\ wire[1] \in Wired
  BY <1>1, FrameTaken DEF FramesKnown
<1> QED BY <1>1, <1>2 DEF FramesKnown

\* No list of messages is None.
LEMMA ListIsNotNone ==
  ASSUME db \in 0..NMsgs, NEW S, S \subseteq 1..db
  PROVE  S # None
<1>1. db \in Nat /\ db <= Loaded + NMsgs
  BY Limits
<1> QED BY <1>1, NoneIsNoList

\* The list has messages that are in the table, up to its cursor or more.
LEMMA ListStaysTyped ==
  ASSUME FramesKnown, db \in 0..NMsgs, ListTyped, GapTyped, [Next]_allVars,
         db' \in Nat, db <= db'
  PROVE  ListTyped'
<1> USE DEF ListTyped
<1>n. db \in Nat /\ 1..db \subseteq 1..db' /\ 0..db \subseteq 0..db'
  OBVIOUS
<1>1. ASSUME cache' = cache, cursor' = cursor, loading' = loading PROVE ListTyped'
  BY <1>n, <1>1
<1>2. ASSUME NEW S, S \subseteq 1..db, cache' = IF cache = None THEN None ELSE cache \cup S,
             cursor' = cursor, loading' = loading
      PROVE  ListTyped'
  <2>1. CASE cache = None
    BY <1>n, <1>2, <2>1
  <2>2. CASE cache # None
    <3>1. cache' \subseteq 1..db /\ cache' # None
      BY <1>2, <2>2, ListIsNotNone
    <3> QED BY <1>n, <1>2, <3>1
  <2> QED BY <2>1, <2>2
<1>3. CASE OnChannelEvent
  <2>1. Known(Head(wire)) /\ Head(wire).t = "event"
    BY <1>3, FrontKnown DEF OnChannelEvent
  <2>2. {Head(wire).id} \subseteq 1..db
    BY <2>1 DEF Known
  <2> QED BY <1>2, <1>3, <2>2 DEF OnChannelEvent, WithRow
<1>4. CASE GapSettles
  BY <1>2, <1>4 DEF GapSettles, mergeGapMessages, GapTyped
<1>5. CASE Evict
  BY <1>n, <1>5 DEF Evict
<1>6. CASE LoadList
  BY <1>n, <1>6 DEF LoadList
<1>7. CASE ListLoaded
  <2>1. loading \in 0..db /\ cache' = 1..loading /\ cursor' = loading /\ loading' = None
    BY <1>7 DEF ListLoaded
  <2>2. cache' \subseteq 1..db
    BY <1>n, <2>1
  <2>3. cache' # None
    BY <2>2, ListIsNotNone
  <2> QED BY <1>n, <2>1, <2>2, <2>3
<1>8. CASE UNCHANGED list
  BY <1>1, <1>8 DEF list
<1> QED BY <1>3, <1>4, <1>5, <1>6, <1>7, <1>8
        DEF Next, ClientNext, Receive, OnConnect, OnChannelJoined, OnReplayComplete,
            OnReplayTruncated, OnDisconnect, Abandon, Fetch, GapPage, GapFails, RetryFires, Load,
            clientVars, allVars

\* The tracker is never ahead of the counter.
LEMMA TrackerStaysTyped ==
  ASSUME FramesKnown, TrackerTyped, [Next]_allVars,
         counter \in Nat, counter' \in Nat, counter <= counter'
  PROVE  TrackerTyped'
<1> USE DEF TrackerTyped
<1>1. 0..counter \subseteq 0..counter'
  OBVIOUS
<1>2. ASSUME UNCHANGED last \/ last' = None PROVE TrackerTyped'
  BY <1>1, <1>2
<1>3. ASSUME NEW s \in {0} \cup Seqs, s # Sentinel, last' = s PROVE TrackerTyped'
  <2>1. s \in 0..counter
    BY <1>3 DEF Seqs
  <2> QED BY <1>1, <1>3, <2>1
<1>4. CASE OnChannelJoined
  <2>1. Head(wire).seq \in {0} \cup Seqs
    BY <1>4, FrontKnown DEF OnChannelJoined, Known
  <2> QED BY <1>2, <1>3, <1>4, <2>1 DEF OnChannelJoined
<1>5. CASE OnChannelEvent
  <2>1. Head(wire).seq \in Seqs
    BY <1>5, FrontKnown DEF OnChannelEvent, Known
  <2>2. \/ last' = last
        \/ Head(wire).seq # Sentinel /\ last' = Head(wire).seq
    BY <1>5 DEF OnChannelEvent, observe
  <2> QED BY <1>2, <1>3, <2>1, <2>2
<1>6. UNCHANGED last \/ last' = None \/ OnChannelJoined \/ OnChannelEvent
  BY DEF Next, ClientNext, Receive, OnConnect, OnReplayComplete, OnReplayTruncated,
         OnDisconnect, Abandon, Fetch, GapPage, GapSettles, GapFails, RetryFires, Evict,
         Load, LoadList, ListLoaded, clientVars, allVars
<1> QED BY <1>2, <1>4, <1>5, <1>6

\* What runSync and enterGapFetch leave of the fetch and of the buffer.
FetchTypedNext ==
  /\ gap'.got \subseteq 1..db /\ gap'.pages \in 0..MaxPages
  /\ gap'.at = "fetch" => gap'.pages < MaxPages
  /\ BufferTyped'

\* runSync shares a fetch, starts one from nothing, or has nothing to do.
LEMMA RunSyncTypes ==
  ASSUME gap \in Fetches, GapTyped, BufferTyped, NEW f, NEW a, RunSync(f, a)
  PROVE  FetchTypedNext
<1> USE DEF FetchTypedNext
<1>m. MaxPages \in Nat /\ 0 < MaxPages /\ MaxPending \in Nat
  BY ChannelSyncAssumption DEF ChannelSyncAssumption
<1>1. CASE gap' = [gap EXCEPT !.waiters = @ + 1] /\ UNCHANGED <<truncated, pend>>
  <2>1. gap'.got = gap.got /\ gap'.pages = gap.pages /\ gap'.at = gap.at
    BY <1>1 DEF Fetches
  <2>2. BufferTyped'
    BY <1>1 DEF BufferTyped
  <2> QED BY <2>1, <2>2 DEF GapTyped
<1>2. CASE /\ gap' = [NoGap EXCEPT !.at = "fetch", !.after = After, !.waiters = 1]
           /\ UNCHANGED <<truncated, pend>>
  <2>1. gap'.got = {} /\ gap'.pages = 0
    BY <1>2 DEF NoGap
  <2>2. BufferTyped'
    BY <1>2 DEF BufferTyped
  <2> QED BY <1>m, <2>1, <2>2
<1>3. CASE truncated' = (truncated \/ pend.over) /\ pend' = NoPend /\ UNCHANGED gap
  <2>1. NoPend \in [size : 0..MaxPending, over : BOOLEAN]
    BY <1>m DEF NoPend
  <2>2. BufferTyped'
    BY <1>3, <2>1 DEF BufferTyped
  <2> QED BY <1>3, <2>2 DEF GapTyped
<1> QED BY <1>1, <1>2, <1>3 DEF RunSync

\* enterGapFetch does that, or changes the state only.
LEMMA EnterTypes ==
  ASSUME gap \in Fetches, GapTyped, BufferTyped, NEW e, EnterGapFetch(e)
  PROVE  FetchTypedNext
<1>1. CASE transition(fsm, e) = "GAP_FETCHING"
  BY <1>1, RunSyncTypes DEF EnterGapFetch
<1>2. CASE transition(fsm, e) # "GAP_FETCHING"
  BY <1>2 DEF EnterGapFetch, FetchTypedNext, GapTyped, BufferTyped
<1> QED BY <1>1, <1>2

\* A fetch stops at the page limit, and has read what is in the table; the buffer
\* is never fuller than it may be.
LEMMA FetchStaysTyped ==
  ASSUME gap \in Fetches, GapTyped, BufferTyped, [Next]_allVars, 1..db \subseteq 1..db'
  PROVE  GapTyped' /\ BufferTyped'
<1>m. MaxPages \in Nat /\ 0 < MaxPages /\ MaxPending \in Nat
  BY ChannelSyncAssumption DEF ChannelSyncAssumption
<1>1. ASSUME FetchTypedNext PROVE GapTyped' /\ BufferTyped'
  BY <1>1 DEF FetchTypedNext, GapTyped
<1>2. CASE UNCHANGED <<truncated, gap, pend>>
  BY <1>1, <1>2 DEF FetchTypedNext, GapTyped, BufferTyped
<1>3. CASE OnReplayTruncated \/ RetryFires
  BY <1>1, <1>3, RunSyncTypes, EnterTypes DEF OnReplayTruncated, RetryFires
<1>4. CASE OnChannelEvent
  <2>1. CASE pend' = Pushed /\ UNCHANGED <<truncated, gap>>
    <3>1. pend' \in [size : 0..MaxPending, over : BOOLEAN]
      <4>1. CASE pend.size < MaxPending
        <5>1. pend.size \in 0..MaxPending /\ pend.size + 1 \in 0..MaxPending
          BY <1>m, <4>1 DEF BufferTyped
        <5>2. pend' = [pend EXCEPT !.size = pend.size + 1]
          BY <2>1, <4>1 DEF Pushed
        <5> QED BY <5>1, <5>2 DEF BufferTyped
      <4>2. CASE ~(pend.size < MaxPending)
        BY <2>1, <4>2 DEF Pushed, BufferTyped
      <4> QED BY <4>1, <4>2
    <3>2. BufferTyped'
      BY <2>1, <3>1 DEF BufferTyped
    <3> QED BY <1>1, <2>1, <3>2 DEF FetchTypedNext, GapTyped
  <2>2. CASE EnterGapFetch("seqHole")
    BY <1>1, <2>2, EnterTypes
  <2>3. CASE UNCHANGED sync
    BY <1>2, <2>3 DEF sync
  <2> QED BY <1>4, <2>1, <2>2, <2>3 DEF OnChannelEvent
<1>5. CASE GapPage
  <2> PICK g : g = gap
    OBVIOUS
  <2> PICK rows : rows = Page
    OBVIOUS
  <2>g. g \in Fetches /\ g.at = "fetch" /\ rows \subseteq 1..db
    BY <1>5 DEF GapPage, Page
  <2>m. (g.after + PageLimit < db) \in BOOLEAN
    OBVIOUS
  <2> PICK more \in BOOLEAN : more = (g.after + PageLimit < db)
    BY <2>m
  <2> PICK stop \in BOOLEAN : stop = (g.pages + 1 = MaxPages)
    OBVIOUS
  <2>1. gap' = [g EXCEPT !.got = g.got \cup rows, !.pages = g.pages + 1,
                         !.after = IF more THEN g.after + PageLimit ELSE g.after,
                         !.over = more /\ stop,
                         !.at = IF more /\ ~stop THEN "fetch" ELSE "ok"]
    BY <1>5 DEF GapPage
  <2>2. /\ gap'.got = g.got \cup rows /\ gap'.pages = g.pages + 1
        /\ gap'.at = "fetch" => ~stop
    BY <2>1, <2>g DEF Fetches
  <2>3. g.pages \in 0..MaxPages /\ g.pages < MaxPages /\ g.got \subseteq 1..db
    BY <2>g DEF GapTyped
  <2>4. g.pages + 1 \in 0..MaxPages /\ (~stop => g.pages + 1 < MaxPages)
    <3>1. g.pages + 1 \in 0..MaxPages
      BY <1>m, <2>3
    <3>2. g.pages + 1 # MaxPages => g.pages + 1 < MaxPages
      BY <1>m, <2>3
    <3>3. ~stop => g.pages + 1 # MaxPages
      OBVIOUS
    <3> QED BY <3>1, <3>2, <3>3
  <2>5. BufferTyped'
    BY <1>5 DEF GapPage, BufferTyped
  <2>6. gap'.got \subseteq 1..db
    BY <2>2, <2>3, <2>g
  <2> QED BY <1>1, <2>2, <2>4, <2>5, <2>6 DEF FetchTypedNext
<1>6. CASE GapSettles
  <2>1. NoPend \in [size : 0..MaxPending, over : BOOLEAN] /\ NoGap.got = {} /\ NoGap.pages = 0
    BY <1>m DEF NoPend, NoGap
  <2>2. BufferTyped'
    BY <1>6, <2>1 DEF GapSettles, BufferTyped
  <2> QED BY <1>1, <1>6, <1>m, <2>1, <2>2 DEF GapSettles, FetchTypedNext
<1>7. CASE GapFails
  <2>1. NoGap.got = {} /\ NoGap.pages = 0
    BY DEF NoGap
  <2> QED BY <1>1, <1>7, <1>m, <2>1 DEF GapFails, FetchTypedNext, BufferTyped
<1>8. CASE Evict
  BY <1>1, <1>8 DEF Evict, FetchTypedNext, GapTyped, BufferTyped
<1> QED BY <1>2, <1>3, <1>4, <1>5, <1>6, <1>7, <1>8
        DEF Next, ClientNext, Receive, OnConnect, OnChannelJoined, OnReplayComplete,
            OnDisconnect, Abandon, Dispatched, Fetch, Load, LoadList, ListLoaded, sync,
            clientVars, allVars

\* Failed requests and evictions are counted up to their bounds.
LEMMA UsedStaysTyped ==
  ASSUME UsedTyped, [Next]_allVars
  PROVE  UsedTyped'
<1> USE DEF UsedTyped
<1>m. MaxHttpFaults \in Nat /\ MaxEvicts \in Nat
  BY ChannelSyncAssumption DEF ChannelSyncAssumption
<1>1. CASE GapFails
  <2>1. used.http + 1 \in 0..MaxHttpFaults
    BY <1>1, <1>m DEF GapFails
  <2>2. used' = [used EXCEPT !.http = used.http + 1]
    BY <1>1 DEF GapFails
  <2> QED BY <2>1, <2>2
<1>2. CASE Evict
  <2>1. used.evict + 1 \in 0..MaxEvicts
    BY <1>2, <1>m DEF Evict
  <2>2. used' = [used EXCEPT !.evict = used.evict + 1]
    BY <1>2 DEF Evict
  <2> QED BY <2>1, <2>2
<1>3. CASE UNCHANGED used
  BY <1>3
<1> QED BY <1>1, <1>2, <1>3
        DEF Next, ClientNext, Receive, OnConnect, OnChannelJoined, OnReplayComplete,
            OnReplayTruncated, OnChannelEvent, OnDisconnect, Abandon, Fetch, GapPage, GapSettles,
            RetryFires, Load, LoadList, ListLoaded, clientVars, allVars

-----------------------------------------------------------------------------
\* The types are inductive with the seqs, the fetch and who knows of what.
TypesIInv == ReplayInv /\ DrivenIInv /\ AllKnown /\ ServerKeeps /\ PageTyped

\* A page and a channel that begin have them.
LEMMA TypesInit == SyncInit => TypesIInv
<1> SUFFICES ASSUME SyncInit PROVE TypesIInv
  OBVIOUS
<1> USE Limits DEF SyncInit
<1>1. ReplayInv /\ DrivenIInv
  BY ReplayInit, DrivenInit
<1>2. /\ db = Loaded /\ counter = Loaded /\ done = 1..Loaded /\ sent = {} /\ wire = <<>>
      /\ read = Nothing /\ stream = [m \in 1..Loaded |-> [id |-> m, seq |-> m]]
      /\ fan = [r \in Replicas |-> NoFan]
  BY DEF ServerInit
<1>3. AllKnown /\ ServerKeeps
  <2>1. ServerInit /\ conn \in {"off", "ready"}
    OBVIOUS
  <2> QED BY <2>1, ServerTypedInit
<1>4. PageTyped
  <2>1. ListTyped
    <3>1. cache \subseteq 1..db /\ db \in 0..NMsgs
      BY <1>2
    <3>2. cache # None
      BY <3>1, ListIsNotNone
    <3> QED BY <1>2, <3>1, <3>2 DEF ListTyped
  <2>2. TrackerTyped
    BY <1>2 DEF TrackerTyped
  <2>3. MaxPages \in Nat /\ 0 < MaxPages /\ {MaxPending, MaxHttpFaults, MaxEvicts} \subseteq Nat
    BY ChannelSyncAssumption DEF ChannelSyncAssumption
  <2>4. GapTyped
    BY <2>3 DEF GapTyped, NoGap
  <2>5. BufferTyped
    <3>1. NoPend \in [size : 0..MaxPending, over : BOOLEAN]
      BY <2>3 DEF NoPend
    <3> QED BY <3>1 DEF BufferTyped
  <2>6. UsedTyped
    <3>1. used = [http |-> 0, evict |-> 0]
      OBVIOUS
    <3>2. 0 \in 0..MaxHttpFaults /\ 0 \in 0..MaxEvicts
      BY <2>3
    <3> QED BY <3>1, <3>2 DEF UsedTyped
  <2> QED BY <2>1, <2>2, <2>4, <2>5, <2>6 DEF PageTyped
<1> QED BY <1>1, <1>3, <1>4 DEF TypesIInv

\* Every step keeps the types.
LEMMA TypesStep == TypesIInv /\ [Next]_allVars => TypesIInv'
<1> SUFFICES ASSUME TypesIInv, [Next]_allVars PROVE TypesIInv'
  OBVIOUS
<1> USE DEF TypesIInv
<1>0. ServerNext \/ Reads
  BY PageReads
<1>1. ReplayInv' /\ DrivenIInv'
  BY ReplayKept, DrivenStep
<1>2. SeqInv /\ db \in 0..NMsgs /\ db \in Nat /\ gap \in Fetches /\ counter \in Nat
  BY DEF ReplayInv, SeqInv, SeqType, ServerKeeps, DrivenIInv, FetchTypes
<1>3. /\ db' \in Nat /\ db <= db' /\ 1..db \subseteq 1..db'
      /\ counter' \in Nat /\ counter <= counter' /\ Seqs \subseteq Seqs'
  BY <1>0, <1>2, MoreKnown
<1>4. ServerKeeps'
  BY <1>0, <1>2, ServerStaysTyped
<1>5. AllKnown'
  BY <1>0, <1>2, KnownStep
<1>6. PageTyped'
  <2>1. ListTyped'
    BY <1>2, <1>3, ListStaysTyped DEF AllKnown, PageTyped
  <2>2. TrackerTyped'
    BY <1>2, <1>3, TrackerStaysTyped DEF AllKnown, PageTyped
  <2>3. GapTyped' /\ BufferTyped'
    BY <1>2, <1>3, FetchStaysTyped DEF PageTyped
  <2>4. UsedTyped'
    BY UsedStaysTyped DEF PageTyped
  <2> QED BY <2>1, <2>2, <2>3, <2>4 DEF PageTyped
<1> QED BY <1>1, <1>4, <1>5, <1>6

\* Stream and page keep their types, whatever the faults: the buffer, the frames
\* and the tracker know of no message that is not in the table and of no seq that
\* INCR has not given out, and every count stays within its limit.
THEOREM TypesHold == Spec => [](ServerTypeOK /\ ClientTypeOK)
<1>1. TypesIInv => ServerTypeOK
  BY ServerIsTyped DEF TypesIInv, ReplayInv
<1>2. TypesIInv => ClientTypeOK
  <2> SUFFICES ASSUME TypesIInv PROVE ClientTypeOK
    OBVIOUS
  <2> USE DEF TypesIInv
  <2>1. /\ fsm \in States /\ timer \in BOOLEAN /\ attempt \in Nat
        /\ gap.at \in {"idle", "fetch", "ok"} /\ (gap.waiters > 0 <=> gap.at # "idle")
    BY DEF DrivenIInv, FetchTypes, Fetches
  <2>2. /\ pend.size \in 0..MaxPending /\ truncated \in BOOLEAN
        /\ used.http \in 0..MaxHttpFaults /\ used.evict \in 0..MaxEvicts
    BY DEF PageTyped, BufferTyped, UsedTyped
  <2> QED BY <2>1, <2>2 DEF ClientTypeOK, PageTyped, ListTyped, TrackerTyped, GapTyped
<1> QED BY <1>1, <1>2, TypesInit, TypesStep, PTL DEF Spec

-----------------------------------------------------------------------------
(* A fetch comes to its end: what the proof can say of FetchSettles.         *)

\* How far a channel in GAP_FETCHING is from leaving it: the requests that may
\* still fail, and then the steps of the fetch, one more when it is to be started.
Fetching == fsm = "GAP_FETCHING"
FaultsLeft == MaxHttpFaults - used.http
StepsLeft == IF gap.at = "ok" THEN 0
             ELSE IF gap.at = "fetch" THEN MaxPages - gap.pages ELSE MaxPages + 1

Ahead(f, n) == Fetching /\ FaultsLeft = f /\ StepsLeft = n
Beyond(f, n) == Fetching => FaultsLeft < f \/ (FaultsLeft = f /\ StepsLeft < n)

\* The weak fairness of FairSpec for the fetch and its timer, with the guards of
\* the two actions in the place of ENABLED.
Busy == gap.at # "idle"
FetchesGoOn ==
  /\ []<>~Busy \/ []<><<GapPage \/ GapSettles>>_allVars
  /\ []<>~timer \/ []<><<RetryFires>>_allVars

FetchIInv == DrivenIInv /\ GapTyped /\ UsedTyped

\* The types of the distance.
LEMMA DistanceTypes ==
  ASSUME FetchIInv
  PROVE  /\ FaultsLeft \in Nat /\ StepsLeft \in Nat /\ MaxPages \in Nat /\ MaxPages > 0
         /\ gap.at \in {"idle", "fetch", "ok"}
         /\ gap.at = "fetch" => gap.pages \in Nat /\ gap.pages < MaxPages
<1>1. gap.at \in {"idle", "fetch", "ok"} /\ gap.pages \in 0..MaxPages /\ used.http \in 0..MaxHttpFaults
  BY DEF FetchIInv, DrivenIInv, FetchTypes, Fetches, GapTyped, UsedTyped
<1>2. MaxPages \in Nat /\ MaxPages > 0 /\ MaxHttpFaults \in Nat
  BY ChannelSyncAssumption DEF ChannelSyncAssumption
<1>3. gap.at = "fetch" => gap.pages < MaxPages
  BY DEF FetchIInv, GapTyped
<1> QED BY <1>1, <1>2, <1>3 DEF FaultsLeft, StepsLeft

\* runSync shares a fetch, starts one, or has nothing to fetch.
LEMMA RunSyncAdvances ==
  ASSUME FetchIInv, NEW s \in States, NEW a, RunSync(s, a), UNCHANGED used
  PROVE  /\ Fetching' => FaultsLeft' = FaultsLeft
         /\ Fetching' /\ Busy => Busy' /\ StepsLeft' = StepsLeft
         /\ Fetching' /\ ~Busy => StepsLeft' < StepsLeft
<1>1. CASE gap.at # "idle" /\ gap' = [gap EXCEPT !.waiters = @ + 1]
  <2>1. gap'.at = gap.at /\ gap'.pages = gap.pages
    BY <1>1 DEF FetchIInv, DrivenIInv, FetchTypes, Fetches
  <2> QED BY <1>1, <2>1 DEF Busy, StepsLeft, FaultsLeft
<1>2. CASE gap.at = "idle" /\ gap' = [NoGap EXCEPT !.at = "fetch", !.after = After, !.waiters = 1]
  <2>1. gap'.at = "fetch" /\ gap'.pages = 0
    BY <1>2 DEF NoGap
  <2> QED BY <1>2, <2>1, DistanceTypes DEF Busy, StepsLeft, FaultsLeft
<1>3. CASE fsm' = transition(s, "synced")
  BY <1>3, Leads DEF Fetching
<1> QED BY <1>1, <1>2, <1>3 DEF RunSync

\* A page brings the fetch nearer to its end.
LEMMA PageAdvances ==
  ASSUME FetchIInv, GapPage
  PROVE  FaultsLeft' = FaultsLeft /\ Busy' /\ StepsLeft' < StepsLeft
<1>1. gap.at = "fetch" /\ gap'.pages = gap.pages + 1 /\ gap'.at \in {"fetch", "ok"}
  <2>1. gap \in Fetches /\ gap.at = "fetch"
    BY DEF GapPage, FetchIInv, DrivenIInv, FetchTypes
  <2> QED BY <2>1 DEF GapPage, Fetches
<1>2. UNCHANGED used
  BY DEF GapPage
<1> QED BY <1>1, <1>2, DistanceTypes DEF StepsLeft, FaultsLeft, Busy

\* A failed request is one that cannot fail again.
LEMMA FailureAdvances == ASSUME FetchIInv, GapFails PROVE FaultsLeft' < FaultsLeft
<1>1. used' = [used EXCEPT !.http = @ + 1] /\ used.http \in 0..MaxHttpFaults
  BY DEF GapFails, FetchIInv, UsedTyped
<1>2. used'.http = used.http + 1 /\ MaxHttpFaults \in Nat
  BY <1>1, ChannelSyncAssumption DEF ChannelSyncAssumption, FetchIInv, UsedTyped
<1> QED BY <1>1, <1>2 DEF FaultsLeft

\* The steps of a page, by what they do to the fetch: nothing, run it, read a page,
\* end it or fail.
LEMMA FetchMoves ==
  ASSUME FetchIInv, [Next]_allVars
  PROVE  \/ UNCHANGED <<gap, used, timer>>
         \/ ~Fetching'
         \/ \E s \in States, a \in Nat : RunSync(s, a) /\ UNCHANGED <<used, timer>>
         \/ RetryFires /\ fsm \in States
         \/ GapPage /\ UNCHANGED timer
         \/ GapFails
<1>0. fsm \in States /\ attempt \in Nat
  BY DEF FetchIInv, DrivenIInv, FetchTypes
<1>1. CASE ServerNext /\ UNCHANGED clientVars
  BY <1>1 DEF clientVars, sync
<1>2. CASE OnConnect \/ OnReplayComplete \/ OnDisconnect
  BY <1>2 DEF OnConnect, OnReplayComplete, OnDisconnect, Dispatched
<1>3. CASE OnChannelJoined
  BY <1>3 DEF OnChannelJoined, sync
<1>e. ASSUME NEW e \in {"gapNeeded", "seqHole"}, EnterGapFetch(e), UNCHANGED used
      PROVE  \/ UNCHANGED <<gap, used, timer>>
             \/ \E s \in States, a \in Nat : RunSync(s, a) /\ UNCHANGED <<used, timer>>
  <2> PICK next : next = transition(fsm, e)
    OBVIOUS
  <2>1. next \in States
    BY <1>0, Leads
  <2>2. CASE RunSync(next, 0) /\ UNCHANGED timer
    <3>1. 0 \in Nat
      OBVIOUS
    <3> QED BY <1>e, <2>1, <2>2, <3>1
  <2>3. CASE UNCHANGED <<gap, timer>>
    BY <1>e, <2>3
  <2>4. (RunSync(next, 0) /\ UNCHANGED timer) \/ UNCHANGED <<gap, timer>>
    <3>1. CASE next = "GAP_FETCHING"
      BY <1>e, <3>1 DEF EnterGapFetch
    <3>2. CASE next # "GAP_FETCHING"
      BY <1>e, <3>2 DEF EnterGapFetch
    <3> QED BY <3>1, <3>2
  <2> QED BY <2>2, <2>3, <2>4
<1>4. CASE OnReplayTruncated
  BY <1>4, <1>e DEF OnReplayTruncated
<1>5. CASE OnChannelEvent
  <2>1. UNCHANGED used /\ (UNCHANGED <<gap, timer>> \/ EnterGapFetch("seqHole"))
    BY <1>5 DEF OnChannelEvent, sync
  <2> QED BY <1>e, <2>1
<1>6. CASE GapPage
  BY <1>6 DEF GapPage
<1>7. CASE GapSettles
  BY <1>0, <1>7, Leads DEF GapSettles, Fetching
<1>8. CASE GapFails
  BY <1>8
<1>9. CASE RetryFires
  BY <1>0, <1>9
<1>10. CASE Evict
  BY <1>10 DEF Evict, Fetching
<1>11. CASE LoadList \/ ListLoaded
  BY <1>11 DEF LoadList, ListLoaded, sync
<1>12. CASE Abandon \/ UNCHANGED allVars
  BY <1>12 DEF Abandon, allVars, clientVars, sync
<1> QED BY <1>1, <1>2, <1>3, <1>4, <1>5, <1>6, <1>7, <1>8, <1>9, <1>10, <1>11, <1>12
        DEF Next, ClientNext, Receive, Fetch, Load

\* No step leads away from the end: the channel gets nearer, or stays where it is
\* with its fetch in flight or its timer armed as before.
LEMMA NeverFarther ==
  ASSUME FetchIInv, [Next]_allVars, NEW f, NEW n, Ahead(f, n)
  PROVE  \/ Beyond(f, n)'
         \/ Ahead(f, n)' /\ (Busy => Busy') /\ (~Busy => (timer' <=> timer))
<1>0. Fetching /\ FaultsLeft = f /\ StepsLeft = n
  BY DEF Ahead
<1>1. CASE UNCHANGED <<gap, used, timer>>
  BY <1>0, <1>1 DEF Ahead, Beyond, FaultsLeft, StepsLeft, Busy
<1>2. CASE ~Fetching'
  BY <1>2 DEF Beyond
<1>3. ASSUME NEW s \in States, NEW a \in Nat, RunSync(s, a), UNCHANGED used
      PROVE  Beyond(f, n)' \/ (Busy /\ Busy' /\ Ahead(f, n)')
  BY <1>0, <1>3, RunSyncAdvances DEF Ahead, Beyond
<1>4. CASE RetryFires /\ fsm \in States
  <2>1. RunSync(fsm, attempt) /\ UNCHANGED used /\ attempt \in Nat
    BY <1>4 DEF RetryFires, FetchIInv, DrivenIInv, FetchTypes
  <2> QED BY <1>3, <1>4, <2>1
<1>5. CASE GapPage
  BY <1>0, <1>5, PageAdvances DEF Beyond
<1>6. CASE GapFails
  BY <1>0, <1>6, FailureAdvances DEF Beyond
<1> QED BY <1>1, <1>2, <1>3, <1>4, <1>5, <1>6, FetchMoves

\* The fetch that goes on, and the timer that fires when there is none.
LEMMA GoingOn ==
  ASSUME FetchIInv, NEW f, NEW n, Ahead(f, n)
  PROVE  /\ GapPage \/ GapSettles => Beyond(f, n)'
         /\ RetryFires /\ ~Busy => Beyond(f, n)'
         /\ ~Busy => timer
<1>0. Fetching /\ FaultsLeft = f /\ StepsLeft = n /\ fsm \in States /\ attempt \in Nat
  BY DEF Ahead, FetchIInv, DrivenIInv, FetchTypes
<1>1. ASSUME GapPage PROVE Beyond(f, n)'
  BY <1>0, <1>1, PageAdvances DEF Beyond
<1>2. ASSUME GapSettles PROVE Beyond(f, n)'
  BY <1>0, <1>2, Leads DEF GapSettles, Beyond, Fetching
<1>3. ASSUME RetryFires, ~Busy PROVE Beyond(f, n)'
  BY <1>0, <1>3, RunSyncAdvances DEF RetryFires, Beyond
<1>4. ~Busy => timer
  BY <1>0 DEF Busy, Fetching, FetchIInv, DrivenIInv, GapFetchingIsDriven
<1> QED BY <1>1, <1>2, <1>3, <1>4

\* A channel in GAP_FETCHING gets nearer to the end of its fetch or leaves the state,
\* if pages arrive and timers fire: however fetches are shared, fail and are begun
\* anew, no round of them is in vain. The distance cannot fall for ever.
THEOREM FetchesAdvance ==
  ASSUME NEW f, NEW n
  PROVE  Spec /\ FetchesGoOn => (Ahead(f, n) ~> Beyond(f, n))
<1>1. Spec => []FetchIInv
  <2>1. TypesIInv => FetchIInv
    BY DEF TypesIInv, PageTyped, FetchIInv
  <2> QED BY <2>1, TypesInit, TypesStep, PTL DEF Spec
<1>2. FetchIInv /\ [Next]_allVars /\ Ahead(f, n) =>
        \/ Beyond(f, n)'
        \/ Ahead(f, n)' /\ (Busy => Busy') /\ (~Busy => (timer' <=> timer))
  BY NeverFarther
<1>3. FetchIInv /\ Ahead(f, n) /\ <<GapPage \/ GapSettles>>_allVars => Beyond(f, n)'
  BY GoingOn
<1>4. FetchIInv /\ Ahead(f, n) /\ <<RetryFires>>_allVars /\ ~Busy => Beyond(f, n)'
  BY GoingOn
<1>5. FetchIInv /\ Ahead(f, n) /\ ~Busy => timer
  BY GoingOn
<1> QED BY <1>1, <1>2, <1>3, <1>4, <1>5, PTL DEF Spec, FetchesGoOn
=============================================================================
