----------------------- MODULE EB300SessionProofs -----------------------
(***************************************************************************)
(* What holds of a session with the thermostat for any number of callers,  *)
(* batches of any size, any threshold of the counter, and any number of    *)
(* connections and notifications on their way.                             *)
(***************************************************************************)
EXTENDS EB300Session, SequenceTheorems, TLAPS

-----------------------------------------------------------------------------
(* Sequences as sets.                                                      *)

\* An empty queue holds nothing.
LEMMA EmptyElements == ToSet(<<>>) = {}
  BY DEF ToSet

\* Taking the head off a queue.
LEMMA TailElements ==
  ASSUME NEW S, NEW s \in Seq(S), s # <<>>
  PROVE  /\ Tail(s) \in Seq(S) /\ Head(s) \in S
         /\ Head(s) \in ToSet(s)
         /\ ToSet(Tail(s)) \subseteq ToSet(s)
<1>1. Len(s) \in Nat \ {0} /\ DOMAIN s = 1..Len(s)
  BY EmptySeq, LenProperties
<1>2. Head(s) = s[1] /\ 1 \in DOMAIN s
  BY <1>1
<1>3. DOMAIN Tail(s) = 1..(Len(s) - 1) /\ \A i \in DOMAIN Tail(s) : Tail(s)[i] = s[i + 1]
  BY <1>1, HeadTailProperties, LenProperties
<1> QED
  BY <1>1, <1>2, <1>3, HeadTailProperties DEF ToSet

\* Appending to a queue.
LEMMA AppendElements ==
  ASSUME NEW S, NEW s \in Seq(S), NEW e \in S
  PROVE  Append(s, e) \in Seq(S) /\ ToSet(Append(s, e)) = ToSet(s) \cup {e}
<1>1. DOMAIN s = 1..Len(s) /\ Len(s) \in Nat /\ DOMAIN Append(s, e) = 1..(Len(s) + 1)
  BY LenProperties, AppendProperties
<1>2. \A i \in 1..Len(s) : Append(s, e)[i] = s[i]
  BY AppendProperties
<1>3. Append(s, e)[Len(s) + 1] = e
  BY AppendProperties
<1> QED
  BY <1>1, <1>2, <1>3, AppendProperties DEF ToSet

\* No two of the frames share a counter.
Apart(s) ==
    \A i, j \in DOMAIN s : i # j => ToSet(s[i].counters) \cap ToSet(s[j].counters) = {}

\* Taking the first frame of a queue of frames without a counter in common leaves such a
\* queue, and none of its frames has a counter of the one taken.
LEMMA TailApart ==
  ASSUME NEW S, NEW s \in Seq(S), s # <<>>, Apart(s)
  PROVE  /\ Apart(Tail(s))
         /\ \A f \in ToSet(Tail(s)) : ToSet(Head(s).counters) \cap ToSet(f.counters) = {}
<1>1. Len(s) \in Nat \ {0} /\ DOMAIN s = 1..Len(s)
  BY EmptySeq, LenProperties
<1>2. Head(s) = s[1] /\ 1 \in DOMAIN s
  BY <1>1
<1>3. DOMAIN Tail(s) = 1..(Len(s) - 1) /\ \A i \in DOMAIN Tail(s) : Tail(s)[i] = s[i + 1]
  BY <1>1, HeadTailProperties, LenProperties
<1>4. \A i \in DOMAIN Tail(s) : i + 1 \in DOMAIN s /\ i + 1 # 1
  BY <1>1, <1>3
<1>5. ASSUME NEW i \in DOMAIN Tail(s), NEW j \in DOMAIN Tail(s), i # j
      PROVE  ToSet(Tail(s)[i].counters) \cap ToSet(Tail(s)[j].counters) = {}
  <2>1. i + 1 # j + 1
    BY <1>1, <1>3, <1>5
  <2> QED
    BY <2>1, <1>3, <1>4 DEF Apart
<1>6. ASSUME NEW i \in DOMAIN Tail(s)
      PROVE  ToSet(Head(s).counters) \cap ToSet(Tail(s)[i].counters) = {}
  BY <1>2, <1>3, <1>4 DEF Apart
<1>7. ToSet(Tail(s)) = {Tail(s)[i] : i \in DOMAIN Tail(s)}
  BY DEF ToSet
<1> QED
  BY <1>5, <1>6, <1>7 DEF Apart

\* Adding a frame with counters of its own keeps a queue's frames apart.
LEMMA AppendApart ==
  ASSUME NEW S, NEW s \in Seq(S), NEW e \in S, Apart(s),
         \A f \in ToSet(s) : ToSet(e.counters) \cap ToSet(f.counters) = {}
  PROVE  Apart(Append(s, e))
<1>1. DOMAIN s = 1..Len(s) /\ Len(s) \in Nat /\ DOMAIN Append(s, e) = 1..(Len(s) + 1)
  BY LenProperties, AppendProperties
<1>2. \A i \in 1..Len(s) : Append(s, e)[i] = s[i] /\ s[i] \in ToSet(s)
  BY <1>1, AppendProperties DEF ToSet
<1>3. Append(s, e)[Len(s) + 1] = e
  BY AppendProperties
<1>4. ASSUME NEW i \in 1..(Len(s) + 1), NEW j \in 1..(Len(s) + 1), i # j
      PROVE  ToSet(Append(s, e)[i].counters) \cap ToSet(Append(s, e)[j].counters) = {}
  <2>1. CASE i \in 1..Len(s) /\ j \in 1..Len(s)
    BY <2>1, <1>1, <1>2, <1>4 DEF Apart
  <2>2. CASE i = Len(s) + 1 /\ j \in 1..Len(s)
    <3>1. Append(s, e)[i] = e /\ Append(s, e)[j] \in ToSet(s)
      BY <2>2, <1>2, <1>3
    <3> QED
      BY <3>1
  <2>3. CASE j = Len(s) + 1 /\ i \in 1..Len(s)
    <3>1. Append(s, e)[j] = e /\ Append(s, e)[i] \in ToSet(s)
      BY <2>3, <1>2, <1>3
    <3> QED
      BY <3>1
  <2>4. i \in 1..Len(s) \/ i = Len(s) + 1
    BY <1>1
  <2>5. j \in 1..Len(s) \/ j = Len(s) + 1
    BY <1>1
  <2> QED
    BY <2>1, <2>2, <2>3, <2>4, <2>5, <1>4
<1> QED
  BY <1>1, <1>4 DEF Apart

\* The counters a call draws.
Drawn(k) == [i \in 1..k |-> counter + i - 1]

\* A batch of k GETs draws the next k counters.
LEMMA DrawnElements ==
  ASSUME counter \in 1..Threshold, NEW k \in 1..MaxBatch, counter + k <= Threshold
  PROVE  /\ Drawn(k) \in Seq(Counters) /\ Len(Drawn(k)) = k /\ Drawn(k) # <<>>
         /\ ToSet(Drawn(k)) = counter..(counter + k - 1)
         /\ ToSet(Drawn(k)) \subseteq Counters
<1>1. k \in Nat \ {0} /\ counter \in Nat /\ Threshold \in Nat
  BY MaxBatchAssumption, ThresholdAssumption
<1>2. \A i \in 1..k : Drawn(k)[i] = counter + i - 1 /\ Drawn(k)[i] \in Counters
  BY <1>1 DEF Drawn, Counters
<1>3. Drawn(k) \in Seq(Counters) /\ Len(Drawn(k)) = k
  BY <1>1, <1>2, IsASeq DEF Drawn
<1>4. DOMAIN Drawn(k) = 1..k
  BY DEF Drawn
<1>5. Drawn(k) # <<>>
  BY <1>1, <1>3, EmptySeq
<1>6. ToSet(Drawn(k)) = {Drawn(k)[i] : i \in 1..k}
  BY <1>4 DEF ToSet
<1>7. ASSUME NEW n \in counter..(counter + k - 1) PROVE n \in ToSet(Drawn(k))
  <2>1. n - counter + 1 \in 1..k /\ counter + (n - counter + 1) - 1 = n
    BY <1>1
  <2> QED
    BY <2>1, <1>2, <1>6
<1>8. ASSUME NEW n \in ToSet(Drawn(k)) PROVE n \in counter..(counter + k - 1)
  <2>1. PICK i \in 1..k : n = Drawn(k)[i]
    BY <1>6
  <2> QED
    BY <2>1, <1>1, <1>2
<1>9. counter..(counter + k - 1) \subseteq Counters
  BY <1>1 DEF Counters
<1> QED
  BY <1>3, <1>5, <1>7, <1>8, <1>9

-----------------------------------------------------------------------------
(* The inductive invariant.                                                *)

HandshakeMessages == {"serverNonce", "serverHmac", "badHmac", "error", "odd"}
Unanswered == {"none", "pending", "refused", "cancelled"}

Frame == [kind : {"nonce", "hmac", "data"}, key : 0..MaxSessions,
          who : Callers \cup {"handshake"}, counters : Seq(Counters)]
Answer == [counter : Counters, who : Callers \cup {"device"}, ok : BOOLEAN]
Message == [kind : HandshakeMessages]
           \cup [kind : {"data", "push"}, key : 0..MaxSessions, answers : SUBSET Answer]
CallRecord == [at : {"idle", "writing", "waiting"}, counters : Seq(Counters),
               next : Nat, result : {"none", "ok", "failed"}]

Frames == ToSet(toDevice)
Messages == ToSet(toClient)
Asked(c) == ToSet(call[c].counters)

\* TypeOK, with the types of what TLC's run leaves to the actions.
SessionTypes ==
    /\ TypeOK
    /\ epoch \in 0..MaxSessions /\ deviceKey \in 0..MaxSessions
    /\ future \in [Counters -> Unanswered \cup Callers]
    /\ call \in [Callers -> CallRecord]
    /\ processed \subseteq Callers \X Counters
    /\ toDevice \in Seq(Frame) /\ toClient \in Seq(Message)

\* A session key is the device's, and there is none before the handshake is done.
KeyInv ==
    /\ deviceKey <= epoch
    /\ sessionKey # 0 => sessionKey = epoch /\ deviceKey = epoch /\ psk = "same"
    /\ phase \in Handshaking \cup {"failed", "closed"} => sessionKey = 0
    /\ phase = "closed" => ~linkUp /\ toClient = <<>> /\ toDevice = <<>>

\* The device's verdict on the key is what the client is told of it.
VerdictInv ==
    /\ \A k \in {handshakeFuture} \cup {m.kind : m \in Messages} :
          /\ k = "serverHmac" => psk = "same" /\ deviceKey = epoch
          /\ k \in {"error", "badHmac"} => psk # "same"
    /\ VerdictSound

\* Before there is a session nothing of one is under way.
BeforeInv ==
    /\ phase # "closed" /\ sessionKey = 0 => \A c \in Callers : ~Busy(c)
    /\ sessionKey = 0 /\ deviceKey = epoch /\ phase \in Handshaking => processed = {}
    /\ \A f \in Frames : f.kind # "data" =>
          sessionKey = 0 /\ phase # "closed" /\ f.counters = <<>>

CallInv ==
    \A c \in Callers :
       /\ Busy(c) => call[c].result = "none" /\ call[c].counters # <<>>
       /\ ~Busy(c) => call[c].counters = <<>>
       /\ call[c].at = "waiting" =>
            /\ call[c].next \in 1..Len(call[c].counters)
            /\ \A i \in 1..(call[c].next - 1) : future[call[c].counters[i]] \in Callers

\* What is on its way belongs to the session, and whatever has a counter of it has
\* one that was drawn.
FlightInv ==
    /\ \A f \in Frames : f.kind = "data" =>
         /\ sessionKey # 0 /\ f.key = sessionKey /\ f.who \in Callers
         /\ \A n \in ToSet(f.counters) : n < counter /\ n \notin Seen
    /\ \A m \in Messages : m.kind = "data" =>
         /\ sessionKey # 0 /\ m.key = sessionKey
         /\ \A a \in m.answers : /\ a.who \in Callers /\ a.counter < counter
                                 /\ a.ok => <<a.who, a.counter>> \in processed
    /\ Apart(toDevice)

DrawnInv ==
    sessionKey # 0 =>
       /\ \A n \in Seen : n < counter
       /\ \A c \in Callers : \A n \in Asked(c) : n < counter

\* A counter of a call under way is that call's alone: in frames, in answers, in the
\* futures, and among the calls.
OwnerInv ==
    \A c \in Callers :
      /\ \A d \in Callers : c # d => Asked(c) \cap Asked(d) = {}
      /\ \A f \in Frames : f.kind = "data" =>
           /\ f.who # c => ToSet(f.counters) \cap Asked(c) = {}
           /\ f.who = c => ToSet(f.counters) \cap Asked(c) \in {{}, Asked(c)}
      /\ \A m \in Messages : m.kind = "data" =>
           \A a \in m.answers : a.counter \in Asked(c) => a.who = c

FutureInv ==
    \A c \in Callers : \A n \in Asked(c) :
       /\ future[n] # "none"
       /\ future[n] \in Callers => future[n] = c /\ <<c, n>> \in processed
       /\ future[n] = "pending" => n \in pending /\ sessionKey # 0

SessionInv ==
    /\ SessionTypes /\ KeyInv /\ VerdictInv /\ BeforeInv /\ CallInv
    /\ FlightInv /\ DrawnInv /\ OwnerInv /\ FutureInv

-----------------------------------------------------------------------------
(* What the steps do to the calls and the queues.                          *)

\* The frame taken from the queue to the device was in it; the rest stays.
LEMMA TakenFromDevice ==
  ASSUME SessionTypes, toDevice # <<>>, toDevice' = Tail(toDevice)
  PROVE  /\ Head(toDevice) \in Frame /\ Head(toDevice) \in Frames
         /\ toDevice' \in Seq(Frame) /\ Frames' \subseteq Frames
  BY TailElements DEF SessionTypes, Frames

\* A frame put to the queue to the device is in it, beside what was there.
LEMMA PutToDevice ==
  ASSUME SessionTypes, NEW f \in Frame, toDevice' = Append(toDevice, f)
  PROVE  toDevice' \in Seq(Frame) /\ Frames' = Frames \cup {f}
  BY AppendElements DEF SessionTypes, Frames

\* The queue to the device, when the link is lost.
LEMMA DeviceQueueEmptied ==
  ASSUME toDevice' = <<>>
  PROVE  toDevice' \in Seq(Frame) /\ Frames' = {} /\ Apart(toDevice)'
  BY EmptyElements DEF Frames, Apart

\* The same of the queue to the client: a message is taken ...
LEMMA TakenFromClient ==
  ASSUME SessionTypes, toClient # <<>>, toClient' = Tail(toClient)
  PROVE  /\ Head(toClient) \in Message /\ Head(toClient) \in Messages
         /\ toClient' \in Seq(Message) /\ Messages' \subseteq Messages
  BY TailElements DEF SessionTypes, Messages

\* ... is put ...
LEMMA PutToClient ==
  ASSUME SessionTypes, NEW m \in Message, toClient' = Append(toClient, m)
  PROVE  toClient' \in Seq(Message) /\ Messages' = Messages \cup {m}
  BY AppendElements DEF SessionTypes, Messages

\* ... or the link is lost.
LEMMA ClientQueueEmptied ==
  ASSUME toClient' = <<>>
  PROVE  toClient' \in Seq(Message) /\ Messages' = {}
  BY EmptyElements, EmptySeq DEF Messages

\* connect() writes the first frame on a fresh link.
LEMMA ConnectFrames ==
  ASSUME SessionTypes, KeyInv, Connect
  PROVE  /\ toDevice' \in Seq(Frame) /\ Apart(toDevice)'
         /\ Frames' = {Handshake("nonce")} /\ Messages' = {}
<1>1. Handshake("nonce") \in Frame
  BY MaxSessionsAssumption DEF Handshake, Frame
<1>2. toDevice' = <<Handshake("nonce")>> /\ toClient' = <<>>
  BY DEF Connect, KeyInv
<1>3. Frames' = {Handshake("nonce")}
  BY <1>2 DEF Frames, ToSet
<1>4. Apart(toDevice)'
  BY <1>2 DEF Apart
<1> QED
  BY <1>1, <1>2, <1>3, <1>4, ClientQueueEmptied

\* ... and the handshake the third, when the device has the first.
LEMMA HmacFrames ==
  ASSUME SessionTypes, toDevice = <<>>, toDevice' = Append(toDevice, Handshake("hmac"))
  PROVE  /\ toDevice' \in Seq(Frame) /\ Apart(toDevice)'
         /\ Frames' = {Handshake("hmac")}
<1>1. Handshake("hmac") \in Frame
  BY MaxSessionsAssumption DEF Handshake, Frame
<1>2. Apart(toDevice)'
  BY <1>1 DEF Apart
<1> QED
  BY <1>1, <1>2, PutToDevice, EmptyElements DEF Frames

\* A call begins: its counters are new.
LEMMA StartCallEffect ==
  ASSUME SessionTypes, NEW c \in Callers, NEW k \in 1..MaxBatch, StartCall(c, k)
  PROVE  LET new == counter..(counter + k - 1)
             f == [kind |-> "data", key |-> sessionKey, who |-> c, counters |-> Drawn(k)]
         IN  /\ call' \in [Callers -> CallRecord]
             /\ \A d \in Callers \ {c} : call'[d] = call[d]
             /\ call'[c].at = "writing" /\ call'[c].counters = Drawn(k)
             /\ call'[c].next = 1 /\ call'[c].result = "none"
             /\ ToSet(Drawn(k)) = new /\ new \subseteq Counters /\ Drawn(k) # <<>>
             /\ Drawn(k) \in Seq(Counters) /\ Len(Drawn(k)) = k /\ k \in Nat \ {0}
             /\ counter' = counter + k /\ counter' \in 1..Threshold
             /\ pending' = pending \cup new
             /\ future' = [n \in Counters |-> IF n \in new THEN "pending" ELSE future[n]]
             /\ f \in Frame /\ toDevice' \in {toDevice, Append(toDevice, f)}
<1>1. counter + k <= Threshold /\ counter \in 1..Threshold
  BY DEF StartCall, SessionTypes, TypeOK
<1>2. k \in Nat \ {0} /\ Threshold \in Nat
  BY MaxBatchAssumption, ThresholdAssumption
<1>3. counter + k \in 1..Threshold
  BY <1>1, <1>2
<1>4. [kind |-> "data", key |-> sessionKey, who |-> c, counters |-> Drawn(k)] \in Frame
  BY <1>1, DrawnElements DEF SessionTypes, TypeOK, Frame
<1>5. /\ call' = [call EXCEPT ![c] = [at |-> "writing", counters |-> Drawn(k),
                                      next |-> 1, result |-> "none"]]
      /\ counter' = counter + k
      /\ pending' = pending \cup ToSet(Drawn(k))
      /\ future' = [n \in Counters |-> IF n \in ToSet(Drawn(k)) THEN "pending"
                                       ELSE future[n]]
      /\ \/ toDevice' = toDevice
         \/ toDevice' = Append(toDevice, [kind |-> "data", key |-> sessionKey,
                                          who |-> c, counters |-> Drawn(k)])
  BY DEF StartCall, Drawn
<1>6. [at |-> "writing", counters |-> Drawn(k), next |-> 1, result |-> "none"]
          \in CallRecord
  BY <1>1, DrawnElements DEF CallRecord
<1>7. /\ call' \in [Callers -> CallRecord]
      /\ \A d \in Callers \ {c} : call'[d] = call[d]
      /\ call'[c].at = "writing" /\ call'[c].counters = Drawn(k)
      /\ call'[c].next = 1 /\ call'[c].result = "none"
  BY <1>5, <1>6 DEF SessionTypes
<1> QED
  BY <1>1, <1>2, <1>3, <1>4, <1>5, <1>7, DrawnElements

\* A call that ends has no counters any more; the other calls are as they were.
LEMMA EndsEffect ==
  ASSUME SessionTypes, NEW c \in Callers, NEW result \in {"ok", "failed"},
         Ends(c, result)
  PROVE  /\ call' \in [Callers -> CallRecord]
         /\ \A d \in Callers \ {c} : call'[d] = call[d]
         /\ call'[c].at = "idle" /\ call'[c].counters = <<>> /\ call'[c].next = 1
         /\ call'[c].result = result
<1>1. [Idle EXCEPT !.result = result] =
          [at |-> "idle", counters |-> <<>>, next |-> 1, result |-> result]
  BY DEF Idle
<1>2. [at |-> "idle", counters |-> <<>>, next |-> 1, result |-> result] \in CallRecord
  BY EmptySeq DEF CallRecord
<1>3. call' = [call EXCEPT ![c] = [at |-> "idle", counters |-> <<>>, next |-> 1,
                                   result |-> result]]
  BY <1>1 DEF Ends
<1> QED
  BY <1>2, <1>3 DEF SessionTypes

GoesWaiting(c, j) == call' = [call EXCEPT ![c].at = "waiting", ![c].next = j]

\* The task of c waits for its j-th answer.
Waits(c, j) ==
    /\ call' \in [Callers -> CallRecord]
    /\ \A d \in Callers \ {c} : call'[d] = call[d]
    /\ call'[c].at = "waiting" /\ call'[c].next = j
    /\ call'[c].counters = call[c].counters /\ call'[c].result = call[c].result

\* What GoesWaiting does to a caller's record, field by field.
LEMMA WaitsEffect ==
  ASSUME SessionTypes, NEW c \in Callers, NEW j \in Nat, GoesWaiting(c, j)
  PROVE  Waits(c, j)
<1>1. \A d \in Callers \ {c} : call'[d] = call[d]
  BY DEF SessionTypes, GoesWaiting
<1>2. /\ call'[c].at = "waiting" /\ call'[c].next = j
      /\ call'[c].counters = call[c].counters /\ call'[c].result = call[c].result
  BY DEF SessionTypes, CallRecord, GoesWaiting
<1>3. call'[c] \in CallRecord
  BY DEF SessionTypes, CallRecord, GoesWaiting
<1>4. call' \in [Callers -> CallRecord]
  BY <1>1, <1>3 DEF SessionTypes, GoesWaiting
<1> QED
  BY <1>1, <1>2, <1>4 DEF Waits

\* A caller that takes its answers ends well with all of them, or badly, or waits for
\* the next one.
LEMMA ConsumeEffect ==
  ASSUME SessionTypes, NEW c \in Callers, NEW i \in 1..(Len(call[c].counters) + 1),
         \A m \in 1..(i - 1) : future[call[c].counters[m]] \in Callers,
         Consume(c, i)
  PROVE  \/ /\ Ends(c, "ok")
            /\ \A m \in 1..Len(call[c].counters) : future[call[c].counters[m]] \in Callers
         \/ Ends(c, "failed")
         \/ \E j \in 1..Len(call[c].counters) :
               /\ Waits(c, j)
               /\ \A m \in 1..(j - 1) : future[call[c].counters[m]] \in Callers
<1>1. Len(call[c].counters) \in Nat /\ call[c] \in CallRecord
  BY LenProperties DEF SessionTypes, CallRecord
<1>2. CASE /\ \A m \in i..Len(call[c].counters) : future[call[c].counters[m]] \in Callers
           /\ Ends(c, "ok")
  BY <1>1, <1>2
<1>3. CASE Ends(c, "failed")
  BY <1>3
<1>4. ASSUME NEW j \in i..Len(call[c].counters),
             \A m \in i..(j - 1) : future[call[c].counters[m]] \in Callers,
             GoesWaiting(c, j)
      PROVE  /\ j \in 1..Len(call[c].counters)
             /\ Waits(c, j)
             /\ \A m \in 1..(j - 1) : future[call[c].counters[m]] \in Callers
  <2>1. j \in 1..Len(call[c].counters)
    BY <1>1
  <2>2. \A m \in 1..(j - 1) : m \in 1..(i - 1) \/ m \in i..(j - 1)
    BY <1>1
  <2>3. Waits(c, j)
    BY <1>1, <1>4, <2>1, WaitsEffect
  <2> QED
    BY <1>4, <2>1, <2>2, <2>3
<1> QED
  BY <1>1, <1>2, <1>3, <1>4 DEF Consume, GoesWaiting

\* A call that is under way goes on or ends: nothing else changes, but for a counter of
\* its own in _pending.
Moves(c) ==
    WriteReturns(c) \/ WriteRaises(c) \/ CallResumes(c) \/ RequestTimesOut(c) \/ WaitCancelled(c)

AllAnswered(c) ==
    \A i \in 1..Len(call[c].counters) : future[call[c].counters[i]] \in Callers

\* A caller that moves on has failed, which leaves no future of its own pending, or has all
\* its answers, or waits for the next after all before it are there; the rest of the
\* session stays as it is.
LEMMA MovesEffect ==
  ASSUME SessionTypes, CallInv, NEW c \in Callers, Moves(c)
  PROVE  /\ Busy(c)
         /\ UNCHANGED <<phase, handshakeFuture, sessionKey, counter, future, verdict, linkUp,
                        toDevice, toClient, deviceVars, epoch>>
         /\ \/ /\ Ends(c, "failed")
               /\ pending' \subseteq pending /\ pending \ pending' \subseteq Asked(c)
            \/ Ends(c, "ok") /\ AllAnswered(c) /\ UNCHANGED pending
            \/ \E j \in 1..Len(call[c].counters) :
                  /\ Waits(c, j) /\ UNCHANGED pending
                  /\ \A i \in 1..(j - 1) : future[call[c].counters[i]] \in Callers
<1>0. Len(call[c].counters) \in Nat /\ DOMAIN call[c].counters = 1..Len(call[c].counters)
  BY LenProperties DEF SessionTypes, CallRecord
<1>1. CASE WriteRaises(c) \/ WaitCancelled(c)
  BY <1>1 DEF WriteRaises, WaitCancelled, Busy
<1>2. CASE RequestTimesOut(c)
  <2>1. call[c].at = "waiting" /\ call[c].next \in 1..Len(call[c].counters)
    BY <1>2 DEF RequestTimesOut, CallInv
  <2>2. call[c].counters[call[c].next] \in Asked(c)
    BY <2>1, <1>0 DEF Asked, ToSet
  <2> QED
    BY <1>2, <2>1, <2>2 DEF RequestTimesOut, Busy
<1>3. CASE WriteReturns(c)
  <2>1. 1 \in 1..(Len(call[c].counters) + 1) /\ 1..(1 - 1) = {}
    BY <1>0
  <2>2. Consume(c, 1) /\ UNCHANGED pending
    BY <1>3 DEF WriteReturns
  <2> QED
    BY <1>3, <2>1, <2>2, ConsumeEffect DEF WriteReturns, Busy, AllAnswered
<1>4. CASE CallResumes(c)
  <2>1. call[c].at = "waiting" /\ Consume(c, call[c].next) /\ UNCHANGED pending
    BY <1>4 DEF CallResumes
  <2>2. /\ call[c].next \in 1..(Len(call[c].counters) + 1)
        /\ \A m \in 1..(call[c].next - 1) : future[call[c].counters[m]] \in Callers
    BY <2>1, <1>0 DEF CallInv
  <2> QED
    BY <1>4, <2>1, <2>2, ConsumeEffect DEF CallResumes, Busy, AllAnswered
<1> QED
  BY <1>1, <1>2, <1>3, <1>4 DEF Moves

\* The same, for the sets of counters.
LEMMA MovesAsked ==
  ASSUME SessionTypes, CallInv, NEW c \in Callers, Moves(c)
  PROVE  /\ call' \in [Callers -> CallRecord]
         /\ \A d \in Callers \ {c} : call'[d] = call[d] /\ Asked(d)' = Asked(d)
         /\ \/ Asked(c)' = {} /\ ~Busy(c)'
            \/ Asked(c)' = Asked(c) /\ Busy(c)' /\ UNCHANGED pending
         /\ pending' \subseteq pending /\ pending \ pending' \subseteq Asked(c)
<1>1. CASE Ends(c, "failed") \/ Ends(c, "ok")
  BY <1>1, EndsEffect, MovesEffect, EmptyElements DEF Asked, Busy
<1>2. ASSUME NEW j \in 1..Len(call[c].counters), Waits(c, j), UNCHANGED pending
      PROVE  /\ call' \in [Callers -> CallRecord]
             /\ \A d \in Callers \ {c} : call'[d] = call[d] /\ Asked(d)' = Asked(d)
             /\ Asked(c)' = Asked(c) /\ Busy(c)'
  BY <1>2 DEF Waits, Asked, Busy
<1> QED
  BY <1>1, <1>2, MovesEffect

\* A call that begins, for the sets of counters and of frames.
LEMMA StartCallSets ==
  ASSUME SessionTypes, NEW c \in Callers, NEW k \in 1..MaxBatch, StartCall(c, k)
  PROVE  LET new == counter..(counter + k - 1)
         IN  /\ \A d \in Callers \ {c} : call'[d] = call[d] /\ Asked(d)' = Asked(d)
             /\ Asked(c)' = new /\ Busy(c)' /\ ~Busy(c)
             /\ \E f \in Frame :
                   /\ f.kind = "data" /\ f.key = sessionKey /\ f.who = c
                   /\ ToSet(f.counters) = new
                   /\ \/ UNCHANGED toDevice
                      \/ toDevice' = Append(toDevice, f) /\ Frames' = Frames \cup {f}
<1> DEFINE f == [kind |-> "data", key |-> sessionKey, who |-> c, counters |-> Drawn(k)]
<1>1. /\ \A d \in Callers \ {c} : call'[d] = call[d]
      /\ call'[c].at = "writing" /\ call'[c].counters = Drawn(k)
      /\ ToSet(Drawn(k)) = counter..(counter + k - 1)
      /\ f \in Frame /\ toDevice' \in {toDevice, Append(toDevice, f)}
  BY StartCallEffect
<1>2. f.kind = "data" /\ f.key = sessionKey /\ f.who = c /\ f.counters = Drawn(k)
  OBVIOUS
<1>3. ~Busy(c)
  BY DEF StartCall
<1>4. /\ \A d \in Callers \ {c} : Asked(d)' = Asked(d)
      /\ Asked(c)' = counter..(counter + k - 1) /\ Busy(c)'
  BY <1>1 DEF Asked, Busy
<1> HIDE DEF f
<1> QED
  BY <1>1, <1>2, <1>3, <1>4, PutToDevice

\* Counters are numbers, wherever they are.
LEMMA CounterTypes ==
  ASSUME SessionTypes
  PROVE  /\ Counters \subseteq Nat /\ counter \in Nat /\ Seen \subseteq Counters
         /\ \A c \in Callers : Asked(c) \subseteq Counters
         /\ \A f \in Frames : f \in Frame /\ ToSet(f.counters) \subseteq Counters
         /\ \A m \in Messages : m.kind = "data" => m.answers \subseteq Answer
<1>1. \A s \in Seq(Counters) : ToSet(s) \subseteq Counters
  BY DEF ToSet
<1>2. \A c \in Callers : call[c].counters \in Seq(Counters)
  BY DEF SessionTypes, CallRecord
<1>3. \A f \in Frames : f \in Frame
  BY DEF SessionTypes, Frames, ToSet
<1>4. \A m \in Messages : m \in Message
  BY DEF SessionTypes, Messages, ToSet
<1>5. \A m \in Messages : m.kind = "data" => m.answers \subseteq Answer
  BY <1>4 DEF Message, HandshakeMessages
<1>6. Counters \subseteq Nat /\ counter \in Nat /\ Seen \subseteq Counters
  BY DEF SessionTypes, TypeOK, Counters, Seen
<1>7. \A f \in Frame : f.counters \in Seq(Counters)
  BY DEF Frame
<1> QED
  BY <1>1, <1>2, <1>3, <1>5, <1>6, <1>7 DEF Asked

\* A call that ends where it began: no counters remain.
LEMMA RefusedEffect ==
  ASSUME SessionTypes, CallInv, NEW c \in Callers, ~Busy(c), Ends(c, "failed")
  PROVE  /\ call' \in [Callers -> CallRecord]
         /\ \A d \in Callers : Asked(d)' = Asked(d) /\ Busy(d)' = Busy(d)
         /\ \A d \in Callers \ {c} : call'[d] = call[d]
<1>1. Asked(c) = {} /\ Asked(c)' = {} /\ ~Busy(c)'
  BY EndsEffect, EmptyElements DEF CallInv, Asked, Busy
<1> QED
  BY <1>1, EndsEffect DEF Asked, Busy

\* A step that leaves the calls alone.
LEMMA CallsKept ==
  ASSUME UNCHANGED call
  PROVE  \A c \in Callers : Asked(c)' = Asked(c) /\ Busy(c)' = Busy(c)
  BY DEF Asked, Busy

\* Frames and messages of a step that leaves a queue alone.
LEMMA FramesKept == ASSUME UNCHANGED toDevice PROVE Frames' = Frames /\ Apart(toDevice)' = Apart(toDevice)
  BY DEF Frames, Apart

\* The messages are those of the queue.
LEMMA MessagesKept == ASSUME UNCHANGED toClient PROVE Messages' = Messages
  BY DEF Messages

\* What the answers of a frame do to a future.
LEMMA DispatchEffect ==
  ASSUME SessionTypes, NEW A \in SUBSET Answer, Dispatch(A), \A a \in A : a.who \in Callers
  PROVE  /\ pending' \subseteq pending
         /\ future' \in [Counters -> Unanswered \cup Callers]
         /\ \A n \in Counters :
               \/ /\ future'[n] = future[n]
                  /\ future[n] = "pending" /\ n \in pending => n \in pending'
               \/ \E a \in A : /\ a.counter = n /\ future[n] = "pending"
                               /\ future'[n] \in {a.who, "refused"}
                               /\ a.ok \/ future'[n] = "refused"
<1> DEFINE to(n) == {a \in A : a.counter = n /\ n \in pending}
<1>1. /\ pending' = pending \ {a.counter : a \in A}
      /\ future' = [n \in Counters |->
                      IF future[n] = "pending" /\ to(n) # {}
                      THEN IF (CHOOSE a \in to(n) : TRUE).ok
                           THEN (CHOOSE a \in to(n) : TRUE).who ELSE "refused"
                      ELSE future[n]]
  BY DEF Dispatch
<1>2. ASSUME NEW n \in Counters, future[n] = "pending", to(n) # {}
      PROVE  \E a \in A : /\ a.counter = n
                          /\ future'[n] \in {a.who, "refused"}
                          /\ a.ok \/ future'[n] = "refused"
  <2>1. PICK b \in to(n) : b = CHOOSE a \in to(n) : TRUE
    BY <1>2
  <2>2. future'[n] = IF b.ok THEN b.who ELSE "refused"
    BY <1>1, <1>2, <2>1
  <2>3. b \in A /\ b.counter = n
    OBVIOUS
  <2> QED
    BY <2>2, <2>3
<1>3. ASSUME NEW n \in Counters, ~(future[n] = "pending" /\ to(n) # {})
      PROVE  /\ future'[n] = future[n]
             /\ future[n] = "pending" /\ n \in pending => n \in pending'
  BY <1>1, <1>3
<1>4. \A n \in Counters : future'[n] \in Unanswered \cup Callers
  BY <1>2, <1>3 DEF SessionTypes, Unanswered
<1>5. future' \in [Counters -> Unanswered \cup Callers]
  BY <1>1, <1>4
<1> QED
  BY <1>1, <1>2, <1>3, <1>5

\* A notification reaches the handshake, or the futures, or nobody.
LEMMA DeliverEffect ==
  ASSUME SessionTypes, FlightInv, Deliver
  PROVE  /\ toClient' \in Seq(Message) /\ Messages' \subseteq Messages
         /\ UNCHANGED <<phase, sessionKey, counter, call, verdict, linkUp, toDevice,
                        deviceVars, epoch>>
         /\ \/ /\ handshakeFuture' \in {m.kind : m \in Messages}
               /\ UNCHANGED <<pending, future>>
            \/ UNCHANGED <<handshakeFuture, pending, future>>
            \/ /\ UNCHANGED handshakeFuture
               /\ \E m \in Messages : /\ m.kind = "data" /\ m.answers \in SUBSET Answer
                                      /\ Dispatch(m.answers)
                                      /\ \A a \in m.answers : a.who \in Callers
<1>1. /\ Head(toClient) \in Message /\ Head(toClient) \in Messages
      /\ toClient' \in Seq(Message) /\ Messages' \subseteq Messages
  BY TakenFromClient DEF Deliver
<1>2. ASSUME Head(toClient).kind = "data"
      PROVE  /\ Head(toClient).answers \in SUBSET Answer
             /\ \A a \in Head(toClient).answers : a.who \in Callers
  BY <1>1, <1>2 DEF FlightInv, Message, HandshakeMessages
<1> QED
  BY <1>1, <1>2 DEF Deliver

\* A push is told from an answer.
LEMMA PushEffect ==
  ASSUME SessionTypes, NEW n \in Counters, DevicePushes(n)
  PROVE  /\ toClient' \in Seq(Message)
         /\ \E m \in Message : m.kind = "push" /\ Messages' = Messages \cup {m}
<1> DEFINE a == [counter |-> n, who |-> "device", ok |-> TRUE]
           m == [kind |-> "push", key |-> deviceKey, answers |-> {a}]
<1>1. a \in Answer
  BY DEF Answer
<1>2. m \in Message /\ m.kind = "push"
  BY <1>1 DEF Message, SessionTypes
<1>3. toClient' = Append(toClient, m)
  BY DEF DevicePushes
<1> HIDE DEF m
<1> QED
  BY <1>2, <1>3, PutToClient

\* The device takes frame f and answers with m.
TakesNonce(f, m) ==
    /\ f.kind = "nonce" /\ UNCHANGED <<deviceKey, processed>>
    /\ m.kind \in {"error", "serverNonce", "odd"}
    /\ m.kind = "error" => psk # "same"

TakesHmac(f, m) ==
    /\ f.kind = "hmac"
    /\ \/ psk = "same" /\ deviceKey' = epoch /\ processed' = {} /\ m.kind = "serverHmac"
       \/ /\ psk # "same" /\ UNCHANGED <<deviceKey, processed>>
          /\ m.kind \in {"error", "badHmac", "odd"}

TakesData(f, m) ==
    /\ f.kind = "data" /\ UNCHANGED deviceKey
    /\ processed' = processed \cup {<<f.who, n>> : n \in ToSet(f.counters) \ Seen}
    /\ m.kind = "data" /\ m.key = f.key
    /\ \A a \in m.answers : /\ a.who = f.who /\ a.counter \in ToSet(f.counters)
                            /\ a.ok => a.counter \notin Seen

\* The device takes one frame and answers it with one message: to a nonce, to the HMAC or
\* to data.
LEMMA DeviceTakesEffect ==
  ASSUME SessionTypes, FlightInv, DeviceTakes
  PROVE  /\ UNCHANGED <<clientVars, linkUp, psk, adverse, epoch>>
         /\ toDevice' \in Seq(Frame) /\ Frames' \subseteq Frames /\ Apart(toDevice)'
         /\ toClient' \in Seq(Message)
         /\ \E f \in Frames, m \in Message :
               /\ f \in Frame /\ Messages' = Messages \cup {m}
               /\ \A g \in Frames' : ToSet(f.counters) \cap ToSet(g.counters) = {}
               /\ TakesNonce(f, m) \/ TakesHmac(f, m) \/ TakesData(f, m)
<1> DEFINE f == Head(toDevice)
<1>1. toDevice # <<>> /\ toDevice' = Tail(toDevice) /\ toDevice \in Seq(Frame)
  BY DEF DeviceTakes, SessionTypes
<1>2. /\ f \in Frame /\ f \in Frames /\ Apart(toDevice)'
      /\ toDevice' \in Seq(Frame) /\ Frames' \subseteq Frames
      /\ \A g \in Frames' : ToSet(f.counters) \cap ToSet(g.counters) = {}
  <2>1. Apart(Tail(toDevice)) /\ \A g \in ToSet(Tail(toDevice)) :
                                    ToSet(f.counters) \cap ToSet(g.counters) = {}
    BY <1>1, TailApart DEF FlightInv
  <2> QED
    BY <1>1, <2>1, TakenFromDevice DEF Frames, Apart
<1>3. ASSUME f.kind = "nonce", UNCHANGED <<deviceKey, processed>>,
             NEW k \in NonceAnswers, toClient' = Append(toClient, [kind |-> k])
      PROVE  \E m \in Message : toClient' = Append(toClient, m) /\ TakesNonce(f, m)
  <2>1. k \in {"error", "serverNonce", "odd"} /\ (k = "error" => psk # "same")
    <3>1. CASE adverse
      BY <3>1 DEF NonceAnswers
    <3>2. CASE ~adverse
      BY <3>2 DEF NonceAnswers
    <3> QED
      BY <3>1, <3>2
  <2>2. [kind |-> k] \in Message
    BY <2>1 DEF Message, HandshakeMessages
  <2> QED
    BY <1>3, <2>1, <2>2 DEF TakesNonce
<1>4. ASSUME f.kind = "hmac", NEW k \in HmacAnswers,
             toClient' = Append(toClient, [kind |-> k]),
             deviceKey' = IF k = "serverHmac" THEN epoch ELSE deviceKey,
             processed' = IF k = "serverHmac" THEN {} ELSE processed
      PROVE  \E m \in Message : toClient' = Append(toClient, m) /\ TakesHmac(f, m)
  <2>1. [kind |-> k] \in Message
    BY DEF Message, HandshakeMessages, HmacAnswers
  <2> QED
    BY <1>4, <2>1 DEF HmacAnswers, TakesHmac
<1>5. ASSUME f.kind = "data", UNCHANGED deviceKey,
             NEW answered \in Answered(ToSet(f.counters)),
             NEW refused \in Refused(ToSet(f.counters)),
             toClient' = Append(toClient, [kind |-> "data", key |-> f.key,
                                           answers |-> DataAnswers(f, answered, refused)]),
             processed' = processed \cup {<<f.who, n>> : n \in ToSet(f.counters) \ Seen}
      PROVE  \E m \in Message : toClient' = Append(toClient, m) /\ TakesData(f, m)
  <2>1. f.who \in Callers /\ f.key \in 0..MaxSessions /\ ToSet(f.counters) \subseteq Counters
    BY <1>2, <1>5 DEF FlightInv, Frame, ToSet
  <2>2. answered \subseteq ToSet(f.counters)
    BY DEF Answered
  <2>3. ASSUME NEW a \in DataAnswers(f, answered, refused)
        PROVE  /\ a \in Answer /\ a.who = f.who /\ a.counter \in ToSet(f.counters)
               /\ a.ok => a.counter \notin Seen
    <3>1. PICK n \in answered :
              a = [counter |-> n, who |-> f.who, ok |-> n \notin refused \cup Seen]
      BY DEF DataAnswers
    <3>2. (n \notin refused \cup Seen) \in BOOLEAN
      OBVIOUS
    <3> QED
      BY <2>1, <2>2, <3>1, <3>2 DEF Answer
  <2>4. [kind |-> "data", key |-> f.key, answers |-> DataAnswers(f, answered, refused)]
            \in Message
    BY <2>1, <2>3 DEF Message
  <2> QED
    BY <1>5, <2>3, <2>4 DEF TakesData
<1>6. \E m \in Message : /\ toClient' = Append(toClient, m)
                         /\ TakesNonce(f, m) \/ TakesHmac(f, m) \/ TakesData(f, m)
  BY <1>3, <1>4, <1>5 DEF DeviceTakes
<1> HIDE DEF f
<1> QED
  BY <1>2, <1>6, PutToClient DEF DeviceTakes

\* disconnect() leaves no future pending.
LEMMA ClosedEffect ==
  ASSUME SessionTypes, Closed
  PROVE  /\ future' \in [Counters -> Unanswered \cup Callers]
         /\ toDevice' \in Seq(Frame) /\ Frames' = {} /\ Apart(toDevice)'
         /\ toClient' \in Seq(Message) /\ Messages' = {}
         /\ \A n \in Counters :
               \/ future'[n] = future[n] /\ ~(n \in pending /\ future[n] = "pending")
               \/ future'[n] = "cancelled" /\ future[n] = "pending"
  BY DeviceQueueEmptied, ClientQueueEmptied DEF Closed, SessionTypes, Unanswered

\* What a step does to what is on its way and to the counters.  A quiet step takes away,
\* or adds no answer.
Quiet ==
    /\ UNCHANGED <<sessionKey, processed>>
    /\ counter' >= counter /\ counter' \in Nat
    /\ Frames' \subseteq Frames /\ Apart(toDevice)'
    /\ \A m \in Messages' : m.kind = "data" => m \in Messages
    /\ \A c \in Callers : Asked(c)' \in {{}, Asked(c)}

\* A clearing step leaves nothing of a session on its way, and nothing of an older one
\* for a new session.
Clearing ==
    /\ UNCHANGED processed
    /\ \A c \in Callers : Asked(c)' = Asked(c)
    /\ \A f \in Frames' : f.kind # "data"
    /\ \A m \in Messages' : m.kind # "data"
    /\ Apart(toDevice)'
    /\ sessionKey' # 0 => processed = {} /\ \A c \in Callers : Asked(c) = {}

\* For what is on its way, every step is one of four kinds: quiet, clearing, a call that
\* draws its counters, or the device taking a frame.
LEMMA StepKinds ==
  ASSUME SessionInv, Next
  PROVE  \/ Quiet \/ Clearing
         \/ \E c \in Callers, k \in 1..MaxBatch : StartCall(c, k)
         \/ DeviceTakes
<1> USE DEF SessionInv
<1>0. Apart(toDevice) /\ counter \in Nat /\ Threshold \in Nat
  BY ThresholdAssumption DEF FlightInv, SessionTypes, TypeOK
<1>1. CASE Connect
  BY <1>1, ConnectFrames, CallsKept DEF Connect, Clearing, Handshake, KeyInv, deviceVars
<1>2. CASE HandshakeResumes
  <2>1. sessionKey = 0 /\ toDevice = <<>> /\ UNCHANGED <<call, toClient, processed>>
    BY <1>2 DEF HandshakeResumes, KeyInv, deviceVars
  <2>2. \A m \in Messages' : m.kind # "data"
    BY <2>1, MessagesKept DEF FlightInv
  <2>3. /\ \A f \in Frames' : f.kind # "data"
        /\ Apart(toDevice)'
    BY <1>2, <2>1, <1>0, HmacFrames, EmptyElements
    DEF HandshakeResumes, AfterNonce, AfterHmac, Handshake, Frames
  <2>4. \A c \in Callers : Asked(c) = {}
    BY <1>2, <2>1, EmptyElements DEF HandshakeResumes, BeforeInv, CallInv, Asked
  <2>5. sessionKey' # 0 => processed = {}
    BY <1>2, <2>1 DEF HandshakeResumes, AfterNonce, AfterHmac, VerdictInv, BeforeInv
  <2> QED
    BY <2>1, <2>2, <2>3, <2>4, <2>5, CallsKept DEF Clearing
<1>3. CASE HandshakeWritten
  BY <1>3, <1>0, FramesKept, MessagesKept, CallsKept
  DEF HandshakeWritten, Quiet, deviceVars
<1>4. CASE HandshakeFails
  BY <1>4, <1>0, FramesKept, MessagesKept, CallsKept
  DEF HandshakeFails, Quiet, deviceVars
<1>5. ASSUME NEW c \in Callers, NEW k \in 1..MaxBatch, CallExhausts(c, k) PROVE Quiet
  BY <1>5, <1>0, RefusedEffect, FramesKept, MessagesKept
  DEF CallExhausts, Quiet, deviceVars, SessionTypes, TypeOK
<1>6. ASSUME NEW c \in Callers, NEW k \in 1..MaxBatch, CallOversized(c, k) PROVE Quiet
  BY <1>6, <1>0, RefusedEffect, FramesKept, MessagesKept
  DEF CallOversized, Quiet, deviceVars
<1>7. ASSUME NEW c \in Callers, Moves(c) PROVE Quiet
  <2>1. \A d \in Callers : Asked(d)' \in {{}, Asked(d)}
    BY <1>7, MovesAsked
  <2>2. UNCHANGED <<sessionKey, processed, counter, toDevice, toClient>>
    BY <1>7, MovesEffect DEF deviceVars
  <2> QED
    BY <2>1, <2>2, <1>0, FramesKept, MessagesKept DEF Quiet
<1>8. CASE Deliver
  BY <1>8, <1>0, DeliverEffect, FramesKept, CallsKept DEF Quiet, deviceVars
<1>9. CASE Disconnect \/ DisconnectReturns
  <2>1. CASE Closed
    <3>1. sessionKey' = 0 /\ UNCHANGED <<call, processed>>
      BY <2>1 DEF Closed, deviceVars
    <3> QED
      BY <2>1, <3>1, ClosedEffect, CallsKept DEF Clearing
  <2>2. CASE UNCHANGED <<sessionKey, counter, call, toDevice, toClient, processed>>
    BY <2>2, <1>0, FramesKept, MessagesKept, CallsKept DEF Quiet
  <2> QED
    BY <1>9, <2>1, <2>2 DEF Disconnect, DisconnectReturns, deviceVars
<1>10. ASSUME NEW n \in Counters, DevicePushes(n) PROVE Quiet
  BY <1>10, <1>0, PushEffect, FramesKept, CallsKept
  DEF DevicePushes, Quiet, clientVars, deviceVars
<1>11. CASE NotificationLost
  BY <1>11, <1>0, TakenFromClient, FramesKept, CallsKept
  DEF NotificationLost, Quiet, clientVars, deviceVars
<1>12. CASE LinkDrops
  BY <1>12, <1>0, DeviceQueueEmptied, MessagesKept, CallsKept
  DEF LinkDrops, Quiet, clientVars, deviceVars
<1> QED
  BY <1>1, <1>2, <1>3, <1>4, <1>5, <1>6, <1>7, <1>8, <1>9, <1>10, <1>11, <1>12
  DEF Next, ConnectSteps, CallSteps, Moves

-----------------------------------------------------------------------------
(* Steps.                                                                  *)

\* Both ends keep to the key of the epoch.
LEMMA KeyInvStep == ASSUME SessionInv, Next PROVE KeyInv'
<1> USE DEF SessionInv
<1>1. CASE Connect
  BY <1>1 DEF Connect, deviceVars, KeyInv, SessionTypes
<1>2. CASE HandshakeResumes
  BY <1>2
  DEF HandshakeResumes, AfterNonce, AfterHmac, HandshakeRaises, deviceVars, KeyInv,
      Handshaking, VerdictInv
<1>3. CASE HandshakeWritten
  BY <1>3 DEF HandshakeWritten, deviceVars, KeyInv, Handshaking
<1>4. CASE HandshakeFails
  BY <1>4 DEF HandshakeFails, HandshakeRaises, deviceVars, KeyInv
<1>5. ASSUME NEW c \in Callers, NEW k \in 1..MaxBatch, StartCall(c, k) PROVE KeyInv'
  BY <1>5 DEF StartCall, KeyInv, deviceVars
<1>6. ASSUME NEW c \in Callers, NEW k \in 1..MaxBatch, CallExhausts(c, k) PROVE KeyInv'
  BY <1>6 DEF CallExhausts, deviceVars, KeyInv
<1>7. ASSUME NEW c \in Callers, NEW k \in 1..MaxBatch, CallOversized(c, k) PROVE KeyInv'
  BY <1>7 DEF CallOversized, deviceVars, KeyInv
<1>8. ASSUME NEW c \in Callers, Moves(c) PROVE KeyInv'
  BY <1>8, MovesEffect DEF deviceVars, KeyInv
<1>9. CASE Deliver
  BY <1>9 DEF Deliver, KeyInv, deviceVars
<1>10. CASE Disconnect
  BY <1>10 DEF Disconnect, Closed, deviceVars, KeyInv, Handshaking
<1>11. CASE DisconnectReturns
  BY <1>11 DEF DisconnectReturns, Closed, deviceVars, KeyInv
<1>12. CASE DeviceTakes
  <2>1. PICK f \in Frames, m \in Message : TakesNonce(f, m) \/ TakesHmac(f, m) \/ TakesData(f, m)
    BY <1>12, DeviceTakesEffect
  <2>2. f.kind # "data" => sessionKey = 0
    BY DEF BeforeInv
  <2>3. phase # "closed" /\ UNCHANGED <<phase, sessionKey, linkUp, psk, epoch>>
    BY <1>12 DEF DeviceTakes, KeyInv, clientVars
  <2> QED
    BY <2>1, <2>2, <2>3 DEF TakesNonce, TakesHmac, TakesData, KeyInv, SessionTypes
<1>13. ASSUME NEW n \in Counters, DevicePushes(n) PROVE KeyInv'
  BY <1>13 DEF DevicePushes, KeyInv, clientVars, deviceVars
<1>14. CASE NotificationLost
  BY <1>14 DEF NotificationLost, clientVars, deviceVars, KeyInv
<1>15. CASE LinkDrops
  BY <1>15 DEF LinkDrops, clientVars, deviceVars, KeyInv
<1> QED
  BY <1>1, <1>2, <1>3, <1>4, <1>5, <1>6, <1>7, <1>8, <1>9, <1>10, <1>11, <1>12, <1>13,
     <1>14, <1>15
  DEF Next, ConnectSteps, CallSteps, Moves


\* What the client is told of the key stays true of it.
LEMMA VerdictInvStep == ASSUME SessionInv, Next PROVE VerdictInv'
<1> USE DEF SessionInv
<1>1. CASE Connect
  BY <1>1, ConnectFrames DEF Connect, VerdictInv, VerdictSound
<1>2. CASE HandshakeResumes
  BY <1>2, MessagesKept
  DEF HandshakeResumes, AfterNonce, AfterHmac, HandshakeRaises, deviceVars, VerdictInv,
      VerdictSound
<1>3. CASE HandshakeWritten
  BY <1>3, MessagesKept DEF HandshakeWritten, deviceVars, VerdictInv, VerdictSound
<1>4. CASE HandshakeFails
  BY <1>4, MessagesKept
  DEF HandshakeFails, HandshakeRaises, deviceVars, VerdictInv, VerdictSound
<1>5. ASSUME NEW c \in Callers, NEW k \in 1..MaxBatch, StartCall(c, k) PROVE VerdictInv'
  BY <1>5, MessagesKept DEF StartCall, VerdictInv, VerdictSound, deviceVars
<1>6. ASSUME NEW c \in Callers, NEW k \in 1..MaxBatch, CallExhausts(c, k) PROVE VerdictInv'
  BY <1>6, MessagesKept DEF CallExhausts, deviceVars, VerdictInv, VerdictSound
<1>7. ASSUME NEW c \in Callers, NEW k \in 1..MaxBatch, CallOversized(c, k) PROVE VerdictInv'
  BY <1>7, MessagesKept DEF CallOversized, deviceVars, VerdictInv, VerdictSound
<1>8. ASSUME NEW c \in Callers, Moves(c) PROVE VerdictInv'
  BY <1>8, MovesEffect, MessagesKept
  DEF deviceVars, VerdictInv, VerdictSound, SessionTypes, TypeOK
<1>9. CASE Deliver
  BY <1>9, DeliverEffect DEF deviceVars, VerdictInv, VerdictSound, SessionTypes, TypeOK
<1>10. CASE Disconnect
  BY <1>10, ClosedEffect, MessagesKept
  DEF Disconnect, Closed, deviceVars, VerdictInv, VerdictSound
<1>11. CASE DisconnectReturns
  BY <1>11, ClosedEffect
  DEF DisconnectReturns, Closed, deviceVars, VerdictInv, VerdictSound
<1>12. CASE DeviceTakes
  BY <1>12, DeviceTakesEffect
  DEF TakesNonce, TakesHmac, TakesData, clientVars, VerdictInv, VerdictSound
<1>13. ASSUME NEW n \in Counters, DevicePushes(n) PROVE VerdictInv'
  BY <1>13, PushEffect
  DEF DevicePushes, clientVars, deviceVars, VerdictInv, VerdictSound
<1>14. CASE NotificationLost
  BY <1>14, TakenFromClient
  DEF NotificationLost, clientVars, deviceVars, VerdictInv, VerdictSound
<1>15. CASE LinkDrops
  BY <1>15, MessagesKept DEF LinkDrops, clientVars, deviceVars, VerdictInv, VerdictSound
<1> QED
  BY <1>1, <1>2, <1>3, <1>4, <1>5, <1>6, <1>7, <1>8, <1>9, <1>10, <1>11, <1>12, <1>13,
     <1>14, <1>15
  DEF Next, ConnectSteps, CallSteps, Moves


\* The counters drawn stay below the next one to draw.
LEMMA BeforeInvStep == ASSUME SessionInv, Next PROVE BeforeInv'
<1> USE DEF SessionInv
<1>1. CASE Connect
  BY <1>1, ConnectFrames
  DEF Connect, Handshake, deviceVars, BeforeInv, KeyInv, Busy, SessionTypes
<1>2. CASE HandshakeResumes
  BY <1>2, HmacFrames, EmptyElements, CallsKept
  DEF HandshakeResumes, AfterNonce, AfterHmac, Handshake, deviceVars, BeforeInv, KeyInv,
      Frames
<1>3. CASE HandshakeWritten
  BY <1>3, FramesKept, CallsKept
  DEF HandshakeWritten, deviceVars, BeforeInv, Handshaking
<1>4. CASE HandshakeFails
  BY <1>4, FramesKept, CallsKept
  DEF HandshakeFails, HandshakeRaises, BeforeInv, Handshaking
<1>5. ASSUME NEW c \in Callers, NEW k \in 1..MaxBatch, StartCall(c, k) PROVE BeforeInv'
  <2>1. \A f \in Frames' : f \in Frames \/ f.kind = "data"
    BY <1>5, StartCallSets, FramesKept
  <2> QED
    BY <1>5, <2>1 DEF StartCall, BeforeInv, deviceVars
<1>6. ASSUME NEW c \in Callers, NEW k \in 1..MaxBatch, CallExhausts(c, k) PROVE BeforeInv'
  BY <1>6, FramesKept DEF CallExhausts, BeforeInv
<1>7. ASSUME NEW c \in Callers, NEW k \in 1..MaxBatch, CallOversized(c, k) PROVE BeforeInv'
  BY <1>7, FramesKept DEF CallOversized, BeforeInv
<1>8. ASSUME NEW c \in Callers, Moves(c) PROVE BeforeInv'
  BY <1>8, MovesEffect, FramesKept DEF deviceVars, BeforeInv
<1>9. CASE Deliver
  BY <1>9, DeliverEffect, FramesKept, CallsKept DEF deviceVars, BeforeInv
<1>10. CASE Disconnect
  BY <1>10, ClosedEffect, FramesKept, CallsKept
  DEF Disconnect, Closed, BeforeInv, Handshaking
<1>11. CASE DisconnectReturns
  BY <1>11, ClosedEffect DEF DisconnectReturns, Closed, BeforeInv, Handshaking
<1>12. CASE DeviceTakes
  BY <1>12, DeviceTakesEffect, CallsKept
  DEF TakesNonce, TakesHmac, TakesData, clientVars, BeforeInv, FlightInv
<1>13. ASSUME NEW n \in Counters, DevicePushes(n) PROVE BeforeInv'
  BY <1>13, FramesKept, CallsKept DEF DevicePushes, clientVars, deviceVars, BeforeInv
<1>14. CASE NotificationLost
  BY <1>14, FramesKept, CallsKept
  DEF NotificationLost, clientVars, deviceVars, BeforeInv
<1>15. CASE LinkDrops
  BY <1>15, DeviceQueueEmptied, CallsKept
  DEF LinkDrops, clientVars, deviceVars, BeforeInv
<1> QED
  BY <1>1, <1>2, <1>3, <1>4, <1>5, <1>6, <1>7, <1>8, <1>9, <1>10, <1>11, <1>12, <1>13,
     <1>14, <1>15
  DEF Next, ConnectSteps, CallSteps, Moves


\* A new call's frame has new counters; the device takes what it has not seen.
LEMMA FlightStep == ASSUME SessionInv, Next PROVE FlightInv'
<1> USE DEF SessionInv
<1>1. CASE Quiet
  <2>1. /\ UNCHANGED <<sessionKey, processed>> /\ Seen' = Seen
        /\ counter' >= counter /\ counter' \in Nat
        /\ Frames' \subseteq Frames /\ Apart(toDevice)'
        /\ \A m \in Messages' : m.kind = "data" => m \in Messages
    BY <1>1 DEF Quiet, Seen
  <2>2. \A n \in Counters : n < counter => n < counter'
    BY <2>1, CounterTypes
  <2> QED
    BY <2>1, <2>2, CounterTypes DEF FlightInv, Answer
<1>2. CASE Clearing
  BY <1>2 DEF Clearing, FlightInv
<1>3. ASSUME NEW c \in Callers, NEW k \in 1..MaxBatch, StartCall(c, k) PROVE FlightInv'
  <2>1. /\ sessionKey # 0 /\ UNCHANGED <<sessionKey, processed, toClient>> /\ Seen' = Seen
        /\ counter' = counter + k /\ counter \in Nat /\ k \in Nat \ {0}
    BY <1>3, CounterTypes DEF StartCall, deviceVars, Seen
  <2>2. \A n \in Counters : n < counter => n < counter'
    BY <2>1, CounterTypes
  <2>3. \A m \in Messages' : m \in Messages
    BY <2>1, MessagesKept
  <2>4. PICK f \in Frame : /\ f.kind = "data" /\ f.key = sessionKey /\ f.who = c
                           /\ ToSet(f.counters) = counter..(counter + k - 1)
                           /\ \/ UNCHANGED toDevice
                              \/ toDevice' = Append(toDevice, f) /\ Frames' = Frames \cup {f}
    BY <1>3, StartCallSets
  <2>5. \A n \in ToSet(f.counters) : n < counter' /\ n \notin Seen /\ ~(n < counter)
    BY <2>1, <2>4, CounterTypes DEF DrawnInv
  <2>6. \A g \in Frames : g.kind = "data" => ToSet(f.counters) \cap ToSet(g.counters) = {}
    BY <2>5 DEF FlightInv
  <2>7. \A g \in Frames : g.kind = "data"
    BY <2>1 DEF BeforeInv
  <2>8. Apart(toDevice)'
    <3>1. CASE UNCHANGED toDevice
      BY <3>1, FramesKept DEF FlightInv
    <3>2. CASE toDevice' = Append(toDevice, f)
      <4>1. Apart(Append(toDevice, f))
        BY <2>6, <2>7, AppendApart DEF FlightInv, SessionTypes, Frames
      <4> QED
        BY <3>2, <4>1 DEF Apart
    <3> QED
      BY <2>4, <3>1, <3>2
  <2>9. \A g \in Frames' : g \in Frames \/ g = f
    BY <2>4, FramesKept
  <2> QED
    BY <2>1, <2>2, <2>3, <2>4, <2>5, <2>8, <2>9, CounterTypes DEF FlightInv, Answer
<1>4. CASE DeviceTakes
  <2>1. PICK f \in Frames, m \in Message :
            /\ Messages' = Messages \cup {m}
            /\ \A g \in Frames' : ToSet(f.counters) \cap ToSet(g.counters) = {}
            /\ TakesNonce(f, m) \/ TakesHmac(f, m) \/ TakesData(f, m)
    BY <1>4, DeviceTakesEffect
  <2>2. Frames' \subseteq Frames /\ Apart(toDevice)' /\ UNCHANGED <<sessionKey, counter>>
    BY <1>4, DeviceTakesEffect DEF clientVars
  <2>3. CASE f.kind = "data"
    <3>1. TakesData(f, m)
      BY <2>1, <2>3 DEF TakesNonce, TakesHmac
    <3>2. Seen' \subseteq Seen \cup ToSet(f.counters) /\ processed \subseteq processed'
      BY <3>1 DEF TakesData, Seen
    <3>3. \A a \in m.answers : /\ a.who \in Callers /\ a.counter < counter
                               /\ a.ok => <<a.who, a.counter>> \in processed'
      BY <2>3, <3>1 DEF TakesData, FlightInv
    <3>4. m.key = sessionKey /\ sessionKey # 0
      BY <2>3, <3>1 DEF TakesData, FlightInv
    <3> QED
      BY <2>1, <2>2, <3>2, <3>3, <3>4 DEF FlightInv
  <2>4. CASE f.kind # "data"
    <3>1. sessionKey = 0 /\ m.kind # "data"
      BY <2>1, <2>4 DEF BeforeInv, TakesNonce, TakesHmac, TakesData
    <3> QED
      BY <2>1, <2>2, <3>1 DEF FlightInv
  <2> QED
    BY <2>3, <2>4
<1> QED
  BY <1>1, <1>2, <1>3, <1>4, StepKinds

\* What was drawn stays below the counter.
LEMMA DrawnStep == ASSUME SessionInv, Next PROVE DrawnInv'
<1> USE DEF SessionInv
<1>1. CASE Quiet
  <2>1. \A n \in Counters : n < counter => n < counter'
    BY <1>1, CounterTypes DEF Quiet
  <2>2. Seen' = Seen /\ UNCHANGED sessionKey
    BY <1>1 DEF Quiet, Seen
  <2> QED
    BY <1>1, <2>1, <2>2, CounterTypes DEF Quiet, DrawnInv
<1>2. CASE Clearing
  BY <1>2 DEF Clearing, DrawnInv, Seen
<1>3. ASSUME NEW c \in Callers, NEW k \in 1..MaxBatch, StartCall(c, k) PROVE DrawnInv'
  <2>1. /\ sessionKey # 0 /\ UNCHANGED sessionKey /\ Seen' = Seen
        /\ counter' = counter + k /\ counter \in Nat /\ k \in Nat \ {0}
    BY <1>3, CounterTypes DEF StartCall, deviceVars, Seen
  <2>2. \A n \in Counters : n < counter => n < counter'
    BY <2>1, CounterTypes
  <2>3. /\ \A d \in Callers \ {c} : Asked(d)' = Asked(d)
        /\ \A n \in Asked(c)' : n < counter'
    BY <1>3, <2>1, StartCallSets
  <2> QED
    BY <2>1, <2>2, <2>3, CounterTypes DEF DrawnInv
<1>4. CASE DeviceTakes
  BY <1>4, DeviceTakesEffect, CallsKept
  DEF TakesNonce, TakesHmac, TakesData, FlightInv, clientVars, Seen, DrawnInv
<1> QED
  BY <1>1, <1>2, <1>3, <1>4, StepKinds

\* Nobody else gets a counter of a call.
LEMMA OwnerStep == ASSUME SessionInv, Next PROVE OwnerInv'
<1> USE DEF SessionInv
<1>1. CASE Quiet
  BY <1>1 DEF Quiet, OwnerInv
<1>2. CASE Clearing
  BY <1>2 DEF Clearing, OwnerInv
<1>3. ASSUME NEW c \in Callers, NEW k \in 1..MaxBatch, StartCall(c, k) PROVE OwnerInv'
  <2>1. sessionKey # 0 /\ UNCHANGED toClient /\ counter \in Nat /\ k \in Nat \ {0}
    BY <1>3, StartCallEffect, CounterTypes DEF StartCall
  <2>2. \A m \in Messages' : m \in Messages
    BY <2>1, MessagesKept
  <2>3. PICK f \in Frame : /\ f.who = c
                           /\ ToSet(f.counters) = counter..(counter + k - 1)
                           /\ Frames' \subseteq Frames \cup {f}
    BY <1>3, StartCallSets, FramesKept
  <2>4. /\ \A d \in Callers \ {c} : Asked(d)' = Asked(d)
        /\ Asked(c)' = counter..(counter + k - 1)
    BY <1>3, StartCallSets
  <2>5. \A n \in Asked(c)' : ~(n < counter)
    BY <2>1, <2>4
  <2>6. \A d \in Callers : /\ Asked(d) \cap Asked(c)' = {} /\ Asked(c)' \cap Asked(d) = {}
                            /\ ToSet(f.counters) \cap Asked(d) = {}
    BY <2>1, <2>3, <2>4, <2>5 DEF DrawnInv
  <2>7. \A g \in Frames : g.kind = "data" => ToSet(g.counters) \cap Asked(c)' = {}
    BY <2>5 DEF FlightInv
  <2>8. \A m \in Messages : m.kind = "data" => \A a \in m.answers : a.counter \notin Asked(c)'
    BY <2>5 DEF FlightInv
  <2>9. ASSUME NEW d \in Callers
        PROVE  /\ \A e \in Callers : d # e => Asked(d)' \cap Asked(e)' = {}
               /\ \A g \in Frames' : g.kind = "data" =>
                     /\ g.who # d => ToSet(g.counters) \cap Asked(d)' = {}
                     /\ g.who = d => ToSet(g.counters) \cap Asked(d)' \in {{}, Asked(d)'}
               /\ \A m \in Messages' : m.kind = "data" =>
                     \A a \in m.answers : a.counter \in Asked(d)' => a.who = d
    <3>1. CASE d = c
      BY <2>2, <2>3, <2>4, <2>6, <2>7, <2>8, <3>1
    <3>2. CASE d # c
      <4>1. Asked(d)' = Asked(d)
        BY <2>4, <3>2
      <4>2. \A e \in Callers : d # e => Asked(d) \cap Asked(e)' = {}
        BY <2>4, <2>6, <3>2 DEF OwnerInv
      <4>3. \A g \in Frames' : g.kind = "data" =>
                /\ g.who # d => ToSet(g.counters) \cap Asked(d) = {}
                /\ g.who = d => ToSet(g.counters) \cap Asked(d) \in {{}, Asked(d)}
        BY <2>3, <2>6, <3>2 DEF OwnerInv
      <4>4. \A m \in Messages' : m.kind = "data" =>
                \A a \in m.answers : a.counter \in Asked(d) => a.who = d
        BY <2>2 DEF OwnerInv
      <4> QED
        BY <4>1, <4>2, <4>3, <4>4
    <3> QED
      BY <3>1, <3>2
  <2> QED
    BY <2>9 DEF OwnerInv
<1>4. CASE DeviceTakes
  BY <1>4, DeviceTakesEffect, CallsKept
  DEF TakesNonce, TakesHmac, TakesData, clientVars, OwnerInv
<1> QED
  BY <1>1, <1>2, <1>3, <1>4, StepKinds

\* A call that waits has what it has had.
CallOK(c) ==
    /\ Busy(c) => call[c].result = "none" /\ call[c].counters # <<>>
    /\ ~Busy(c) => call[c].counters = <<>>
    /\ call[c].at = "waiting" =>
         /\ call[c].next \in 1..Len(call[c].counters)
         /\ \A i \in 1..(call[c].next - 1) : future[call[c].counters[i]] \in Callers

\* A caller whose record stays, and whose answers do, is as it was.
LEMMA CallOKKept ==
  ASSUME SessionTypes, CallInv, NEW c \in Callers, call'[c] = call[c],
         \A n \in Asked(c) : future[n] \in Callers => future'[n] \in Callers
  PROVE  CallOK(c)'
<1>1. /\ Len(call[c].counters) \in Nat
      /\ \A i \in 1..Len(call[c].counters) : call[c].counters[i] \in Asked(c)
  BY DEF Asked, ToSet
<1> QED
  BY <1>1 DEF CallInv, CallOK, Busy

\* The answers in flight to a call's own messages.
LEMMA AnswersOwn ==
  ASSUME SessionInv, NEW m \in Messages, m.kind = "data", NEW a \in m.answers,
         NEW c \in Callers, a.counter \in Asked(c)
  PROVE  a.who = c /\ (a.ok => <<c, a.counter>> \in processed)
  BY DEF SessionInv, OwnerInv, FlightInv

\* A caller is none of the other states of a future.
LEMMA CallersApart == \A c \in Callers : c \notin Unanswered
  BY CallersAssumption DEF Unanswered

\* What a step does to the futures of calls under way: they stay as they are, with the
\* place in _pending of those that are awaited, or they are done, with the call's own
\* answer or without one.
FutureOK(c, n) ==
    \/ future'[n] = future[n] /\ (future[n] = "pending" /\ n \in pending => n \in pending')
    \/ /\ future[n] = "pending"
       /\ \/ future'[n] \in {"refused", "cancelled"}
          \/ future'[n] = c /\ <<c, n>> \in processed'

\* The future of a counter is as it was, or its call has just drawn it.
LEMMA FutureSteps ==
  ASSUME SessionInv, Next, NEW c \in Callers, NEW n \in Asked(c)'
  PROVE  \/ FutureOK(c, n) /\ n \in Asked(c)
         \/ \E k \in 1..MaxBatch : StartCall(c, k)
<1> USE DEF SessionInv
<1>0. Asked(c) \subseteq Counters /\ Counters \subseteq Nat /\ counter \in Nat
  BY CounterTypes
<1>1. CASE Connect \/ HandshakeWritten \/ HandshakeFails
  BY <1>1, CallsKept DEF Connect, HandshakeWritten, HandshakeFails, FutureOK
<1>2. CASE HandshakeResumes
  BY <1>2, EmptyElements DEF HandshakeResumes, KeyInv, BeforeInv, CallInv, Asked
<1>3. ASSUME NEW d \in Callers, NEW k \in 1..MaxBatch, StartCall(d, k), d # c
      PROVE  FutureOK(c, n) /\ n \in Asked(c)
  <2>1. n \in Asked(c) /\ sessionKey # 0
    BY <1>3, StartCallSets DEF StartCall
  <2>2. n \in Counters /\ n \notin counter..(counter + k - 1)
    BY <2>1, <1>0 DEF DrawnInv
  <2>3. future' = [i \in Counters |-> IF i \in counter..(counter + k - 1) THEN "pending"
                                      ELSE future[i]]
    BY <1>3, StartCallEffect
  <2>4. pending' = pending \cup (counter..(counter + k - 1))
    BY <1>3, StartCallEffect
  <2> QED
    BY <2>1, <2>2, <2>3, <2>4 DEF FutureOK
<1>4. ASSUME NEW d \in Callers, NEW k \in 1..MaxBatch, CallExhausts(d, k)
      PROVE  FutureOK(c, n) /\ n \in Asked(c)
  <2>1. n \in Asked(c) /\ sessionKey # 0
    BY <1>4, RefusedEffect DEF CallExhausts
  <2>2. n \in Counters /\ n \in Nat /\ n < counter
    BY <2>1, <1>0 DEF DrawnInv
  <2>3. future'[n] = future[n] /\ pending \subseteq pending'
    BY <1>4, <2>2, <1>0 DEF CallExhausts
  <2> QED
    BY <2>1, <2>3 DEF FutureOK
<1>5. ASSUME NEW d \in Callers, NEW k \in 1..MaxBatch, CallOversized(d, k)
      PROVE  FutureOK(c, n) /\ n \in Asked(c)
  BY <1>5, RefusedEffect DEF CallOversized, FutureOK
<1>6. ASSUME NEW d \in Callers, Moves(d) PROVE FutureOK(c, n) /\ n \in Asked(c)
  BY <1>6, MovesEffect, MovesAsked DEF OwnerInv, FutureOK
<1>7. CASE Deliver
  <2>1. n \in Asked(c) /\ n \in Counters /\ UNCHANGED processed
    BY <1>7, <1>0, DeliverEffect, CallsKept DEF deviceVars
  <2>2. CASE UNCHANGED <<pending, future>>
    BY <2>1, <2>2 DEF FutureOK
  <2>3. ASSUME NEW m \in Messages, m.kind = "data", m.answers \in SUBSET Answer,
               Dispatch(m.answers), \A a \in m.answers : a.who \in Callers
        PROVE  FutureOK(c, n)
    <3>1. CASE /\ future'[n] = future[n]
               /\ future[n] = "pending" /\ n \in pending => n \in pending'
      BY <3>1 DEF FutureOK
    <3>2. ASSUME NEW a \in m.answers, a.counter = n, future[n] = "pending",
                 future'[n] \in {a.who, "refused"}, a.ok \/ future'[n] = "refused"
          PROVE  FutureOK(c, n)
      BY <2>1, <2>3, <3>2, AnswersOwn DEF FutureOK
    <3> QED
      BY <2>1, <2>3, <3>1, <3>2, DispatchEffect
  <2> QED
    BY <1>7, <2>1, <2>2, <2>3, DeliverEffect
<1>8. CASE Disconnect \/ DisconnectReturns
  BY <1>8, <1>0, CallsKept DEF Disconnect, DisconnectReturns, Closed, FutureOK
<1>9. CASE DeviceTakes \/ (\E i \in Counters : DevicePushes(i)) \/ NotificationLost \/ LinkDrops
  BY <1>9, CallsKept
  DEF DeviceTakes, DevicePushes, NotificationLost, LinkDrops, clientVars, FutureOK
<1> QED
  BY <1>1, <1>2, <1>3, <1>4, <1>5, <1>6, <1>7, <1>8, <1>9
  DEF Next, ConnectSteps, CallSteps, Moves

\* While a call is under way, the device forgets nothing of the session, and the key
\* goes only in disconnect().
LEMMA ProcessedKept ==
  ASSUME SessionInv, Next, NEW c \in Callers, NEW n \in Asked(c), <<c, n>> \in processed
  PROVE  <<c, n>> \in processed'
<1> USE DEF SessionInv
<1>1. CASE DeviceTakes
  <2>1. PICK f \in Frames, m \in Message : TakesNonce(f, m) \/ TakesHmac(f, m) \/ TakesData(f, m)
    BY <1>1, DeviceTakesEffect
  <2>2. CASE TakesHmac(f, m)
    BY <2>2, EmptyElements DEF TakesHmac, BeforeInv, CallInv, Asked
  <2> QED
    BY <2>1, <2>2 DEF TakesNonce, TakesData
<1>2. CASE Quiet \/ Clearing
  BY <1>2 DEF Quiet, Clearing
<1>3. ASSUME NEW d \in Callers, NEW k \in 1..MaxBatch, StartCall(d, k)
      PROVE  UNCHANGED processed
  BY <1>3 DEF StartCall, deviceVars
<1> QED
  BY <1>1, <1>2, <1>3, StepKinds

\* The session key is not lost while a future that was pending stays pending.
LEMMA KeyKept ==
  ASSUME SessionInv, Next, sessionKey # 0, NEW c \in Callers, NEW n \in Asked(c),
         future[n] = "pending", future'[n] = "pending"
  PROVE  sessionKey' # 0
<1> USE DEF SessionInv
<1>1. CASE Closed
  BY <1>1, CounterTypes DEF Closed, FutureInv
<1>2. CASE UNCHANGED sessionKey
  BY <1>2
<1>3. CASE HandshakeResumes
  BY <1>3 DEF HandshakeResumes, KeyInv
<1> QED
  BY <1>1, <1>2, <1>3, MovesEffect
  DEF Next, ConnectSteps, CallSteps, Moves, Connect, HandshakeWritten, HandshakeFails,
      StartCall, CallExhausts, CallOversized, Deliver, Disconnect, DisconnectReturns,
      DeviceTakes, DevicePushes, NotificationLost, LinkDrops, clientVars

\* Every future of a call under way is the call's own, and awaited where it can be set.
LEMMA FutureStep == ASSUME SessionInv, Next PROVE FutureInv'
<1> USE DEF SessionInv
<1> SUFFICES ASSUME NEW c \in Callers, NEW n \in Asked(c)'
             PROVE  /\ future'[n] # "none"
                    /\ future'[n] \in Callers => future'[n] = c /\ <<c, n>> \in processed'
                    /\ future'[n] = "pending" => n \in pending' /\ sessionKey' # 0
  BY DEF FutureInv
<1>1. CASE FutureOK(c, n) /\ n \in Asked(c)
  <2>1. <<c, n>> \in processed => <<c, n>> \in processed'
    BY <1>1, ProcessedKept
  <2>2. future[n] = "pending" /\ future'[n] = "pending" => sessionKey' # 0
    BY <1>1, KeyKept DEF FutureInv
  <2> QED
    BY <1>1, <2>1, <2>2, CallersApart DEF FutureInv, FutureOK, Unanswered
<1>2. ASSUME NEW k \in 1..MaxBatch, StartCall(c, k)
      PROVE  future'[n] = "pending" /\ n \in pending' /\ sessionKey' # 0
  <2>1. n \in counter..(counter + k - 1) /\ counter..(counter + k - 1) \subseteq Counters
    BY <1>2, StartCallEffect, StartCallSets
  <2>2. future' = [i \in Counters |-> IF i \in counter..(counter + k - 1) THEN "pending"
                                      ELSE future[i]]
    BY <1>2, StartCallEffect
  <2>3. pending' = pending \cup (counter..(counter + k - 1))
    BY <1>2, StartCallEffect
  <2>4. sessionKey' # 0
    BY <1>2 DEF StartCall
  <2> QED
    BY <2>1, <2>2, <2>3, <2>4
<1> QED
  BY <1>1, <1>2, FutureSteps, CallersApart DEF Unanswered

\* Which steps touch a call.
LEMMA CallSteps1 ==
  ASSUME SessionInv, Next, NEW c \in Callers
  PROVE  \/ call'[c] = call[c]
         \/ \E k \in 1..MaxBatch : StartCall(c, k)
         \/ ~Busy(c) /\ Ends(c, "failed")
         \/ Moves(c)
<1> USE DEF SessionInv
<1>1. ASSUME NEW d \in Callers \ {c}, NEW k \in 1..MaxBatch, StartCall(d, k)
      PROVE  call'[c] = call[c]
  BY <1>1, StartCallSets
<1>2. ASSUME NEW d \in Callers \ {c}, NEW k \in 1..MaxBatch,
             CallExhausts(d, k) \/ CallOversized(d, k)
      PROVE  call'[c] = call[c]
  BY <1>2, RefusedEffect DEF CallExhausts, CallOversized
<1>3. ASSUME NEW d \in Callers \ {c}, Moves(d) PROVE call'[c] = call[c]
  BY <1>3, MovesAsked
<1>4. CASE ConnectSteps \/ Deliver \/ Disconnect \/ DisconnectReturns \/ DeviceTakes
           \/ (\E i \in Counters : DevicePushes(i)) \/ NotificationLost \/ LinkDrops
  BY <1>4
  DEF ConnectSteps, Connect, HandshakeResumes, HandshakeWritten, HandshakeFails,
      Deliver, Disconnect, DisconnectReturns, Closed, DeviceTakes, DevicePushes,
      NotificationLost, LinkDrops, clientVars
<1>5. ASSUME NEW d \in Callers, CallSteps(d)
      PROVE  \/ \E k \in 1..MaxBatch : StartCall(d, k) \/ CallExhausts(d, k) \/ CallOversized(d, k)
             \/ Moves(d)
  BY <1>5 DEF CallSteps, Moves
<1>6. ASSUME NEW k \in 1..MaxBatch, CallExhausts(c, k) \/ CallOversized(c, k)
      PROVE  ~Busy(c) /\ Ends(c, "failed")
  BY <1>6 DEF CallExhausts, CallOversized
<1> QED
  BY <1>1, <1>2, <1>3, <1>4, <1>5, <1>6 DEF Next

\* The callers' records stay in order.
LEMMA CallStep == ASSUME SessionInv, Next PROVE CallInv'
<1> USE DEF SessionInv
<1> SUFFICES ASSUME NEW c \in Callers PROVE CallOK(c)'
  BY DEF CallInv, CallOK
<1>1. CASE call'[c] = call[c]
  <2>1. Asked(c)' = Asked(c) /\ Busy(c)' = Busy(c)
    BY <1>1 DEF Asked, Busy
  <2>2. ASSUME NEW n \in Asked(c), future[n] \in Callers PROVE future'[n] \in Callers
    <3>1. ~ \E k \in 1..MaxBatch : StartCall(c, k)
      BY <2>1, StartCallSets
    <3>2. FutureOK(c, n)
      BY <2>1, <3>1, FutureSteps
    <3> QED
      BY <2>2, <3>2, CallersApart DEF FutureOK, Unanswered
  <2> QED
    BY <1>1, <2>2, CallOKKept
<1>2. ASSUME NEW k \in 1..MaxBatch, StartCall(c, k) PROVE CallOK(c)'
  BY <1>2, StartCallEffect DEF CallOK, Busy
<1>3. CASE Ends(c, "failed") \/ Ends(c, "ok")
  BY <1>3, EndsEffect DEF CallOK, Busy
<1>4. CASE Moves(c)
  BY <1>4, <1>3, MovesEffect DEF CallOK, Busy, CallInv, Waits
<1> QED
  BY <1>1, <1>2, <1>3, <1>4, CallSteps1

-----------------------------------------------------------------------------
(* Types.                                                                  *)

\* The queues hold frames and notifications, the futures what they may hold, and the
\* calls are calls.
LEMMA QueueTypes ==
  ASSUME SessionInv, Next
  PROVE  toDevice' \in Seq(Frame) /\ toClient' \in Seq(Message)
<1> USE DEF SessionInv
<1>0. toDevice \in Seq(Frame) /\ toClient \in Seq(Message)
  BY DEF SessionTypes
<1>1. CASE Connect
  BY <1>1, <1>0, ConnectFrames DEF Connect
<1>2. CASE HandshakeResumes
  BY <1>2, <1>0, HmacFrames DEF HandshakeResumes, AfterNonce, AfterHmac
<1>3. CASE HandshakeWritten \/ HandshakeFails
  BY <1>3, <1>0 DEF HandshakeWritten, HandshakeFails
<1>4. ASSUME NEW c \in Callers, NEW k \in 1..MaxBatch, StartCall(c, k)
      PROVE  toDevice' \in Seq(Frame) /\ UNCHANGED toClient
  BY <1>4, <1>0, StartCallSets, AppendElements DEF StartCall
<1>5. ASSUME NEW c \in Callers, NEW k \in 1..MaxBatch,
             CallExhausts(c, k) \/ CallOversized(c, k)
      PROVE  UNCHANGED <<toDevice, toClient>>
  BY <1>5 DEF CallExhausts, CallOversized
<1>6. ASSUME NEW c \in Callers, Moves(c) PROVE UNCHANGED <<toDevice, toClient>>
  BY <1>6, MovesEffect
<1>7. CASE Deliver
  BY <1>7, <1>0, DeliverEffect
<1>8. CASE Disconnect \/ DisconnectReturns
  BY <1>8, <1>0, ClosedEffect DEF Disconnect, DisconnectReturns
<1>9. CASE DeviceTakes
  BY <1>9, DeviceTakesEffect
<1>10. ASSUME NEW n \in Counters, DevicePushes(n)
       PROVE  toDevice' \in Seq(Frame) /\ toClient' \in Seq(Message)
  BY <1>10, <1>0, PushEffect DEF DevicePushes
<1>11. CASE NotificationLost
  BY <1>11, <1>0, TakenFromClient DEF NotificationLost
<1>12. CASE LinkDrops
  BY <1>12, <1>0, DeviceQueueEmptied DEF LinkDrops
<1> QED
  BY <1>0, <1>1, <1>2, <1>3, <1>4, <1>5, <1>6, <1>7, <1>8, <1>9, <1>10, <1>11, <1>12
  DEF Next, ConnectSteps, CallSteps, Moves

\* Each counter's future is unanswered, or has the answer of a caller.
LEMMA FutureTypes ==
  ASSUME SessionInv, Next
  PROVE  future' \in [Counters -> Unanswered \cup Callers]
<1> USE DEF SessionInv
<1>0. future \in [Counters -> Unanswered \cup Callers]
  BY DEF SessionTypes
<1>1. CASE UNCHANGED future
  BY <1>0, <1>1
<1>2. CASE HandshakeResumes
  BY <1>0, <1>2 DEF HandshakeResumes, AfterNonce, AfterHmac, Unanswered
<1>3. ASSUME NEW c \in Callers, NEW k \in 1..MaxBatch, StartCall(c, k)
      PROVE  future' \in [Counters -> Unanswered \cup Callers]
  <2>1. future' = [n \in Counters |-> IF n \in counter..(counter + k - 1) THEN "pending"
                                      ELSE future[n]]
    BY <1>3, StartCallEffect
  <2> QED
    BY <1>0, <2>1 DEF Unanswered
<1>4. ASSUME NEW c \in Callers, NEW k \in 1..MaxBatch, CallExhausts(c, k)
      PROVE  future' \in [Counters -> Unanswered \cup Callers]
  BY <1>0, <1>4 DEF CallExhausts, Unanswered
<1>5. CASE Deliver
  BY <1>1, <1>5, DeliverEffect, DispatchEffect
<1>6. CASE Closed
  BY <1>6, ClosedEffect
<1> QED
  BY <1>1, <1>2, <1>3, <1>4, <1>5, <1>6, MovesEffect
  DEF Next, ConnectSteps, CallSteps, Moves, Connect, HandshakeWritten, HandshakeFails,
      CallOversized, Disconnect, DisconnectReturns, DeviceTakes, DevicePushes,
      NotificationLost, LinkDrops, clientVars

\* Each caller's record is one.
LEMMA CallTypes ==
  ASSUME SessionInv, Next
  PROVE  /\ call' \in [Callers -> CallRecord]
         /\ \A c \in Callers : call'[c].next \in 1..(Len(call'[c].counters) + 1)
<1> USE DEF SessionInv
<1>1. call' \in [Callers -> CallRecord]
  <2>1. CASE UNCHANGED call
    BY <2>1 DEF SessionTypes
  <2>2. ASSUME NEW c \in Callers, CallSteps(c) PROVE call' \in [Callers -> CallRecord]
    BY <2>2, StartCallEffect, RefusedEffect, MovesAsked
    DEF CallSteps, Moves, CallExhausts, CallOversized
  <2> QED
    BY <2>1, <2>2
    DEF Next, ConnectSteps, Connect, HandshakeResumes, HandshakeWritten, HandshakeFails,
        Deliver, Disconnect, DisconnectReturns, Closed, DeviceTakes, DevicePushes,
        NotificationLost, LinkDrops, clientVars
<1>2. ASSUME NEW c \in Callers
      PROVE  call'[c].next \in 1..(Len(call'[c].counters) + 1)
  <2>0. \A s \in Seq(Counters) : Len(s) \in Nat
    BY LenProperties
  <2>1. Len(call[c].counters) \in Nat /\ Len(call'[c].counters) \in Nat
    BY <1>1, <2>0 DEF SessionTypes, CallRecord
  <2>2. CASE call'[c] = call[c]
    BY <2>2 DEF SessionTypes, TypeOK
  <2>3. CASE call'[c].next = 1
    BY <2>1, <2>3
  <2>4. ASSUME NEW j \in 1..Len(call[c].counters), Waits(c, j)
        PROVE  call'[c].next \in 1..(Len(call'[c].counters) + 1)
    BY <2>1, <2>4 DEF Waits
  <2> QED
    BY <2>2, <2>3, <2>4, CallSteps1, StartCallEffect, EndsEffect, MovesEffect
<1> QED
  BY <1>1, <1>2

\* The other variables of the client.
ClientTypes ==
    /\ phase \in {"closed", "open", "failed", "closing"} \cup Handshaking
    /\ handshakeFuture \in {"none", "pending", "serverNonce", "serverHmac",
                            "badHmac", "error", "odd", "data", "push"}
    /\ sessionKey \in 0..MaxSessions
    /\ counter \in 1..Threshold
    /\ pending \in SUBSET Counters
    /\ verdict \in {"none", "ok", "failed", "rejected"}
    /\ epoch \in 0..MaxSessions

\* The client's variables keep their types.
LEMMA ClientTypesStep == ASSUME SessionInv, Next PROVE ClientTypes'
<1> USE DEF SessionInv
<1>0. ClientTypes /\ Threshold \in Nat \ {0} /\ MaxSessions \in Nat
  BY ThresholdAssumption, MaxSessionsAssumption DEF SessionTypes, TypeOK, ClientTypes
<1> USE DEF ClientTypes
<1>1. CASE Connect
  BY <1>0, <1>1 DEF Connect, Handshaking
<1>2. CASE HandshakeResumes
  BY <1>0, <1>2
  DEF HandshakeResumes, AfterNonce, AfterHmac, HandshakeRaises, Handshaking
<1>3. CASE HandshakeWritten \/ HandshakeFails
  BY <1>0, <1>3 DEF HandshakeWritten, HandshakeFails, HandshakeRaises, Handshaking
<1>4. ASSUME NEW c \in Callers, NEW k \in 1..MaxBatch, StartCall(c, k)
      PROVE  ClientTypes'
  <2>1. /\ counter' \in 1..Threshold
        /\ pending' \subseteq Counters
    BY <1>0, <1>4, StartCallEffect
  <2> QED
    BY <1>0, <1>4, <2>1 DEF StartCall
<1>5. ASSUME NEW c \in Callers, NEW k \in 1..MaxBatch, CallExhausts(c, k)
      PROVE  ClientTypes'
  <2>1. counter..(Threshold - 1) \subseteq Counters
    BY <1>0 DEF Counters
  <2> QED
    BY <1>0, <1>5, <2>1 DEF CallExhausts
<1>6. ASSUME NEW c \in Callers, NEW k \in 1..MaxBatch, CallOversized(c, k)
      PROVE  ClientTypes'
  BY <1>0, <1>6, MaxBatchAssumption DEF CallOversized
<1>7. ASSUME NEW c \in Callers, Moves(c) PROVE ClientTypes'
  BY <1>0, <1>7, MovesEffect, MovesAsked
<1>8. CASE Deliver
  <2>1. \A m \in Messages : m.kind \in HandshakeMessages \cup {"data", "push"}
    BY DEF Messages, ToSet, SessionTypes, Message
  <2> QED
    BY <1>0, <1>8, <2>1, DeliverEffect, DispatchEffect DEF HandshakeMessages
<1>9. CASE Disconnect \/ DisconnectReturns
  BY <1>0, <1>9 DEF Disconnect, DisconnectReturns, Closed
<1>10. CASE DeviceTakes \/ (\E n \in Counters : DevicePushes(n)) \/ NotificationLost
            \/ LinkDrops
  BY <1>0, <1>10 DEF DeviceTakes, DevicePushes, NotificationLost, LinkDrops, clientVars
<1> QED
  BY <1>1, <1>2, <1>3, <1>4, <1>5, <1>6, <1>7, <1>8, <1>9, <1>10
  DEF Next, ConnectSteps, CallSteps, Moves

\* What the device keeps.
LEMMA DeviceTypes ==
  ASSUME SessionInv, Next
  PROVE  deviceKey' \in 0..MaxSessions /\ processed' \subseteq Callers \X Counters
<1> USE DEF SessionInv
<1>0. /\ deviceKey \in 0..MaxSessions /\ processed \subseteq Callers \X Counters
      /\ epoch \in 0..MaxSessions
  BY DEF SessionTypes
<1>1. CASE DeviceTakes
  <2>1. PICK f \in Frames, m \in Message :
            TakesNonce(f, m) \/ TakesHmac(f, m) \/ TakesData(f, m)
    BY <1>1, DeviceTakesEffect
  <2>2. CASE TakesData(f, m)
    <3>1. f.who \in Callers /\ ToSet(f.counters) \subseteq Counters
      BY <2>2, CounterTypes DEF TakesData, FlightInv
    <3> QED
      BY <1>0, <2>2, <3>1 DEF TakesData
  <2> QED
    BY <1>0, <2>1, <2>2 DEF TakesNonce, TakesHmac
<1>2. CASE UNCHANGED <<deviceKey, processed>>
  BY <1>0, <1>2
<1> QED
  BY <1>1, <1>2, MovesEffect
  DEF Next, ConnectSteps, CallSteps, Moves, Connect, HandshakeResumes, HandshakeWritten,
      HandshakeFails, StartCall, CallExhausts, CallOversized, Deliver, Disconnect,
      DisconnectReturns, Closed, DevicePushes, NotificationLost, LinkDrops, deviceVars

\* Every step keeps the types.
LEMMA TypesStep == ASSUME SessionInv, Next PROVE SessionTypes'
<1>1. /\ \A c \in Callers : call'[c].at \in {"idle", "writing", "waiting"}
      /\ DOMAIN future' = Counters /\ DOMAIN call' = Callers
  BY FutureTypes, CallTypes DEF CallRecord
<1> QED
  BY <1>1, QueueTypes, FutureTypes, CallTypes, ClientTypesStep, DeviceTypes
  DEF SessionTypes, TypeOK, ClientTypes

-----------------------------------------------------------------------------
(* The invariant.                                                          *)

\* It holds at first, before the first connection.
LEMMA InitSessionInv == ASSUME Init PROVE SessionInv
<1>1. /\ Threshold \in Nat \ {0} /\ MaxSessions \in Nat
      /\ <<>> \in Seq(Counters) /\ <<>> \in Seq(Frame) /\ <<>> \in Seq(Message)
      /\ Len(<<>>) = 0
  BY ThresholdAssumption, MaxSessionsAssumption, EmptySeq
<1>2. /\ Frames = {} /\ Messages = {} /\ Seen = {}
      /\ \A c \in Callers : Asked(c) = {} /\ ~Busy(c)
  BY EmptyElements DEF Init, Frames, Messages, Seen, Asked, Busy, Idle
<1>3. SessionTypes
  BY <1>1 DEF Init, SessionTypes, TypeOK, Unanswered, CallRecord, Idle
<1>4. KeyInv /\ VerdictInv /\ BeforeInv
  BY <1>1, <1>2 DEF Init, KeyInv, VerdictInv, VerdictSound, BeforeInv
<1>5. CallInv
  BY <1>2 DEF Init, CallInv, Idle
<1>6. FlightInv /\ DrawnInv /\ OwnerInv /\ FutureInv
  BY <1>2 DEF Init, FlightInv, DrawnInv, OwnerInv, FutureInv, Apart
<1> QED
  BY <1>3, <1>4, <1>5, <1>6 DEF SessionInv

\* A step of somebody else keeps it.
LEMMA StutterSessionInv == ASSUME SessionInv, UNCHANGED vars PROVE SessionInv'
<1>1. /\ Frames' = Frames /\ Messages' = Messages /\ Apart(toDevice)' = Apart(toDevice)
      /\ \A c \in Callers : Asked(c)' = Asked(c) /\ Busy(c)' = Busy(c)
      /\ Seen' = Seen
  BY FramesKept, MessagesKept, CallsKept DEF vars, clientVars, deviceVars, Seen
<1>2. SessionTypes'
  BY DEF SessionInv, SessionTypes, TypeOK, vars, clientVars, deviceVars
<1>3. KeyInv' /\ VerdictInv' /\ BeforeInv'
  BY <1>1
  DEF SessionInv, KeyInv, VerdictInv, VerdictSound, BeforeInv, vars, clientVars,
      deviceVars
<1>4. CallInv'
  BY <1>1 DEF SessionInv, CallInv, vars, clientVars
<1>5. FlightInv' /\ DrawnInv' /\ OwnerInv' /\ FutureInv'
  BY <1>1
  DEF SessionInv, FlightInv, DrawnInv, OwnerInv, FutureInv, vars, clientVars, deviceVars
<1> QED
  BY <1>2, <1>3, <1>4, <1>5 DEF SessionInv

\* The invariant holds of a session, for any number of callers.
THEOREM SessionInvHolds == Spec => []SessionInv
<1>1. ASSUME SessionInv, [Next]_vars PROVE SessionInv'
  <2>1. CASE Next
    BY <1>1, <2>1, TypesStep, KeyInvStep, VerdictInvStep, BeforeInvStep, CallStep,
       FlightStep, DrawnStep, OwnerStep, FutureStep
    DEF SessionInv
  <2> QED
    BY <1>1, <2>1, StutterSessionInv
<1> QED
  BY <1>1, InitSessionInv, PTL DEF Spec, Safety

-----------------------------------------------------------------------------
(* What follows from it.                                                   *)

\* Every variable of the client has its type, and the counter never passes the threshold:
\* it never wraps, however many requests a session sends (client.py, Counter.next()).
THEOREM SessionTypeOK == Spec => []TypeOK
<1>1. SessionInv => TypeOK
  BY DEF SessionInv, SessionTypes
<1> QED
  BY <1>1, SessionInvHolds, PTL

\* A session key of the client is the one the device accepted last, with the same PSK,
\* whatever fails or is lost while connect() and disconnect() run.
THEOREM KeysAgree == Spec => []Agreement
<1>1. SessionInv => Agreement
  BY DEF SessionInv, KeyInv, Agreement
<1> QED
  BY <1>1, SessionInvHolds, PTL

\* A connect() that says the key was refused speaks of a wrong key, and one that
\* succeeds of the right one.
THEOREM VerdictIsSound == Spec => []VerdictSound
<1>1. SessionInv => VerdictSound
  BY DEF SessionInv, VerdictInv
<1> QED
  BY <1>1, SessionInvHolds, PTL

\* No two frames on their way share a counter, and none has one that the device has seen
\* in its session.
THEOREM CountersStayFresh == Spec => []CountersFresh
<1>1. ASSUME SessionInv PROVE CountersFresh
  <2>1. \A i \in DOMAIN toDevice : toDevice[i] \in Frames
    BY DEF Frames, ToSet
  <2>2. \A f \in Frames : ToSet(f.counters) \cap Seen = {}
    BY <1>1, EmptyElements DEF SessionInv, FlightInv, BeforeInv
  <2> QED
    BY <1>1, <2>1, <2>2 DEF SessionInv, FlightInv, Apart, CountersFresh
<1> QED
  BY <1>1, SessionInvHolds, PTL

\* The places of a call's counters hold the counters it asked with.
LEMMA AskedPlaces ==
  ASSUME SessionTypes, NEW c \in Callers
  PROVE  /\ \A i \in DOMAIN call[c].counters : call[c].counters[i] \in Asked(c)
         /\ \A n \in Asked(c) : \E i \in DOMAIN call[c].counters : call[c].counters[i] = n
         /\ Asked(c) \subseteq Counters
         /\ DOMAIN call[c].counters = 1..Len(call[c].counters)
         /\ call[c].counters # <<>> => Asked(c) # {}
<1>1. /\ DOMAIN call[c].counters = 1..Len(call[c].counters)
      /\ Len(call[c].counters) \in Nat
      /\ call[c].counters # <<>> => Len(call[c].counters) # 0
  OBVIOUS
<1>2. call[c].counters # <<>> => 1 \in DOMAIN call[c].counters
  BY <1>1
<1> QED
  BY <1>1, <1>2, CounterTypes DEF Asked, ToSet

\* What a call gets for an answer is the device's answer to its own message, carried
\* out, among any number of callers, pushes and late answers.
THEOREM AnswersMatch == Spec => []AnswerMatches
<1>1. ASSUME SessionInv PROVE AnswerMatches
  <2>1. \A c \in Callers : \A n \in Asked(c) :
            \/ future[n] \in {"pending", "refused", "cancelled"}
            \/ future[n] = c /\ <<c, n>> \in processed
    BY <1>1, CounterTypes DEF SessionInv, SessionTypes, FutureInv, Unanswered
  <2> QED
    BY <1>1, <2>1, AskedPlaces DEF SessionInv, AnswerMatches
<1> QED
  BY <1>1, SessionInvHolds, PTL

\* A call that waits can be reached by its answer, whatever other calls time out, run out
\* of counters, or are cancelled.
THEOREM WaitersStayRegistered == Spec => []WaitersRegistered
<1>1. ASSUME SessionInv PROVE WaitersRegistered
  BY <1>1, AskedPlaces DEF SessionInv, FutureInv, WaitersRegistered
<1> QED
  BY <1>1, SessionInvHolds, PTL

-----------------------------------------------------------------------------
(* Requests and batches are remote calls.                                  *)

\* A step that touches the calls at most in what RemoteCalls does not speak of.
LEMMA SilentStep ==
  ASSUME \A c \in Callers : /\ Busy(c)' = Busy(c)
                            /\ Busy(c) => Processed(c)' = Processed(c)
                            /\ call'[c].result = call[c].result
  PROVE  UNCHANGED Calls!callVars
<1>1. {c \in Callers : Busy(c)}' = {c \in Callers : Busy(c)}
  OBVIOUS
<1>2. {c \in Callers : Busy(c) /\ Processed(c)}' = {c \in Callers : Busy(c) /\ Processed(c)}
  OBVIOUS
<1>3. {c \in Callers : call[c].result = "ok"}' = {c \in Callers : call[c].result = "ok"}
  OBVIOUS
<1> QED
  BY <1>1, <1>2, <1>3 DEF Calls!callVars

\* RemoteCalls sees nothing but the callers' records and what was processed.
LEMMA CallsAlone ==
  ASSUME UNCHANGED <<call, processed>>
  PROVE  UNCHANGED Calls!callVars
<1>1. \A c \in Callers : Busy(c)' = Busy(c) /\ Processed(c)' = Processed(c)
  BY DEF Busy, Processed
<1> QED
  BY <1>1, SilentStep

\* A call begins: the device has carried out no message with its counters.
LEMMA StartAsks ==
  ASSUME SessionInv, NEW c \in Callers, NEW k \in 1..MaxBatch, StartCall(c, k)
  PROVE  Calls!Ask(c)
<1> USE DEF SessionInv
<1>1. sessionKey # 0 /\ UNCHANGED processed /\ ~Busy(c) /\ Busy(c)'
  BY StartCallSets DEF StartCall, deviceVars
<1>2. /\ call'[c].result = "none" /\ call'[c].counters = Drawn(k)
      /\ \A d \in Callers \ {c} : call'[d] = call[d]
  BY StartCallEffect
<1>3. \A d \in Callers \ {c} : Busy(d)' = Busy(d) /\ Processed(d)' = Processed(d)
  BY <1>1, <1>2 DEF Busy, Processed
<1>4. ~Processed(c)'
  <2>1. counter \in Nat /\ k \in Nat \ {0}
    BY StartCallEffect, CounterTypes
  <2>2. 1 \in DOMAIN call'[c].counters /\ call'[c].counters[1] = counter
    BY <1>2, <2>1 DEF Drawn
  <2>3. <<c, counter>> \notin processed
    BY <1>1, <2>1 DEF DrawnInv, Seen
  <2> QED
    BY <1>1, <2>2, <2>3 DEF Processed
<1> QED
  BY <1>1, <1>2, <1>3, <1>4 DEF Calls!Ask

\* A call that cannot begin is refused.
LEMMA EndsRefuses ==
  ASSUME SessionInv, NEW c \in Callers, ~Busy(c), Ends(c, "failed"), UNCHANGED processed
  PROVE  Calls!Refuse(c)
<1> USE DEF SessionInv
<1>1. /\ \A d \in Callers : Busy(d)' = Busy(d)
      /\ \A d \in Callers \ {c} : call'[d] = call[d]
      /\ call'[c].result = "failed"
  BY RefusedEffect, EndsEffect
<1>2. \A d \in Callers \ {c} : Processed(d)' = Processed(d)
  BY <1>1 DEF Processed
<1> QED
  BY <1>1, <1>2 DEF Calls!Refuse

\* A call goes on, fails, or succeeds with all its answers: then the device has carried
\* it out.
LEMMA MovesAreSteps ==
  ASSUME SessionInv, NEW c \in Callers, Moves(c)
  PROVE  Calls!Succeed(c) \/ Calls!Fail(c) \/ UNCHANGED Calls!callVars
<1> USE DEF SessionInv
<1>1. Busy(c) /\ UNCHANGED processed
  BY MovesEffect DEF deviceVars
<1>2. \A d \in Callers \ {c} : call'[d] = call[d]
  BY MovesAsked
<1>3. \A d \in Callers \ {c} : Busy(d)' = Busy(d) /\ Processed(d)' = Processed(d)
  BY <1>1, <1>2 DEF Busy, Processed
<1>4. CASE Ends(c, "failed")
  <2>1. ~Busy(c)' /\ call'[c].result = "failed" /\ call[c].result = "none"
    BY <1>1, <1>4, EndsEffect DEF Busy, CallInv
  <2> QED
    BY <1>1, <1>2, <1>3, <2>1 DEF Calls!Fail
<1>5. CASE Ends(c, "ok") /\ AllAnswered(c)
  <2>1. ~Busy(c)' /\ call'[c].result = "ok"
    BY <1>5, EndsEffect DEF Busy
  <2>2. Processed(c)
    BY <1>5, AskedPlaces DEF AllAnswered, Processed, FutureInv
  <2> QED
    BY <1>1, <1>2, <1>3, <2>1, <2>2 DEF Calls!Succeed
<1>6. ASSUME NEW j \in 1..Len(call[c].counters), Waits(c, j)
      PROVE  UNCHANGED Calls!callVars
  <2>1. Busy(c)' = Busy(c) /\ Processed(c)' = Processed(c) /\ call'[c].result = call[c].result
    BY <1>1, <1>6 DEF Waits, Busy, Processed
  <2>2. \A d \in Callers : /\ Busy(d)' = Busy(d) /\ Processed(d)' = Processed(d)
                            /\ call'[d].result = call[d].result
    BY <1>1, <1>2, <1>3, <2>1
  <2> QED
    BY <2>2, SilentStep
<1> QED
  BY <1>4, <1>5, <1>6, MovesEffect

\* The device carries out the whole of a call at once, and only once; what it takes for
\* a call that was given up is nobody's.
LEMMA DeviceExecutes ==
  ASSUME SessionInv, DeviceTakes
  PROVE  (\E c \in Callers : Calls!Execute(c)) \/ UNCHANGED Calls!callVars
<1> USE DEF SessionInv
<1>1. PICK f \in Frames, m \in Message : TakesNonce(f, m) \/ TakesHmac(f, m) \/ TakesData(f, m)
  BY DeviceTakesEffect
<1>2. UNCHANGED call /\ \A c \in Callers : Busy(c)' = Busy(c)
  BY DeviceTakesEffect, CallsKept DEF clientVars
<1>3. CASE TakesNonce(f, m)
  BY <1>2, <1>3, CallsAlone DEF TakesNonce
<1>4. CASE TakesHmac(f, m)
  <2>1. \A c \in Callers : ~Busy(c)
    BY <1>4 DEF TakesHmac, BeforeInv
  <2> QED
    BY <1>2, <2>1, SilentStep
<1>5. CASE TakesData(f, m)
  <2>1. /\ f.kind = "data" /\ f.who \in Callers /\ ToSet(f.counters) \cap Seen = {}
        /\ processed' = processed \cup {<<f.who, n>> : n \in ToSet(f.counters)}
    <3>1. f.kind = "data" /\ f.who \in Callers /\ \A n \in ToSet(f.counters) : n \notin Seen
      BY <1>5 DEF TakesData, FlightInv
    <3>2. ToSet(f.counters) \ Seen = ToSet(f.counters)
      BY <3>1
    <3> QED
      BY <1>5, <3>1, <3>2 DEF TakesData
  <2>2. \A c \in Callers \ {f.who} : Processed(c)' = Processed(c)
    BY <1>2, <2>1 DEF Processed
  <2>3. Asked(f.who)' = Asked(f.who)
    BY <1>2 DEF Asked
  <2>4. /\ Processed(f.who) <=> \A n \in Asked(f.who) : <<f.who, n>> \in processed
        /\ Processed(f.who)' <=> \A n \in Asked(f.who) : <<f.who, n>> \in processed'
    BY <1>2, <2>1, AskedPlaces DEF Processed
  <2>5. CASE ToSet(f.counters) \cap Asked(f.who) = {} \/ ~Busy(f.who)
    <3>1. Busy(f.who) => Processed(f.who)' = Processed(f.who)
      <4>1. ASSUME NEW n \in Asked(f.who), Busy(f.who)
            PROVE  <<f.who, n>> \in processed' <=> <<f.who, n>> \in processed
        BY <2>1, <2>5, <4>1
      <4> QED
        BY <2>4, <4>1 DEF Processed
    <3> QED
      BY <1>2, <2>2, <3>1, SilentStep
  <2>6. CASE ToSet(f.counters) \cap Asked(f.who) = Asked(f.who) /\ Busy(f.who)
    <3>1. Asked(f.who) # {}
      BY <2>1, <2>6, AskedPlaces DEF CallInv
    <3>2. ~Processed(f.who) /\ Processed(f.who)'
      BY <2>1, <2>4, <2>6, <3>1 DEF Seen
    <3>3. Calls!Execute(f.who)
      BY <1>2, <2>1, <2>2, <2>6, <3>2 DEF Calls!Execute
    <3> QED
      BY <2>1, <3>3
  <2> QED
    BY <2>1, <2>5, <2>6 DEF OwnerInv
<1> QED
  BY <1>1, <1>3, <1>4, <1>5

\* Every step of the session is a step of RemoteCalls, or none of them.
LEMMA StepIsACall ==
  ASSUME SessionInv, Next
  PROVE  [Calls!CallsNext]_Calls!callVars
<1>1. ASSUME NEW c \in Callers, CallSteps(c)
      PROVE  [Calls!CallsNext]_Calls!callVars
  <2>1. ASSUME NEW k \in 1..MaxBatch, StartCall(c, k) PROVE Calls!Ask(c)
    BY <1>1, <2>1, StartAsks
  <2>2. ASSUME NEW k \in 1..MaxBatch, CallExhausts(c, k) \/ CallOversized(c, k)
        PROVE  Calls!Refuse(c)
    BY <2>2, EndsRefuses DEF CallExhausts, CallOversized, deviceVars
  <2>3. CASE Moves(c)
    BY <2>3, MovesAreSteps DEF Calls!CallsNext
  <2> QED
    BY <1>1, <2>1, <2>2, <2>3 DEF CallSteps, Moves, Calls!CallsNext
<1>2. CASE DeviceTakes
  BY <1>2, DeviceExecutes DEF Calls!CallsNext
<1>3. CASE UNCHANGED <<call, processed>>
  BY <1>3, CallsAlone
<1> QED
  BY <1>1, <1>2, <1>3
  DEF Next, ConnectSteps, Connect, HandshakeResumes, HandshakeWritten, HandshakeFails,
      Deliver, Disconnect, DisconnectReturns, Closed, DevicePushes, NotificationLost,
      LinkDrops, clientVars, deviceVars

\* A call that returns was carried out by the device, once; a call that failed is not
\* taken for one that succeeded: the safety half of ImplementsCalls.
THEOREM SessionMakesCalls == Spec => Calls!CallsSafety
<1>1. Init => Calls!CallsInit
  BY DEF Init, Idle, Busy, Calls!CallsInit
<1>2. SessionInv /\ [Next]_vars => [Calls!CallsNext]_Calls!callVars
  <2>1. UNCHANGED vars => UNCHANGED Calls!callVars
    BY CallsAlone DEF vars, clientVars, deviceVars
  <2> QED
    BY <2>1, StepIsACall
<1> QED
  BY <1>1, <1>2, SessionInvHolds, PTL DEF Spec, Safety, Calls!CallsSafety
=============================================================================
