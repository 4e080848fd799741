---------------------------- MODULE EB300Session ----------------------------
(***************************************************************************)
(* One EB300Client of client.py, the thermostat at the other end, and the  *)
(* link between them: the 4-step handshake, requests and batches matched   *)
(* to their answers by counter, timeouts, and disconnect.                  *)
(*                                                                         *)
(* A step is what one task, or the notification callback, runs between two *)
(* suspensions.  The device is external: it does what client.py expects of *)
(* it and tests/lib/fakes.py imitates.  It may leave any request           *)
(* unanswered, and it may push a DATA message at any time.                 *)
(*                                                                         *)
(* Integrity and secrecy of the ciphers are assumed: a frame is read only  *)
(* with the key it was written with, and keys agree only if both sides     *)
(* hold the same PSK and took part in the same handshake.  So a session    *)
(* key is the number of its handshake.                                     *)
(***************************************************************************)
EXTENDS Naturals, Sequences, FiniteSets, SequencesExt

CONSTANTS Callers,         \* tasks that use the client at the same time
          MaxBatch,        \* Bound: requests in one frame
          Threshold,       \* COUNTER_REHANDSHAKE_THRESHOLD
          MaxSessions,     \* Bound: connections of the one client
          MaxInFlight      \* Bound: notifications on their way

ASSUME MaxBatchAssumption == MaxBatch \in Nat \ {0}
ASSUME ThresholdAssumption == Threshold \in Nat \ {0}
ASSUME MaxSessionsAssumption == MaxSessions \in Nat
\* Callers are told apart from the states of a future and from the other senders.
ASSUME CallersAssumption ==
    Callers \cap {"none", "pending", "refused", "cancelled", "device", "handshake"} = {}

VARIABLES
    \* the client
    phase,           \* where connect() or disconnect() is
    handshakeFuture, \* "none", "pending", or the notification it was given
    sessionKey,      \* 0 is None
    counter,
    pending,         \* the counters that are keys of _pending
    future,          \* the state of each counter's future in this session;
                     \* a caller: it has the answer to that caller's message
    call,            \* each caller's request() or request_batch()
    verdict,         \* how the last connect() ended
    \* the link
    linkUp, toDevice, toClient,
    \* the device
    psk,             \* its key: the client's, another one, or none
    deviceKey,       \* the session it has accepted
    processed,       \* the messages it carried out in that session
    adverse,         \* whether messages, links and patience get lost
    epoch            \* handshakes begun, on both sides

clientVars == <<phase, handshakeFuture, sessionKey, counter, pending, future,
                call, verdict>>
deviceVars == <<psk, adverse, deviceKey, processed>>
vars == <<clientVars, linkUp, toDevice, toClient, deviceVars, epoch>>

Counters == 1..(Threshold - 1)
Handshaking == {"nonceWriting", "nonceWaiting", "hmacWriting", "hmacWaiting"}
Handshake(kind) == [kind |-> kind, key |-> 0, who |-> "handshake", counters |-> <<>>]
Idle == [at |-> "idle", counters |-> <<>>, next |-> 1, result |-> "none"]

Init ==
    /\ phase = "closed"
    /\ handshakeFuture = "none"
    /\ sessionKey = 0
    /\ counter = 1
    /\ pending = {}
    /\ future = [n \in Counters |-> "none"]
    /\ call = [c \in Callers |-> Idle]
    /\ verdict = "none"
    /\ linkUp = FALSE /\ toDevice = <<>> /\ toClient = <<>>
    /\ adverse \in BOOLEAN
    /\ psk \in (IF adverse THEN {"same", "other", "missing"} ELSE {"same"})
    /\ deviceKey = 0
    /\ processed = {}
    /\ epoch = 0

-----------------------------------------------------------------------------
(* connect() and the handshake.                                            *)

\* A handshake step ends with an exception: HandshakeError.is_psk_rejection
\* tells a refused key from everything else.
HandshakeRaises(e) ==
    /\ phase' = "failed"
    /\ handshakeFuture' = "none"
    /\ verdict' = e

\* Bound: a client is connected again only when all its calls have ended.
\* transport.connect() failing changes nothing here.
Connect ==
    /\ phase = "closed" /\ epoch < MaxSessions
    /\ \A c \in Callers : call[c].at = "idle"
    /\ phase' = "nonceWriting"
    /\ handshakeFuture' = "pending"
    /\ epoch' = epoch + 1
    /\ verdict' = "none"
    /\ linkUp' = TRUE
    /\ toDevice' = <<Handshake("nonce")>>
    /\ UNCHANGED <<sessionKey, counter, pending, future, call, toClient, deviceVars>>

\* Mutant: whatever is not a nonce is taken for a refusal.
AfterNonceSuspicious(answer) ==
    \/ /\ answer = "serverNonce"
       /\ phase' = "hmacWriting"
       /\ handshakeFuture' = "pending"
       /\ toDevice' = Append(toDevice, Handshake("hmac"))
       /\ UNCHANGED <<sessionKey, counter, future, verdict>>
    \/ /\ answer # "serverNonce"
       /\ HandshakeRaises("rejected")
       /\ UNCHANGED <<sessionKey, counter, future, toDevice>>

\* Mutant: step 3 does not get a future of its own.
AfterNonceOneFuture(answer) ==
    \/ /\ answer = "serverNonce"
       /\ phase' = "hmacWriting"
       /\ toDevice' = Append(toDevice, Handshake("hmac"))
       /\ UNCHANGED <<handshakeFuture, sessionKey, counter, future, verdict>>
    \/ /\ answer # "serverNonce"
       /\ HandshakeRaises(IF answer = "error" THEN "rejected" ELSE "failed")
       /\ UNCHANGED <<sessionKey, counter, future, toDevice>>

\* What _handshake does with the answer to step 1 ...
AfterNonce(answer) ==
    \/ /\ answer = "serverNonce"
       /\ phase' = "hmacWriting"
       /\ handshakeFuture' = "pending"
       /\ toDevice' = Append(toDevice, Handshake("hmac"))
       /\ UNCHANGED <<sessionKey, counter, future, verdict>>
    \/ /\ answer # "serverNonce"
       /\ HandshakeRaises(IF answer = "error" THEN "rejected" ELSE "failed")
       /\ UNCHANGED <<sessionKey, counter, future, toDevice>>

\* Mutant: the server's HMAC is not verified.
AfterHmacUnverified(answer) ==
    /\ UNCHANGED toDevice
    /\ \/ /\ answer \in {"serverHmac", "badHmac"}
          /\ phase' = "open"
          /\ handshakeFuture' = "none"
          /\ sessionKey' = epoch
          /\ counter' = 1
          /\ future' = [n \in Counters |-> "none"]
          /\ verdict' = "ok"
       \/ /\ answer \notin {"serverHmac", "badHmac"}
          /\ HandshakeRaises(IF answer = "error" THEN "rejected" ELSE "failed")
          /\ UNCHANGED <<sessionKey, counter, future>>

\* ... and to step 3.
AfterHmac(answer) ==
    /\ UNCHANGED toDevice
    /\ \/ /\ answer = "serverHmac"
          /\ phase' = "open"
          /\ handshakeFuture' = "none"
          /\ sessionKey' = epoch
          /\ counter' = 1
          /\ future' = [n \in Counters |-> "none"]
          /\ verdict' = "ok"
       \/ /\ answer # "serverHmac"
          /\ HandshakeRaises(IF answer \in {"error", "badHmac"}
                             THEN "rejected" ELSE "failed")
          /\ UNCHANGED <<sessionKey, counter, future>>

\* The task resumes with the future done: the write has returned, and so has
\* the wait.
HandshakeResumes ==
    /\ phase \in Handshaking /\ handshakeFuture # "pending"
    /\ toDevice = <<>>
    /\ \/ phase \in {"nonceWriting", "nonceWaiting"} /\ AfterNonce(handshakeFuture)
       \/ phase \in {"hmacWriting", "hmacWaiting"} /\ AfterHmac(handshakeFuture)
    /\ UNCHANGED <<pending, call, linkUp, toClient, deviceVars, epoch>>

HandshakeWritten ==
    /\ phase \in {"nonceWriting", "hmacWriting"} /\ handshakeFuture = "pending"
    /\ toDevice = <<>>
    /\ phase' = IF phase = "nonceWriting" THEN "nonceWaiting" ELSE "hmacWaiting"
    /\ UNCHANGED <<handshakeFuture, sessionKey, counter, pending, future, call,
                   verdict, linkUp, toDevice, toClient, deviceVars, epoch>>

\* The write fails, the answer is not there in time (or the timer fires before
\* the task resumes), or the time limit of the whole attempt expires.
HandshakeFails ==
    /\ adverse /\ phase \in Handshaking
    /\ HandshakeRaises("failed")
    /\ UNCHANGED <<sessionKey, counter, pending, future, call, linkUp, toDevice,
                   toClient, deviceVars, epoch>>

-----------------------------------------------------------------------------
(* request() and request_batch().                                          *)

Busy(c) == call[c].at # "idle"

Ends(c, result) == call' = [call EXCEPT ![c] = [Idle EXCEPT !.result = result]]

\* Mutant: a batch advances the counter by one.
StartCallOneCounter(c, k) ==
    LET drawn == [i \in 1..k |-> counter + i - 1] IN
    /\ ~Busy(c) /\ sessionKey # 0
    /\ counter + k <= Threshold
    /\ counter' = counter + 1
    /\ pending' = pending \cup ToSet(drawn)
    /\ future' = [n \in Counters |-> IF n \in ToSet(drawn) THEN "pending" ELSE future[n]]
    /\ call' = [call EXCEPT ![c] = [at |-> "writing", counters |-> drawn,
                                    next |-> 1, result |-> "none"]]
    /\ toDevice' = IF linkUp
                   THEN Append(toDevice, [kind |-> "data", key |-> sessionKey,
                                          who |-> c, counters |-> drawn])
                   ELSE toDevice
    /\ UNCHANGED <<phase, handshakeFuture, sessionKey, verdict, linkUp, toClient,
                   deviceVars, epoch>>

\* k counters are drawn and k futures registered, then one frame is written.
\* The write to a link that is down will raise.
StartCall(c, k) ==
    LET drawn == [i \in 1..k |-> counter + i - 1] IN
    /\ ~Busy(c) /\ sessionKey # 0
    /\ counter + k <= Threshold
    /\ counter' = counter + k
    /\ pending' = pending \cup ToSet(drawn)
    /\ future' = [n \in Counters |-> IF n \in ToSet(drawn) THEN "pending" ELSE future[n]]
    /\ call' = [call EXCEPT ![c] = [at |-> "writing", counters |-> drawn,
                                    next |-> 1, result |-> "none"]]
    /\ toDevice' = IF linkUp
                   THEN Append(toDevice, [kind |-> "data", key |-> sessionKey,
                                          who |-> c, counters |-> drawn])
                   ELSE toDevice
    /\ UNCHANGED <<phase, handshakeFuture, sessionKey, verdict, linkUp, toClient,
                   deviceVars, epoch>>

\* Mutant: Counter.next() counts on past the threshold.
CallExhaustsOverrun(c, k) ==
    /\ ~Busy(c) /\ sessionKey # 0
    /\ counter + k > Threshold
    /\ counter' = counter + k
    /\ pending' = pending \cup (counter..(Threshold - 1))
    /\ future' = [n \in Counters |-> IF n >= counter THEN "pending" ELSE future[n]]
    /\ Ends(c, "failed")
    /\ UNCHANGED <<phase, handshakeFuture, sessionKey, verdict, linkUp, toDevice,
                   toClient, deviceVars, epoch>>

\* Counter.next() raises, at once or in the middle of a batch, whose first
\* futures then stay in _pending.
CallExhausts(c, k) ==
    /\ ~Busy(c) /\ sessionKey # 0
    /\ counter + k > Threshold
    /\ counter' = Threshold
    /\ pending' = pending \cup (counter..(Threshold - 1))
    /\ future' = [n \in Counters |-> IF n >= counter THEN "pending" ELSE future[n]]
    /\ Ends(c, "failed")
    /\ UNCHANGED <<phase, handshakeFuture, sessionKey, verdict, linkUp, toDevice,
                   toClient, deviceVars, epoch>>

\* The frame would be too long: its counters are spent, nothing is written.
CallOversized(c, k) ==
    /\ ~Busy(c) /\ sessionKey # 0
    /\ counter + k <= Threshold
    /\ counter' = counter + k
    /\ Ends(c, "failed")
    /\ UNCHANGED <<phase, handshakeFuture, sessionKey, pending, future, verdict,
                   linkUp, toDevice, toClient, deviceVars, epoch>>

\* The answers are awaited in the order of the requests.  From the i-th on, the
\* task runs through the futures that are done, up to one that is not.
Consume(c, i) ==
    LET asked == call[c].counters
        stop(j) == /\ j \in i..(Len(asked) + 1)
                   /\ \A m \in i..(j - 1) : future[asked[m]] \in Callers
    IN  \/ /\ stop(Len(asked) + 1)
           /\ Ends(c, "ok")
        \/ \E j \in i..Len(asked) :
              /\ stop(j)
              /\ \/ /\ future[asked[j]] = "pending"
                    /\ call' = [call EXCEPT ![c].at = "waiting", ![c].next = j]
                 \/ /\ future[asked[j]] \in {"refused", "cancelled"}
                    /\ Ends(c, "failed")

Processed(c) == \A i \in DOMAIN call[c].counters : <<c, call[c].counters[i]>> \in processed

\* The device has the frame, and the write returns.
WriteReturns(c) ==
    /\ call[c].at = "writing"
    /\ \A i \in DOMAIN toDevice : toDevice[i].counters # call[c].counters
    /\ linkUp \/ Processed(c)
    /\ Consume(c, 1)
    /\ UNCHANGED <<phase, handshakeFuture, sessionKey, counter, pending, future, verdict,
                   linkUp, toDevice, toClient, deviceVars, epoch>>

\* The future that is awaited is done, and the task resumes.
CallResumes(c) ==
    /\ call[c].at = "waiting"
    /\ future[call[c].counters[call[c].next]] # "pending"
    /\ Consume(c, call[c].next)
    /\ UNCHANGED <<phase, handshakeFuture, sessionKey, counter, pending, future, verdict,
                   linkUp, toDevice, toClient, deviceVars, epoch>>

\* Mutant: only the first answer of a batch is waited for with a time limit.
RequestTimesOutOnFirst(c) ==
    /\ adverse /\ call[c].at = "waiting" /\ call[c].next = 1
    /\ pending' = pending \ {call[c].counters[call[c].next]}
    /\ Ends(c, "failed")
    /\ UNCHANGED <<phase, handshakeFuture, sessionKey, counter, future, verdict,
                   linkUp, toDevice, toClient, deviceVars, epoch>>

\* Mutant: a timeout clears all of _pending.
RequestTimesOutClearing(c) ==
    /\ adverse /\ call[c].at = "waiting"
    /\ pending' = {}
    /\ Ends(c, "failed")
    /\ UNCHANGED <<phase, handshakeFuture, sessionKey, counter, future, verdict,
                   linkUp, toDevice, toClient, deviceVars, epoch>>

\* request_timeout expires on the future that is awaited, which an answer may
\* have reached before the task resumes.  Later futures of a batch stay.
RequestTimesOut(c) ==
    /\ adverse /\ call[c].at = "waiting"
    /\ pending' = pending \ {call[c].counters[call[c].next]}
    /\ Ends(c, "failed")
    /\ UNCHANGED <<phase, handshakeFuture, sessionKey, counter, future, verdict,
                   linkUp, toDevice, toClient, deviceVars, epoch>>

\* The write raises, whether or not the device gets the frame, or the caller's
\* time limit expires in it: the futures stay in _pending.  With nothing lost it
\* raises on a closed link only.
WriteRaises(c) ==
    /\ adverse \/ ~linkUp
    /\ call[c].at = "writing"
    /\ Ends(c, "failed")
    /\ UNCHANGED <<phase, handshakeFuture, sessionKey, counter, pending, future, verdict,
                   linkUp, toDevice, toClient, deviceVars, epoch>>

\* The caller is cancelled, by its time limit for one, while it waits.
WaitCancelled(c) ==
    /\ adverse /\ call[c].at = "waiting"
    /\ Ends(c, "failed")
    /\ UNCHANGED <<phase, handshakeFuture, sessionKey, counter, pending, future, verdict,
                   linkUp, toDevice, toClient, deviceVars, epoch>>

-----------------------------------------------------------------------------
(* Notifications: _on_notify and _dispatch_inner.                          *)

\* Mutant: one answer of a frame resolves its future, the others are lost.
DispatchOne(answers) ==
    LET a == CHOOSE a \in answers : TRUE IN
    /\ pending' = pending \ {a.counter}
    /\ future' = [n \in Counters |->
                    IF future[n] = "pending" /\ a.counter = n /\ n \in pending
                    THEN IF a.ok THEN a.who ELSE "refused"
                    ELSE future[n]]

\* The futures that the answers of a frame resolve: popped by counter, and
\* given the result unless they are done.
Dispatch(answers) ==
    LET answersTo(n) == {a \in answers : a.counter = n /\ n \in pending} IN
    /\ pending' = pending \ {a.counter : a \in answers}
    /\ future' = [n \in Counters |->
                    IF future[n] = "pending" /\ answersTo(n) # {}
                    THEN LET a == CHOOSE a \in answersTo(n) : TRUE
                         IN  IF a.ok THEN a.who ELSE "refused"
                    ELSE future[n]]

\* Mutant: a DATA push is dispatched like a response.
DeliverPushes ==
    /\ toClient # <<>>
    /\ toClient' = Tail(toClient)
    /\ LET msg == Head(toClient) IN
       \/ /\ handshakeFuture = "pending"
          /\ handshakeFuture' = msg.kind
          /\ UNCHANGED <<pending, future>>
       \/ /\ handshakeFuture # "pending"
          /\ msg.kind \in {"data", "push"} /\ msg.key = sessionKey
          /\ Dispatch(msg.answers)
          /\ UNCHANGED handshakeFuture
       \/ /\ handshakeFuture # "pending"
          /\ ~(msg.kind \in {"data", "push"} /\ msg.key = sessionKey)
          /\ UNCHANGED <<handshakeFuture, pending, future>>
    /\ UNCHANGED <<phase, sessionKey, counter, call, verdict, linkUp, toDevice,
                   deviceVars, epoch>>

\* A handshake step under way takes any notification.  Otherwise only what
\* decrypts with the session key is looked at, and of that only responses.
Deliver ==
    /\ toClient # <<>>
    /\ toClient' = Tail(toClient)
    /\ LET msg == Head(toClient) IN
       \/ /\ handshakeFuture = "pending"
          /\ handshakeFuture' = msg.kind
          /\ UNCHANGED <<pending, future>>
       \/ /\ handshakeFuture # "pending"
          /\ msg.kind = "data" /\ msg.key = sessionKey
          /\ Dispatch(msg.answers)
          /\ UNCHANGED handshakeFuture
       \/ /\ handshakeFuture # "pending"
          /\ ~(msg.kind = "data" /\ msg.key = sessionKey)
          /\ UNCHANGED <<handshakeFuture, pending, future>>
    /\ UNCHANGED <<phase, sessionKey, counter, call, verdict, linkUp, toDevice,
                   deviceVars, epoch>>

-----------------------------------------------------------------------------
(* disconnect().                                                           *)

\* What follows the await: the key goes, and nobody is left waiting.
Closed ==
    /\ phase' = "closed"
    /\ sessionKey' = 0
    /\ future' = [n \in Counters |->
                    IF n \in pending /\ future[n] = "pending" THEN "cancelled"
                    ELSE future[n]]
    /\ pending' = {}
    /\ linkUp' = FALSE /\ toDevice' = <<>> /\ toClient' = <<>>
    /\ UNCHANGED <<handshakeFuture, counter, call, verdict, deviceVars, epoch>>

\* Unless something is lost, only after the last call.
Disconnect ==
    /\ phase \in {"open", "failed"}
    /\ adverse \/ \A c \in Callers : ~Busy(c)
    /\ \/ /\ linkUp
          /\ phase' = "closing"
          /\ UNCHANGED <<handshakeFuture, sessionKey, counter, pending, future, call,
                         verdict, linkUp, toDevice, toClient, deviceVars, epoch>>
       \/ /\ ~linkUp
          /\ Closed

DisconnectReturns == phase = "closing" /\ Closed

-----------------------------------------------------------------------------
(* The link and the device.                                                *)

\* The counters the device has seen in the session it has accepted.
Seen == {p[2] : p \in processed}

\* What the device may answer.  An "error" in the handshake is its refusal of
\* the key; "odd" is anything else that is not the next step.
NonceAnswers ==
    {IF psk = "missing" THEN "error" ELSE "serverNonce"}
        \cup (IF adverse THEN {"odd"} ELSE {})

HmacAnswers ==
    IF psk = "same" THEN {"serverHmac"} ELSE {"error", "badHmac", "odd"}

\* One frame answers the requests of one frame, or some of them.  The device
\* may refuse any, and refuses a counter it has seen.
Answered(asked) == IF adverse THEN (SUBSET asked) \ {{}} ELSE {asked}
Refused(asked) == IF adverse THEN SUBSET asked ELSE {{}}
DataAnswers(frame, answered, refused) ==
    {[counter |-> n, who |-> frame.who, ok |-> n \notin refused \cup Seen] : n \in answered}

\* The device takes the frame at the head of the line and answers it.
DeviceTakes ==
    /\ linkUp /\ toDevice # <<>> /\ Len(toClient) < MaxInFlight
    /\ toDevice' = Tail(toDevice)
    /\ LET frame == Head(toDevice)
           notify(msg) == toClient' = Append(toClient, msg)
       IN
       \/ /\ frame.kind = "nonce"
          /\ \E k \in NonceAnswers : notify([kind |-> k])
          /\ UNCHANGED <<deviceKey, processed>>
       \/ /\ frame.kind = "hmac"
          /\ \E k \in HmacAnswers :
                /\ notify([kind |-> k])
                /\ deviceKey' = IF k = "serverHmac" THEN epoch ELSE deviceKey
                /\ processed' = IF k = "serverHmac" THEN {} ELSE processed
       \/ /\ frame.kind = "data"
          /\ \E answered \in Answered(ToSet(frame.counters)),
                refused \in Refused(ToSet(frame.counters)) :
                notify([kind |-> "data", key |-> frame.key,
                        answers |-> DataAnswers(frame, answered, refused)])
          /\ processed' = processed \cup
                {<<frame.who, n>> : n \in ToSet(frame.counters) \ Seen}
          /\ UNCHANGED deviceKey
    /\ UNCHANGED <<clientVars, linkUp, psk, adverse, epoch>>

\* An unsolicited DATA message, with a counter of the device's own.
\* Bound: it leaves room for an answer.
DevicePushes(n) ==
    /\ linkUp /\ deviceKey = epoch /\ deviceKey # 0
    /\ Len(toClient) + 1 < MaxInFlight
    /\ toClient' = Append(toClient,
          [kind |-> "push", key |-> deviceKey,
           answers |-> {[counter |-> n, who |-> "device", ok |-> TRUE]}])
    /\ UNCHANGED <<clientVars, linkUp, toDevice, deviceVars, epoch>>

NotificationLost ==
    /\ adverse /\ toClient # <<>>
    /\ toClient' = Tail(toClient)
    /\ UNCHANGED <<clientVars, linkUp, toDevice, deviceVars, epoch>>

\* The link drops: what is on its way to the device is gone.  Nothing tells the
\* client, which passes no disconnected_callback.
LinkDrops ==
    /\ adverse /\ linkUp
    /\ linkUp' = FALSE
    /\ toDevice' = <<>>
    /\ UNCHANGED <<clientVars, toClient, deviceVars, epoch>>

ConnectSteps == Connect \/ HandshakeResumes \/ HandshakeWritten \/ HandshakeFails

CallSteps(c) ==
    \/ \E k \in 1..MaxBatch : StartCall(c, k) \/ CallExhausts(c, k) \/ CallOversized(c, k)
    \/ WriteReturns(c) \/ WriteRaises(c)
    \/ CallResumes(c) \/ RequestTimesOut(c) \/ WaitCancelled(c)

Next ==
    \/ ConnectSteps
    \/ \E c \in Callers : CallSteps(c)
    \/ Deliver \/ Disconnect \/ DisconnectReturns
    \/ DeviceTakes \/ (\E n \in Counters : DevicePushes(n))
    \/ NotificationLost \/ LinkDrops

\* The event loop resumes what is ready, request_timeout fires, and every write
\* ends: it returns if nothing is lost, and otherwise bleak ends it, or the time
\* limit of the whole attempt does.  With nothing lost the link and the device
\* do their part as well.
HandshakeWriteEnds == HandshakeFails \/ (~adverse /\ HandshakeWritten)
WriteEnds(c) == WriteRaises(c) \/ (~adverse /\ WriteReturns(c))

Fairness ==
    /\ WF_vars(HandshakeResumes) /\ WF_vars(HandshakeWriteEnds)
    /\ WF_vars(DisconnectReturns)
    /\ \A c \in Callers : /\ WF_vars(CallResumes(c))
                          /\ WF_vars(WriteEnds(c))
                          /\ WF_vars(RequestTimesOut(c))
    /\ WF_vars(~adverse /\ Deliver) /\ WF_vars(~adverse /\ DeviceTakes)

Safety == Init /\ [][Next]_vars
Spec == Safety /\ Fairness

-----------------------------------------------------------------------------
(* Properties.                                                             *)

\* Every variable of the client has its type; the counter never goes past the
\* threshold, so it never wraps.
TypeOK ==
    /\ phase \in {"closed", "open", "failed", "closing"} \cup Handshaking
    /\ handshakeFuture \in {"none", "pending", "serverNonce", "serverHmac",
                            "badHmac", "error", "odd", "data", "push"}
    /\ sessionKey \in 0..MaxSessions
    /\ counter \in 1..Threshold
    /\ pending \in SUBSET Counters
    /\ DOMAIN future = Counters /\ DOMAIN call = Callers
    /\ \A c \in Callers : /\ call[c].at \in {"idle", "writing", "waiting"}
                          /\ call[c].next \in 1..(Len(call[c].counters) + 1)
    /\ verdict \in {"none", "ok", "failed", "rejected"}

\* The client holds a session key only for the session the device accepted
\* last, with the same PSK.
Agreement == sessionKey # 0 => psk = "same" /\ deviceKey = sessionKey

\* The user is asked for a new key only if the key is wrong: no timeout, lost
\* link or unexpected message of the handshake passes for a refusal.
VerdictSound ==
    /\ verdict = "rejected" => psk # "same"
    /\ verdict = "ok" => psk = "same"

\* No message repeats a counter of its session: the device never takes a
\* genuine request for a replay, whatever timed out or failed before it.
CountersFresh ==
    \A i \in DOMAIN toDevice :
        LET asked == toDevice[i].counters IN
        /\ ToSet(asked) \cap Seen = {} \/ toDevice[i].key # deviceKey
        /\ \A j \in DOMAIN toDevice :
              i # j => ToSet(asked) \cap ToSet(toDevice[j].counters) = {}

\* What a call has got for an answer is the device's answer to its own message,
\* which the device carried out: not one for another caller, not a push, not a
\* late one for a call that was given up.
AnswerMatches ==
    \A c \in Callers : \A i \in DOMAIN call[c].counters :
        LET n == call[c].counters[i] IN
        future[n] \notin {"pending", "refused", "cancelled"} =>
            future[n] = c /\ <<c, n>> \in processed

\* A call that is still waiting can still be reached by its answer: its future
\* is in _pending and the key to read the answer with is there.
WaitersRegistered ==
    \A c \in Callers : \A i \in DOMAIN call[c].counters :
        LET n == call[c].counters[i] IN
        future[n] = "pending" => n \in pending /\ sessionKey # 0

Calls == INSTANCE RemoteCalls WITH
            calling   <- {c \in Callers : Busy(c)},
            executed  <- {c \in Callers : Busy(c) /\ Processed(c)},
            succeeded <- {c \in Callers : call[c].result = "ok"}

\* Requests and batches are the calls of RemoteCalls: a call that returned was
\* carried out once, and every call ends.
ImplementsCalls == Calls!CallsSpec

\* With nothing lost and nobody impatient, every connect() succeeds ...
ConnectSucceeds == ~adverse /\ phase \in Handshaking ~> verdict = "ok"

\* ... and so does every call that was sent: no interleaving of writes, answers
\* and pushes makes the client drop an answer somebody waits for.
EveryCallSucceeds ==
    \A c \in Callers :
        ~adverse /\ call[c].at = "writing" /\ phase = "open" ~> call[c].result = "ok"
=============================================================================
