-------------------------- MODULE BurstReassembler --------------------------
(***************************************************************************)
(* The status the thermostat advertises, cut into chunks that fit a BLE    *)
(* advertisement, and the receiving side: BurstReassembler puts a message  *)
(* together, decrypt_status_advert opens it with the session key.          *)
(*                                                                         *)
(* Nobody acknowledges an advertisement.  The device repeats the chunks of *)
(* a message for a while; a scanner hears any of them, in any order, any   *)
(* number of times, and some never.  Messages are numbered, a fragment is  *)
(* the message it is cut from and its index, and a chunk carries the       *)
(* message's number modulo CounterModulus (one byte, 256, in the code).    *)
(***************************************************************************)
EXTENDS Naturals, Sequences

CONSTANTS MaxMessages,     \* Bound: messages the device advertises
          MaxChunks,       \* Bound: chunks of a message (at most 15)
          CounterModulus,  \* values of the counter byte
          Window,          \* the last messages whose chunks may still be heard
          MaxKeys          \* Bound: handshakes, each with a session key of its own

ASSUME BurstBoundsAssumption ==
    /\ MaxMessages \in Nat /\ MaxKeys \in Nat \ {0}
    /\ MaxChunks \in 1..15 /\ CounterModulus \in Nat \ {0} /\ Window \in Nat \ {0}

VARIABLES
    \* the device
    messages,            \* the messages so far: number of chunks, and session key
    \* the receiver
    pending,             \* _pending, by counter; no bucket is an empty one
    expectedTotal,       \* _expected_total
    sessionKey,
    emitted,             \* what add_chunk has just returned, <<>> for None
    status,              \* what decrypt_status_advert then returned, 0 for None
    \* history
    heard,               \* chunks heard of a message, since its bucket was last dropped
    whole,               \* messages that were emitted
    decrypted,           \* messages that were decrypted
    series               \* by counter: the message heard last, and how often in full

deviceVars == <<messages>>
bucketVars == <<pending, expectedTotal>>
vars == <<deviceVars, bucketVars, sessionKey, emitted, status, heard, whole, decrypted, series>>

Numbers == 1..MaxMessages
Counters == 0..(CounterModulus - 1)
Indices == 0..(MaxChunks - 1)

CounterOf(m) == m % CounterModulus
IndicesOf(m) == 0..(messages[m].total - 1)

NoBucket == <<>>

\* Nothing heard of message m: no chunks in this round, and no round before.
Unheard(m) == [message |-> m, chunks |-> {}, rounds |-> 0]

Init ==
    /\ messages = <<>>
    /\ pending = [c \in Counters |-> NoBucket]
    /\ expectedTotal = [c \in Counters |-> 0]
    /\ sessionKey = 1
    /\ emitted = <<>> /\ status = 0
    /\ heard = [m \in Numbers |-> {}] /\ whole = {} /\ decrypted = {}
    /\ series = [c \in Counters |-> Unheard(0)]

-----------------------------------------------------------------------------
(* The device.                                                             *)

\* A new status, under the session key of the last handshake.
Advertise ==
    /\ Len(messages) < MaxMessages
    /\ \E n \in 1..MaxChunks :
          messages' = Append(messages, [total |-> n, key |-> sessionKey])
    /\ emitted' = <<>> /\ status' = 0
    /\ UNCHANGED <<bucketVars, sessionKey, heard, whole, decrypted, series>>

\* Another handshake: both sides have a new key, and the receiver keeps its
\* buckets.
Rekey ==
    /\ sessionKey < MaxKeys
    /\ sessionKey' = sessionKey + 1
    /\ emitted' = <<>> /\ status' = 0
    /\ UNCHANGED <<deviceVars, bucketVars, heard, whole, decrypted, series>>

-----------------------------------------------------------------------------
(* The receiver.                                                           *)

\* The chunk with this index, as it comes off the air.
Chunk(m, index) ==
    [counter |-> CounterOf(m), index |-> index, total |-> messages[m].total,
     fragment |-> <<m, index>>]

\* Mutant: the receiver does not tell messages apart.
BucketShared(chunk) == 0

\* The bucket a chunk goes to.
Bucket(chunk) == chunk.counter

\* The bucket with the chunk in it, in place of an equal index heard before.
Filled(chunk) ==
    LET before == pending[Bucket(chunk)]
    IN [i \in DOMAIN before \cup {chunk.index} |->
            IF i = chunk.index THEN chunk.fragment ELSE before[i]]

Complete(bucket, total) == \A i \in 0..(total - 1) : i \in DOMAIN bucket

Joined(bucket, total) == [i \in 1..total |-> bucket[i - 1]]

\* The ciphertext of message m, as the device encrypted it.
Ciphertext(m) == [i \in 1..messages[m].total |-> <<m, i - 1>>]

\* AES-GCM: a message, and one that was encrypted with this key, or nothing.
Unwrap(key, ciphertext) ==
    {m \in DOMAIN messages : ciphertext = Ciphertext(m) /\ messages[m].key = key}

\* What the caller has for the ciphertext: the status, or None for one that
\* does not authenticate.
Decrypted(ciphertext) ==
    LET opened == Unwrap(sessionKey, ciphertext)
    IN IF opened = {} THEN 0 ELSE CHOOSE m \in opened : TRUE

\* Mutant: a message that is complete leaves no other behind.
DroppedAll(chunk) == [c \in Counters |-> NoBucket]

\* The buckets once the message is emitted.
Dropped(chunk) == [pending EXCEPT ![Bucket(chunk)] = NoBucket]

\* Mutant: the first chunk in a bucket tells how many there are.
ExpectedFirst(chunk) ==
    LET total == expectedTotal[Bucket(chunk)] IN IF total = 0 THEN chunk.total ELSE total

\* The number of chunks the bucket waits for: each chunk tells.
Expected(chunk) == chunk.total

\* add_chunk, and decrypt_status_advert on what it returns.
AddChunk(chunk) ==
    IF Complete(Filled(chunk), Expected(chunk))
    THEN /\ emitted' = Joined(Filled(chunk), Expected(chunk))
         /\ pending' = Dropped(chunk)
         /\ expectedTotal' = [expectedTotal EXCEPT ![Bucket(chunk)] = 0]
         /\ status' = Decrypted(emitted')
    ELSE /\ emitted' = <<>> /\ status' = 0
         /\ pending' = [pending EXCEPT ![Bucket(chunk)] = Filled(chunk)]
         /\ expectedTotal' = [expectedTotal EXCEPT ![Bucket(chunk)] = Expected(chunk)]

\* The series of a counter once a chunk of m is heard.  Another message begins
\* another series; the first two rounds count.
Continued(m, index) ==
    LET last == series[CounterOf(m)]
        now == IF last.message = m THEN last ELSE Unheard(m)
        chunks == now.chunks \cup {index}
    IN IF now.rounds = 2 THEN now
       ELSE IF chunks = IndicesOf(m)
       THEN [message |-> m, chunks |-> {}, rounds |-> now.rounds + 1]
       ELSE [now EXCEPT !.chunks = chunks]

\* A chunk is heard: it was sent, and not too long ago.
Hear ==
    \E m \in DOMAIN messages : \E index \in IndicesOf(m) :
        /\ Len(messages) < m + Window
        /\ AddChunk(Chunk(m, index))
        /\ heard' = [heard EXCEPT ![m] = @ \cup {index}]
        /\ whole' = whole \cup {n \in DOMAIN messages : emitted' = Ciphertext(n)}
        /\ decrypted' = decrypted \cup ({status'} \ {0})
        /\ series' = [series EXCEPT ![CounterOf(m)] = Continued(m, index)]
        /\ UNCHANGED <<deviceVars, sessionKey>>

Forget(counters) ==
    /\ pending' = [c \in Counters |-> IF c \in counters THEN NoBucket ELSE pending[c]]
    /\ expectedTotal' = [c \in Counters |-> IF c \in counters THEN 0 ELSE expectedTotal[c]]
    /\ heard' = [m \in Numbers |-> IF CounterOf(m) \in counters THEN {} ELSE heard[m]]
    /\ series' = [c \in Counters |-> IF c \in counters THEN Unheard(0) ELSE series[c]]
    /\ emitted' = <<>> /\ status' = 0
    /\ UNCHANGED <<deviceVars, sessionKey, whole, decrypted>>

Discard == \E c \in Counters : Forget({c})

Clear == Forget(Counters)

Next == Advertise \/ Rekey \/ Hear \/ Discard \/ Clear

Spec == Init /\ [][Next]_vars

-----------------------------------------------------------------------------
(* Properties.                                                             *)

NoCounterTwice == Len(messages) <= CounterModulus

\* The docstring of BurstReassembler: repeated and reordered chunks are fine, a
\* message with a chunk missing is never emitted, and messages that are under
\* way together do not corrupt each other.  What is emitted is a message, whole,
\* as long as no counter has come round: a bucket is never evicted, and one left
\* incomplete is filled up by the next message with its counter.
EmittedIsAMessage ==
    NoCounterTwice /\ emitted # <<>> => \E m \in DOMAIN messages : emitted = Ciphertext(m)

\* A message of which every chunk was heard was emitted, in whatever order they
\* came and whatever was heard in between, unless the caller dropped its bucket
\* or an older one had its counter.
HeardIsEmitted ==
    NoCounterTwice =>
        \A m \in DOMAIN messages : heard[m] = IndicesOf(m) => m \in whole

\* Even when counters come round, chunks left in a bucket by an older message, of
\* more chunks or fewer and under an older key, are in the way of the next one only
\* for a while: a message that is heard in full and then once more is emitted, and
\* decrypted if the session key is still its own.  Its first round may be lost, for
\* a bucket is never evicted and the leftovers may complete a mix.
HeardTwiceIsRead ==
    \A c \in Counters : series[c].rounds = 2 =>
        LET m == series[c].message
        IN m \in whole /\ (messages[m].key = sessionKey => m \in decrypted)

\* A bucket holds what its counter's messages sent, and is never complete: a
\* complete one was emitted and dropped (add_chunk).
TypeOK ==
    /\ messages \in Seq([total : 1..MaxChunks, key : 1..MaxKeys])
    /\ \A c \in Counters :
          /\ \A i \in DOMAIN pending[c] :
                pending[c][i][2] = i /\ CounterOf(pending[c][i][1]) = c
          /\ expectedTotal[c] = 0 <=> DOMAIN pending[c] = {}
          /\ expectedTotal[c] # 0 => ~Complete(pending[c], expectedTotal[c])
    /\ sessionKey \in 1..MaxKeys /\ status \in 0..MaxMessages
    /\ heard \in [Numbers -> SUBSET Indices]
    /\ whole \subseteq Numbers /\ decrypted \subseteq Numbers
    /\ series \in [Counters -> [message : 0..MaxMessages, chunks : SUBSET Indices,
                               rounds : 0..2]]
=============================================================================
