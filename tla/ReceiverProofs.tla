--------------------------- MODULE ReceiverProofs ---------------------------
(***************************************************************************)
(* What a receiver can rely on: of status advertisements, for any number   *)
(* of messages, chunks, values of the counter byte, and handshakes; of     *)
(* decrypted frames, for any messages, statuses and bytes.                 *)
(***************************************************************************)
EXTENDS BurstReassembler, Framing, SequenceTheorems, WellFoundedInduction, TLAPS

-----------------------------------------------------------------------------
(* Counters and buckets.                                                   *)

\* The counter of a message is one of the byte's values.
LEMMA CounterType == ASSUME NEW m \in Nat PROVE CounterOf(m) \in Counters
  BY BurstBoundsAssumption DEF CounterOf, Counters

\* Among M consecutive numbers no two have the same remainder by M.
LEMMA RemaindersApart ==
  ASSUME NEW M \in Nat \ {0}, NEW m \in 1..M, NEW n \in 1..M, m % M = n % M
  PROVE  m = n
  OBVIOUS

\* Before a counter comes round, two messages have two counters.
LEMMA CountersApart ==
  ASSUME NEW m \in 1..CounterModulus, NEW n \in 1..CounterModulus,
         CounterOf(m) = CounterOf(n)
  PROVE  m = n
  BY RemaindersApart, BurstBoundsAssumption DEF CounterOf

\* A bucket in which nothing was heard has no chunks.
LEMMA EmptyBucket == DOMAIN NoBucket = {}
  BY EmptySeq, LenProperties DEF NoBucket

-----------------------------------------------------------------------------
(* The inductive invariant.                                                *)

\* TypeOK, with where the fragments of a bucket come from.
BurstTypes ==
    /\ TypeOK
    /\ Len(messages) <= MaxMessages
    /\ DOMAIN pending = Counters /\ expectedTotal \in [Counters -> 0..MaxChunks]
    /\ \A c \in Counters : \A i \in DOMAIN pending[c] :
          i \in Indices /\ pending[c][i][1] \in DOMAIN messages
    /\ \A m \in Numbers \ DOMAIN messages : heard[m] = {}

\* Before a counter comes round, a bucket has fragments of one message only: all that
\* were heard of it, until it is emitted.
BucketOf(m) == pending[CounterOf(m)]

Pure(m) ==
    /\ \A i \in DOMAIN BucketOf(m) : BucketOf(m)[i] = <<m, i>>
    /\ DOMAIN BucketOf(m) # {} => expectedTotal[CounterOf(m)] = messages[m].total
    /\ m \in whole \/ DOMAIN BucketOf(m) = heard[m]

PureInv == NoCounterTwice => \A m \in DOMAIN messages : Pure(m)

\* Leftovers of other messages: none in the bucket, or none in the way of these chunks.
Sole(m) == \A i \in DOMAIN BucketOf(m) : BucketOf(m)[i] = <<m, i>>

Own(m, chunks) == \A i \in chunks : i \in DOMAIN BucketOf(m) /\ BucketOf(m)[i] = <<m, i>>

\* Whenever a counter came round: by the end of its first round a message has cleared
\* its bucket of leftovers, by the end of the second it was emitted.
Following(m, now) ==
    /\ now.rounds = 0 => Own(m, now.chunks) \/ Sole(m)
    /\ now.rounds = 1 => m \in whole \/ (Sole(m) /\ Own(m, now.chunks))
    /\ now.rounds = 2 => m \in whole

SeriesOf(c) ==
    LET m == series[c].message
    IN IF m = 0 THEN series[c].rounds = 0
       ELSE m \in DOMAIN messages /\ CounterOf(m) = c /\ Following(m, series[c])

SeriesInv == \A c \in Counters : SeriesOf(c)

\* A message that was emitted under its own key was decrypted.
ReadInv ==
    /\ whole \subseteq DOMAIN messages
    /\ \A m \in DOMAIN messages : messages[m].key <= sessionKey
    /\ \A m \in whole : messages[m].key = sessionKey => m \in decrypted

BurstInv == BurstTypes /\ PureInv /\ EmittedIsAMessage /\ SeriesInv /\ ReadInv

-----------------------------------------------------------------------------
(* What the steps do.                                                      *)

\* What a message's fields are, its chunks' indices and its counter.
LEMMA MessageTypes ==
  ASSUME BurstTypes
  PROVE  /\ DOMAIN messages = 1..Len(messages) /\ Len(messages) \in Nat
         /\ DOMAIN messages \subseteq Numbers /\ Numbers \subseteq Nat
         /\ \A m \in DOMAIN messages :
               /\ messages[m].total \in 1..MaxChunks /\ messages[m].key \in 1..MaxKeys
               /\ m \in Nat /\ CounterOf(m) \in Counters
               /\ IndicesOf(m) \subseteq Indices
<1>1. DOMAIN messages = 1..Len(messages) /\ Len(messages) \in Nat
  BY LenProperties DEF BurstTypes, TypeOK
<1>2. DOMAIN messages \subseteq Numbers /\ Numbers \subseteq Nat
  BY <1>1, BurstBoundsAssumption DEF BurstTypes, Numbers
<1>3. \A m \in DOMAIN messages :
          messages[m].total \in 1..MaxChunks /\ messages[m].key \in 1..MaxKeys
  <2>1. \A m \in DOMAIN messages : messages[m] \in [total : 1..MaxChunks, key : 1..MaxKeys]
    BY <1>1, ElementOfSeq DEF BurstTypes, TypeOK
  <2> QED
    BY <2>1
<1>4. \A m \in DOMAIN messages : IndicesOf(m) \subseteq Indices
  BY <1>3, BurstBoundsAssumption DEF IndicesOf, Indices
<1> QED
  BY <1>1, <1>2, <1>3, <1>4, CounterType

\* The bucket with the chunk in it.
LEMMA FilledBucket ==
  ASSUME BurstTypes, NEW m \in DOMAIN messages, NEW index \in IndicesOf(m)
  PROVE  LET F == Filled(Chunk(m, index))
         IN  /\ DOMAIN F = DOMAIN BucketOf(m) \cup {index}
             /\ \A i \in DOMAIN F : F[i] = IF i = index THEN <<m, index>> ELSE BucketOf(m)[i]
  BY DEF Filled, Chunk, Bucket, BucketOf

\* A chunk completes a message, which is emitted and its bucket dropped, or is kept.
LEMMA HearEffect ==
  ASSUME BurstTypes, NEW m \in DOMAIN messages, NEW index \in IndicesOf(m),
         AddChunk(Chunk(m, index))
  PROVE  LET F == Filled(Chunk(m, index))  c == CounterOf(m)  total == messages[m].total
         IN  /\ DOMAIN pending' = Counters /\ expectedTotal' \in [Counters -> 0..MaxChunks]
             /\ \A d \in Counters \ {c} : /\ pending'[d] = pending[d]
                                          /\ expectedTotal'[d] = expectedTotal[d]
             /\ \/ /\ Complete(F, total) /\ emitted' = Joined(F, total)
                   /\ status' = Decrypted(emitted')
                   /\ pending'[c] = NoBucket /\ expectedTotal'[c] = 0
                \/ /\ ~Complete(F, total) /\ emitted' = <<>> /\ status' = 0
                   /\ pending'[c] = F /\ expectedTotal'[c] = total
<1>1. /\ CounterOf(m) \in Counters /\ messages[m].total \in 0..MaxChunks
      /\ 0 \in 0..MaxChunks
  BY MessageTypes, BurstBoundsAssumption
<1>2. Bucket(Chunk(m, index)) = CounterOf(m) /\ Expected(Chunk(m, index)) = messages[m].total
  BY DEF Bucket, Chunk, Expected
<1>3. DOMAIN pending = Counters /\ expectedTotal \in [Counters -> 0..MaxChunks]
  BY DEF BurstTypes
<1> QED
  BY <1>1, <1>2, <1>3 DEF AddChunk, Dropped

\* What a ciphertext is decrypted to was encrypted so.
LEMMA DecryptedMessage ==
  ASSUME NEW x, Decrypted(x) # 0
  PROVE  /\ Decrypted(x) \in DOMAIN messages /\ x = Ciphertext(Decrypted(x))
         /\ messages[Decrypted(x)].key = sessionKey
<1>1. Decrypted(x) \in Unwrap(sessionKey, x)
  BY DEF Decrypted
<1> QED
  BY <1>1 DEF Unwrap

\* Dropping buckets.
LEMMA ForgetEffect ==
  ASSUME BurstTypes, NEW C \in SUBSET Counters, Forget(C)
  PROVE  /\ DOMAIN pending' = Counters /\ expectedTotal' \in [Counters -> 0..MaxChunks]
         /\ \A c \in Counters : \/ /\ pending'[c] = NoBucket /\ expectedTotal'[c] = 0
                                   /\ c \in C
                                \/ /\ pending'[c] = pending[c] /\ c \notin C
                                   /\ expectedTotal'[c] = expectedTotal[c]
         /\ heard' \in [Numbers -> SUBSET Indices]
         /\ \A m \in Numbers : heard'[m] = IF CounterOf(m) \in C THEN {} ELSE heard[m]
  BY BurstBoundsAssumption DEF Forget, BurstTypes, TypeOK

\* A new message leaves the others as they were.
LEMMA AdvertiseEffect ==
  ASSUME BurstTypes, Advertise
  PROVE  /\ messages' \in Seq([total : 1..MaxChunks, key : 1..MaxKeys])
         /\ Len(messages') = Len(messages) + 1 /\ Len(messages') <= MaxMessages
         /\ DOMAIN messages' = DOMAIN messages \cup {Len(messages')}
         /\ Len(messages') \in Numbers \ DOMAIN messages
         /\ \A m \in DOMAIN messages : messages'[m] = messages[m]
<1>1. PICK n \in 1..MaxChunks :
          messages' = Append(messages, [total |-> n, key |-> sessionKey])
  BY DEF Advertise
<1>2. Len(messages) \in Nat /\ DOMAIN messages = 1..Len(messages)
  BY MessageTypes
<1>3. /\ messages' \in Seq([total : 1..MaxChunks, key : 1..MaxKeys])
      /\ Len(messages') = Len(messages) + 1
      /\ \A m \in 1..Len(messages) : messages'[m] = messages[m]
  BY <1>1, AppendProperties DEF BurstTypes, TypeOK
<1>4. DOMAIN messages' = 1..(Len(messages) + 1)
  BY <1>3, LenProperties
<1>5. Len(messages') <= MaxMessages /\ Len(messages') \in Numbers \ DOMAIN messages
  BY <1>2, <1>3, BurstBoundsAssumption DEF Advertise, Numbers
<1>6. 1..(Len(messages) + 1) = 1..Len(messages) \cup {Len(messages) + 1}
  BY <1>2
<1> QED
  BY <1>2, <1>3, <1>4, <1>5, <1>6

-----------------------------------------------------------------------------
(* Steps.                                                                  *)

\* What the types say of a bucket: D are the messages so far.
BucketOK(bucket, total, c, D) ==
    /\ \A i \in DOMAIN bucket : /\ bucket[i][2] = i /\ CounterOf(bucket[i][1]) = c
                                /\ i \in Indices /\ bucket[i][1] \in D
    /\ total = 0 <=> DOMAIN bucket = {}
    /\ total # 0 => ~Complete(bucket, total)

\* There is a bucket, and an expected total, for each counter.
LEMMA BucketDomains ==
  ASSUME BurstTypes, Next
  PROVE  DOMAIN pending' = Counters /\ expectedTotal' \in [Counters -> 0..MaxChunks]
<1>1. CASE UNCHANGED bucketVars
  BY <1>1 DEF bucketVars, BurstTypes
<1>2. CASE Hear
  BY <1>2, HearEffect DEF Hear
<1>3. CASE Discard \/ Clear
  BY <1>3, ForgetEffect DEF Discard, Clear
<1> QED
  BY <1>1, <1>2, <1>3 DEF Next, Advertise, Rekey

\* Every step keeps the types, and no step leaves a complete bucket behind.
LEMMA BucketStep ==
  ASSUME BurstTypes, Next, NEW c \in Counters
  PROVE  BucketOK(pending'[c], expectedTotal'[c], c, DOMAIN messages')
<1>0. BucketOK(pending[c], expectedTotal[c], c, DOMAIN messages)
  BY DEF BurstTypes, TypeOK, BucketOK
<1>1. DOMAIN messages \subseteq DOMAIN messages'
  BY AdvertiseEffect DEF Next, Rekey, Hear, Discard, Clear, Forget, deviceVars
<1>2. CASE UNCHANGED <<pending[c], expectedTotal[c]>>
  BY <1>0, <1>1, <1>2 DEF BucketOK
<1>3. CASE pending'[c] = NoBucket /\ expectedTotal'[c] = 0
  BY <1>3, EmptyBucket DEF BucketOK
<1>4. CASE Advertise \/ Rekey
  BY <1>0, <1>2, <1>4 DEF Advertise, Rekey, bucketVars
<1>5. CASE Discard \/ Clear
  BY <1>2, <1>3, <1>5, ForgetEffect DEF Discard, Clear
<1>6. CASE Hear
  <2>1. PICK m \in DOMAIN messages : \E index \in IndicesOf(m) : AddChunk(Chunk(m, index))
    BY <1>6 DEF Hear
  <2>2. PICK index \in IndicesOf(m) : AddChunk(Chunk(m, index))
    BY <2>1
  <2>3. PICK F : /\ F = Filled(Chunk(m, index))
                 /\ DOMAIN F = DOMAIN BucketOf(m) \cup {index}
                 /\ \A i \in DOMAIN F : F[i] = IF i = index THEN <<m, index>>
                                               ELSE BucketOf(m)[i]
    BY FilledBucket
  <2>4. /\ \A d \in Counters \ {CounterOf(m)} :
              pending'[d] = pending[d] /\ expectedTotal'[d] = expectedTotal[d]
        /\ \/ pending'[CounterOf(m)] = NoBucket /\ expectedTotal'[CounterOf(m)] = 0
           \/ /\ ~Complete(F, messages[m].total) /\ pending'[CounterOf(m)] = F
              /\ expectedTotal'[CounterOf(m)] = messages[m].total
    BY <2>2, <2>3, HearEffect
  <2>5. CASE /\ ~Complete(F, messages[m].total) /\ pending'[c] = F /\ c = CounterOf(m)
             /\ expectedTotal'[c] = messages[m].total
    <3>1. messages[m].total \in Nat \ {0} /\ index \in Indices
      BY <2>2, MessageTypes, BurstBoundsAssumption
    <3>2. \A i \in DOMAIN F : /\ F[i][2] = i /\ CounterOf(F[i][1]) = c
                              /\ i \in Indices /\ F[i][1] \in DOMAIN messages
      BY <1>0, <2>3, <2>5, <3>1 DEF BucketOK, BucketOf
    <3> QED
      BY <1>1, <2>3, <2>5, <3>1, <3>2 DEF BucketOK
  <2> QED
    BY <1>2, <1>3, <2>4, <2>5
<1> QED
  BY <1>4, <1>5, <1>6 DEF Next

\* A chunk continues the series of its message or begins one; at the end of a round the
\* chunks are those of the next.
LEMMA ContinuedSeries ==
  ASSUME BurstTypes, NEW m \in DOMAIN messages, NEW index \in IndicesOf(m)
  PROVE  LET last == series[CounterOf(m)]
             now == IF last.message = m THEN last ELSE Unheard(m)
             next == Continued(m, index)
         IN  /\ next \in [message : 0..MaxMessages, chunks : SUBSET Indices, rounds : 0..2]
             /\ next.message = m /\ now.rounds \in 0..2
             /\ \/ now.rounds = 2 /\ next = now
                \/ /\ now.rounds # 2 /\ now.chunks \cup {index} = IndicesOf(m)
                   /\ next.rounds = now.rounds + 1 /\ next.chunks = {}
                \/ /\ now.rounds # 2 /\ now.chunks \cup {index} # IndicesOf(m)
                   /\ next.rounds = now.rounds /\ next.chunks = now.chunks \cup {index}
<1> DEFINE R == [message : 0..MaxMessages, chunks : SUBSET Indices, rounds : 0..2]
<1>1. CounterOf(m) \in Counters /\ m \in 0..MaxMessages /\ index \in Indices
  BY MessageTypes, BurstBoundsAssumption DEF Numbers
<1>2. series[CounterOf(m)] \in R
  BY <1>1 DEF BurstTypes, TypeOK
<1>3. Unheard(m) \in R /\ Unheard(m).message = m
  BY <1>1 DEF Unheard
<1>4. PICK now \in R : /\ now = IF series[CounterOf(m)].message = m THEN series[CounterOf(m)]
                               ELSE Unheard(m)
                       /\ now.message = m
  BY <1>2, <1>3
<1>5. now.rounds \in 0..2 /\ now.chunks \cup {index} \in SUBSET Indices
  BY <1>1, <1>4
<1>6. CASE now.rounds = 2
  BY <1>4, <1>5, <1>6 DEF Continued
<1>7. CASE now.rounds # 2 /\ now.chunks \cup {index} = IndicesOf(m)
  <2>1. Continued(m, index) = [message |-> m, chunks |-> {}, rounds |-> now.rounds + 1]
    BY <1>4, <1>7 DEF Continued
  <2>2. now.rounds + 1 \in 0..2
    BY <1>5, <1>7
  <2> QED
    BY <1>1, <1>4, <1>5, <1>7, <2>1, <2>2
<1>8. CASE now.rounds # 2 /\ now.chunks \cup {index} # IndicesOf(m)
  <2>1. Continued(m, index) = [now EXCEPT !.chunks = now.chunks \cup {index}]
    BY <1>4, <1>8 DEF Continued
  <2> QED
    BY <1>1, <1>4, <1>5, <1>8, <2>1
<1> QED
  BY <1>6, <1>7, <1>8

\* The series keep their types.
LEMMA SeriesTypes ==
  ASSUME BurstTypes, Next
  PROVE  series' \in [Counters -> [message : 0..MaxMessages, chunks : SUBSET Indices,
                                   rounds : 0..2]]
<1> DEFINE R == [message : 0..MaxMessages, chunks : SUBSET Indices, rounds : 0..2]
<1>1. series \in [Counters -> R]
  BY DEF BurstTypes, TypeOK
<1>2. CASE Hear
  <2>1. PICK m \in DOMAIN messages : \E index \in IndicesOf(m) :
            series' = [series EXCEPT ![CounterOf(m)] = Continued(m, index)]
    BY <1>2 DEF Hear
  <2>2. PICK index \in IndicesOf(m) :
            series' = [series EXCEPT ![CounterOf(m)] = Continued(m, index)]
    BY <2>1
  <2>3. Continued(m, index) \in R
    BY ContinuedSeries
  <2> HIDE DEF R
  <2> QED
    BY <1>1, <2>2, <2>3 DEF R
<1>3. CASE Discard \/ Clear
  <2>1. PICK C \in SUBSET Counters :
            series' = [c \in Counters |-> IF c \in C THEN Unheard(0) ELSE series[c]]
    BY <1>3 DEF Discard, Clear, Forget
  <2>2. Unheard(0) \in R
    BY BurstBoundsAssumption DEF Unheard
  <2> HIDE DEF R
  <2> QED
    BY <1>1, <2>1, <2>2 DEF R
<1> QED
  BY <1>1, <1>2, <1>3 DEF Next, Advertise, Rekey

\* The other variables.
LEMMA TypesStep == ASSUME BurstInv, Next PROVE BurstTypes'
<1> USE DEF BurstInv
<1>0. TypeOK /\ Len(messages) <= MaxMessages
  BY DEF BurstTypes
<1>1. \A c \in Counters : BucketOK(pending'[c], expectedTotal'[c], c, DOMAIN messages')
  BY BucketStep
<1>2. /\ messages' \in Seq([total : 1..MaxChunks, key : 1..MaxKeys])
      /\ Len(messages') <= MaxMessages /\ DOMAIN messages \subseteq DOMAIN messages'
  BY <1>0, AdvertiseEffect
  DEF Next, Rekey, Hear, Discard, Clear, Forget, deviceVars, TypeOK
<1>3. sessionKey' \in 1..MaxKeys
  BY <1>0, BurstBoundsAssumption
  DEF Next, Advertise, Rekey, Hear, Discard, Clear, Forget, TypeOK
<1>4. status' \in 0..MaxMessages
  <2>1. 0 \in 0..MaxMessages /\ Numbers \subseteq 0..MaxMessages
    BY BurstBoundsAssumption DEF Numbers
  <2>2. CASE Hear
    <3>1. \E x : status' \in {0, Decrypted(x)}
      BY <2>2, HearEffect DEF Hear
    <3> QED
      BY <2>1, <3>1, DecryptedMessage, MessageTypes
  <2> QED
    BY <2>1, <2>2 DEF Next, Advertise, Rekey, Discard, Clear, Forget
<1>5. /\ heard' \in [Numbers -> SUBSET Indices] /\ whole' \subseteq Numbers
      /\ \A m \in Numbers \ DOMAIN messages' : heard'[m] = {}
  <2>1. /\ heard \in [Numbers -> SUBSET Indices] /\ whole \subseteq Numbers
        /\ \A m \in Numbers \ DOMAIN messages : heard[m] = {}
    BY DEF BurstTypes, TypeOK
  <2>2. CASE Hear
    <3>1. PICK m \in DOMAIN messages : \E index \in IndicesOf(m) :
              heard' = [heard EXCEPT ![m] = @ \cup {index}]
      BY <2>2 DEF Hear
    <3>2. m \in Numbers /\ IndicesOf(m) \subseteq Indices
      BY MessageTypes
    <3>3. whole' \subseteq Numbers
      BY <2>1, <2>2, MessageTypes DEF Hear
    <3> QED
      BY <1>2, <2>1, <3>1, <3>2, <3>3
  <2>3. CASE Discard \/ Clear
    <3>1. PICK C \in SUBSET Counters : Forget(C)
      BY <2>3 DEF Discard, Clear
    <3> QED
      BY <1>2, <2>1, <3>1, ForgetEffect DEF Forget
  <2>4. CASE UNCHANGED <<heard, whole>>
    BY <1>2, <2>1, <2>4
  <2> QED
    BY <2>2, <2>3, <2>4 DEF Next, Advertise, Rekey
<1>6. decrypted' \subseteq Numbers
  <2>1. decrypted \subseteq Numbers /\ Numbers = 1..MaxMessages /\ MaxMessages \in Nat
    BY <1>0, BurstBoundsAssumption DEF TypeOK, Numbers
  <2>2. decrypted' = decrypted \/ decrypted' = decrypted \cup ({status'} \ {0})
    BY DEF Next, Advertise, Rekey, Hear, Discard, Clear, Forget
  <2>3. {status'} \ {0} \subseteq Numbers
    BY <1>4, <2>1
  <2> QED
    BY <2>1, <2>2, <2>3
<1>7. series' \in [Counters -> [message : 0..MaxMessages, chunks : SUBSET Indices,
                                rounds : 0..2]]
  BY SeriesTypes
<1>8. TypeOK'
  BY <1>1, <1>2, <1>3, <1>4, <1>5, <1>6, <1>7 DEF TypeOK, BucketOK
<1> QED
  BY <1>1, <1>2, <1>5, <1>8, BucketDomains DEF BurstTypes, BucketOK

-----------------------------------------------------------------------------
(* One message in a bucket.                                                *)

\* As long as no counter comes twice, messages are told apart by their counters.
LEMMA NumbersApart ==
  ASSUME BurstTypes, NoCounterTwice
  PROVE  /\ DOMAIN messages \subseteq 1..CounterModulus
         /\ \A m, n \in DOMAIN messages : CounterOf(m) = CounterOf(n) => m = n
<1>1. DOMAIN messages \subseteq 1..CounterModulus
  BY MessageTypes, BurstBoundsAssumption DEF NoCounterTwice
<1> QED
  BY <1>1, CountersApart

\* A complete bucket of one message is that message.
LEMMA JoinedMessage ==
  ASSUME BurstTypes, NEW m \in DOMAIN messages, Sole(m), NEW index \in IndicesOf(m),
         Complete(Filled(Chunk(m, index)), messages[m].total)
  PROVE  Joined(Filled(Chunk(m, index)), messages[m].total) = Ciphertext(m)
<1>1. PICK F : /\ F = Filled(Chunk(m, index))
               /\ DOMAIN F = DOMAIN BucketOf(m) \cup {index}
               /\ \A i \in DOMAIN F : F[i] = IF i = index THEN <<m, index>>
                                             ELSE BucketOf(m)[i]
  BY FilledBucket
<1>2. messages[m].total \in Nat
  BY MessageTypes, BurstBoundsAssumption
<1>3. \A i \in DOMAIN F : F[i] = <<m, i>>
  BY <1>1 DEF Sole
<1>4. ASSUME NEW i \in 1..messages[m].total PROVE F[i - 1] = <<m, i - 1>>
  <2>1. i - 1 \in 0..(messages[m].total - 1)
    BY <1>2
  <2> QED
    BY <1>1, <1>3, <2>1 DEF Complete
<1> QED
  BY <1>1, <1>4 DEF Joined, Ciphertext

\* Before a counter comes round, no step mixes two messages.
LEMMA PureStep == ASSUME BurstInv, Next PROVE PureInv'
<1> USE DEF BurstInv
<1> SUFFICES ASSUME NoCounterTwice', NEW n \in DOMAIN messages'
             PROVE  Pure(n)'
  BY DEF PureInv
<1>1. CASE Advertise
  <2>1. /\ UNCHANGED <<pending, expectedTotal, heard, whole>>
        /\ DOMAIN messages' = DOMAIN messages \cup {Len(messages')}
        /\ Len(messages') \in Numbers \ DOMAIN messages
        /\ \A m \in DOMAIN messages : messages'[m] = messages[m]
        /\ Len(messages') = Len(messages) + 1
    BY <1>1, AdvertiseEffect DEF Advertise, bucketVars
  <2>2. Len(messages) \in Nat /\ DOMAIN messages = 1..Len(messages)
    BY MessageTypes
  <2>3. NoCounterTwice /\ Len(messages') \in 1..CounterModulus
    BY <2>1, <2>2, BurstBoundsAssumption DEF NoCounterTwice
  <2>4. CASE n \in DOMAIN messages
    BY <2>1, <2>3, <2>4 DEF PureInv, Pure, BucketOf
  <2>5. CASE n = Len(messages')
    <3>1. n \in Nat /\ CounterOf(n) \in Counters
      BY <2>2, <2>1, <2>5, CounterType
    <3>2. ASSUME NEW i \in DOMAIN pending[CounterOf(n)] PROVE FALSE
      <4>1. /\ pending[CounterOf(n)][i][1] \in DOMAIN messages
            /\ CounterOf(pending[CounterOf(n)][i][1]) = CounterOf(n)
        BY <3>1, <3>2 DEF BurstTypes, TypeOK
      <4>2. pending[CounterOf(n)][i][1] \in 1..CounterModulus
        BY <2>3, <4>1, NumbersApart
      <4> QED
        BY <2>1, <2>3, <2>5, <4>1, <4>2, CountersApart
    <3>3. heard[n] = {} /\ DOMAIN pending[CounterOf(n)] = {}
      BY <2>1, <2>5, <3>2 DEF BurstTypes
    <3> QED
      BY <2>1, <3>3 DEF Pure, BucketOf
  <2> QED
    BY <2>1, <2>4, <2>5
<1>2. ASSUME UNCHANGED messages PROVE NoCounterTwice /\ n \in DOMAIN messages /\ Pure(n)
  BY <1>2 DEF NoCounterTwice, PureInv
<1>3. CASE Rekey
  BY <1>2, <1>3 DEF Rekey, deviceVars, bucketVars, Pure, BucketOf
<1>4. CASE Hear
  <2>1. PICK m \in DOMAIN messages : \E index \in IndicesOf(m) :
            AddChunk(Chunk(m, index)) /\ heard' = [heard EXCEPT ![m] = @ \cup {index}]
    BY <1>4 DEF Hear
  <2>2. PICK index \in IndicesOf(m) :
            AddChunk(Chunk(m, index)) /\ heard' = [heard EXCEPT ![m] = @ \cup {index}]
    BY <2>1
  <2>3. /\ UNCHANGED messages
        /\ whole' = whole \cup {k \in DOMAIN messages : emitted' = Ciphertext(k)}
    BY <1>4 DEF Hear, deviceVars
  <2>4. PICK F : /\ F = Filled(Chunk(m, index))
                 /\ DOMAIN F = DOMAIN BucketOf(m) \cup {index}
                 /\ \A i \in DOMAIN F : F[i] = IF i = index THEN <<m, index>>
                                               ELSE BucketOf(m)[i]
    BY FilledBucket
  <2>5. /\ m \in Numbers /\ n \in Numbers
        /\ CounterOf(n) \in Counters /\ DOMAIN heard = Numbers
    BY <1>2, <2>3, MessageTypes DEF BurstTypes, TypeOK
  <2>6. CASE n # m
    <3>1. CounterOf(n) # CounterOf(m)
      BY <1>2, <2>3, <2>6, NumbersApart
    <3>2. /\ pending'[CounterOf(n)] = pending[CounterOf(n)]
          /\ expectedTotal'[CounterOf(n)] = expectedTotal[CounterOf(n)]
      BY <2>2, <2>5, <3>1, HearEffect
    <3>3. heard'[n] = heard[n]
      BY <2>2, <2>5, <2>6
    <3> QED
      BY <1>2, <2>3, <3>2, <3>3 DEF Pure, BucketOf
  <2>7. CASE n = m /\ Complete(F, messages[m].total)
    <3>1. emitted' = Joined(F, messages[m].total) /\ pending'[CounterOf(m)] = NoBucket
      BY <2>2, <2>4, <2>7, HearEffect
    <3>2. emitted' = Ciphertext(m)
      BY <1>2, <2>3, <2>4, <2>7, <3>1, JoinedMessage DEF Pure, Sole
    <3>3. m \in whole'
      BY <2>3, <3>2
    <3> QED
      BY <2>7, <3>1, <3>3, EmptyBucket DEF Pure, BucketOf
  <2>8. CASE n = m /\ ~Complete(F, messages[m].total)
    <3>1. /\ pending'[CounterOf(m)] = F
          /\ expectedTotal'[CounterOf(m)] = messages[m].total
      BY <2>2, <2>4, <2>8, HearEffect
    <3>2. heard'[m] = heard[m] \cup {index}
      BY <2>2, <2>5
    <3> QED
      BY <1>2, <2>3, <2>4, <2>8, <3>1, <3>2 DEF Pure, BucketOf
  <2> QED
    BY <2>6, <2>7, <2>8
<1>5. CASE Discard \/ Clear
  <2>1. PICK C \in SUBSET Counters : Forget(C)
    BY <1>5 DEF Discard, Clear
  <2>2. UNCHANGED <<messages, whole>>
    BY <2>1 DEF Forget, deviceVars
  <2>3. n \in Numbers /\ CounterOf(n) \in Counters
    BY <2>2, MessageTypes
  <2> QED
    BY <1>2, <2>1, <2>2, <2>3, ForgetEffect, EmptyBucket DEF Pure, BucketOf
<1> QED
  BY <1>1, <1>3, <1>4, <1>5 DEF Next

\* What is emitted is a message, before a counter comes round.
LEMMA EmittedStep == ASSUME BurstInv, Next PROVE EmittedIsAMessage'
<1> USE DEF BurstInv
<1>1. CASE emitted' = <<>>
  BY <1>1 DEF EmittedIsAMessage
<1>2. CASE Hear
  <2>1. PICK m \in DOMAIN messages : \E index \in IndicesOf(m) : AddChunk(Chunk(m, index))
    BY <1>2 DEF Hear
  <2>2. PICK index \in IndicesOf(m) : AddChunk(Chunk(m, index))
    BY <2>1
  <2>3. UNCHANGED messages
    BY <1>2 DEF Hear, deviceVars
  <2>4. CASE /\ Complete(Filled(Chunk(m, index)), messages[m].total)
             /\ emitted' = Joined(Filled(Chunk(m, index)), messages[m].total)
    <3>1. NoCounterTwice => emitted' = Ciphertext(m)
      BY <2>4, JoinedMessage DEF PureInv, Pure, Sole
    <3>2. \A k \in DOMAIN messages : Ciphertext(k)' = Ciphertext(k)
      BY <2>3 DEF Ciphertext
    <3>3. NoCounterTwice' = NoCounterTwice
      BY <2>3 DEF NoCounterTwice
    <3> QED
      BY <2>3, <3>1, <3>2, <3>3 DEF EmittedIsAMessage
  <2> QED
    BY <1>1, <2>2, <2>4, HearEffect
<1> QED
  BY <1>1, <1>2 DEF Next, Advertise, Rekey, Discard, Clear, Forget

-----------------------------------------------------------------------------
(* A message in a bucket with leftovers.                                   *)

\* A ciphertext is not empty, and tells its message.
LEMMA Ciphertexts ==
  ASSUME BurstTypes, NEW m \in DOMAIN messages
  PROVE  /\ Ciphertext(m) # <<>>
         /\ \A k \in DOMAIN messages : Ciphertext(k) = Ciphertext(m) => k = m
<1>1. \A k \in DOMAIN messages : 1 \in 1..messages[k].total
  BY MessageTypes, BurstBoundsAssumption
<1>2. \A k \in DOMAIN messages : 1 \in DOMAIN Ciphertext(k) /\ Ciphertext(k)[1][1] = k
  BY <1>1 DEF Ciphertext
<1>3. DOMAIN <<>> = {}
  BY EmptySeq, LenProperties
<1> QED
  BY <1>2, <1>3

\* Chunks of a message that are all in its bucket complete it.
LEMMA OwnIsComplete ==
  ASSUME BurstTypes, NEW m \in DOMAIN messages, NEW F,
         \A i \in IndicesOf(m) : i \in DOMAIN F
  PROVE  Complete(F, messages[m].total)
  BY DEF Complete, IndicesOf

\* A chunk that is heard continues its message's series.
LEMMA FollowingStep ==
  ASSUME BurstInv, Next, NEW m \in DOMAIN messages, NEW index \in IndicesOf(m),
         AddChunk(Chunk(m, index)), UNCHANGED messages,
         whole' = whole \cup {k \in DOMAIN messages : emitted' = Ciphertext(k)},
         NEW now, Following(m, now), now.rounds \in 0..2, NEW next,
         \/ now.rounds = 2 /\ next = now
         \/ /\ now.rounds # 2 /\ now.chunks \cup {index} = IndicesOf(m)
            /\ next.rounds = now.rounds + 1 /\ next.chunks = {}
         \/ /\ now.rounds # 2 /\ now.chunks \cup {index} # IndicesOf(m)
            /\ next.rounds = now.rounds /\ next.chunks = now.chunks \cup {index}
  PROVE  Following(m, next)'
<1> USE DEF BurstInv
<1> DEFINE chunks == now.chunks \cup {index}
<1> DEFINE full == Filled(Chunk(m, index))
<1>0. /\ DOMAIN full = DOMAIN BucketOf(m) \cup {index}
      /\ \A i \in DOMAIN full : full[i] = IF i = index THEN <<m, index>> ELSE BucketOf(m)[i]
  BY FilledBucket
<1>1. PICK F : /\ F = full
               /\ DOMAIN F = DOMAIN BucketOf(m) \cup {index}
               /\ \A i \in DOMAIN F : F[i] = IF i = index THEN <<m, index>>
                                             ELSE BucketOf(m)[i]
  <2> HIDE DEF full
  <2> QED
    BY <1>0
<1>2. CounterOf(m)' = CounterOf(m)
  BY DEF CounterOf
<1>3. \/ /\ Complete(F, messages[m].total) /\ emitted' = Joined(F, messages[m].total)
         /\ BucketOf(m)' = NoBucket
      \/ ~Complete(F, messages[m].total) /\ BucketOf(m)' = F
  BY <1>1, <1>2, HearEffect DEF BucketOf
<1>4. Own(m, now.chunks) => \A i \in chunks : i \in DOMAIN F /\ F[i] = <<m, i>>
  BY <1>1 DEF Own
<1>5. Sole(m) => \A i \in DOMAIN F : F[i] = <<m, i>>
  BY <1>1 DEF Sole
<1>6. whole \subseteq whole'
  OBVIOUS
<1>7. CASE Complete(F, messages[m].total)
  <2>1. Sole(m)' /\ Own(m, {})'
    BY <1>3, <1>7, EmptyBucket DEF Sole, Own
  <2>2. Sole(m) => m \in whole'
    BY <1>1, <1>3, <1>7, JoinedMessage
  <2> QED
    BY <1>6, <2>1, <2>2 DEF Following
<1>8. CASE ~Complete(F, messages[m].total)
  <2>1. BucketOf(m)' = F
    BY <1>3, <1>8
  <2>2. Own(m, now.chunks) => chunks # IndicesOf(m) /\ Own(m, chunks)'
    BY <1>4, <1>8, <2>1, OwnIsComplete DEF Own
  <2>3. Sole(m) => Sole(m)'
    BY <1>5, <2>1 DEF Sole
  <2>4. Own(m, {})'
    BY DEF Own
  <2> QED
    BY <1>6, <2>2, <2>3, <2>4 DEF Following
<1> QED
  BY <1>7, <1>8

\* Every step keeps what the series of a counter tells.
LEMMA SeriesStep == ASSUME BurstInv, Next PROVE SeriesInv'
<1> USE DEF BurstInv
<1> SUFFICES ASSUME NEW c \in Counters PROVE SeriesOf(c)'
  BY DEF SeriesInv
<1>1. SeriesOf(c)
  BY DEF SeriesInv
<1>2. \A m : CounterOf(m)' = CounterOf(m)
  BY DEF CounterOf
<1>3. ASSUME UNCHANGED <<pending[c], series[c]>>, DOMAIN messages \subseteq DOMAIN messages',
             whole \subseteq whole'
      PROVE  SeriesOf(c)'
  BY <1>1, <1>2, <1>3 DEF SeriesOf, Following, Sole, Own, BucketOf
<1>4. CASE series'[c] = Unheard(0)
  BY <1>4 DEF SeriesOf, Unheard
<1>5. CASE Advertise \/ Rekey
  <2>1. DOMAIN messages \subseteq DOMAIN messages'
    BY <1>5, AdvertiseEffect DEF Rekey, deviceVars
  <2> QED
    BY <1>3, <1>5, <2>1 DEF Advertise, Rekey, bucketVars
<1>6. CASE Discard \/ Clear
  <2>1. PICK C \in SUBSET Counters : Forget(C)
    BY <1>6 DEF Discard, Clear
  <2> QED
    BY <1>3, <1>4, <2>1 DEF Forget, deviceVars
<1>7. CASE Hear
  <2>1. PICK m \in DOMAIN messages : \E index \in IndicesOf(m) :
            /\ AddChunk(Chunk(m, index))
            /\ series' = [series EXCEPT ![CounterOf(m)] = Continued(m, index)]
    BY <1>7 DEF Hear
  <2>2. PICK index \in IndicesOf(m) :
            /\ AddChunk(Chunk(m, index))
            /\ series' = [series EXCEPT ![CounterOf(m)] = Continued(m, index)]
    BY <2>1
  <2>3. /\ UNCHANGED messages
        /\ whole' = whole \cup {k \in DOMAIN messages : emitted' = Ciphertext(k)}
    BY <1>7 DEF Hear, deviceVars
  <2>4. CounterOf(m) \in Counters /\ DOMAIN series = Counters /\ m # 0
    <3>1. CounterOf(m) \in Counters /\ m \in 1..Len(messages) /\ Len(messages) \in Nat
      BY MessageTypes
    <3>2. DOMAIN series = Counters
      BY DEF BurstTypes, TypeOK
    <3> QED
      BY <3>1, <3>2
  <2>5. CASE c # CounterOf(m)
    <3>1. pending'[c] = pending[c]
      BY <2>2, <2>5, HearEffect
    <3>2. series'[c] = series[c]
      BY <2>2, <2>4, <2>5
    <3> QED
      BY <1>3, <2>3, <3>1, <3>2
  <2>6. CASE c = CounterOf(m)
    <3>1. series'[c] = Continued(m, index)
      BY <2>2, <2>4, <2>6
    <3>2. Following(m, IF series[c].message = m THEN series[c] ELSE Unheard(m))
      BY <1>1, <2>4 DEF SeriesOf, Following, Own, Unheard
    <3>3. PICK now, next :
              /\ now = IF series[c].message = m THEN series[c] ELSE Unheard(m)
              /\ next = Continued(m, index)
      OBVIOUS
    <3>4. /\ next.message = m /\ now.rounds \in 0..2
          /\ \/ now.rounds = 2 /\ next = now
             \/ /\ now.rounds # 2 /\ now.chunks \cup {index} = IndicesOf(m)
                /\ next.rounds = now.rounds + 1 /\ next.chunks = {}
             \/ /\ now.rounds # 2 /\ now.chunks \cup {index} # IndicesOf(m)
                /\ next.rounds = now.rounds /\ next.chunks = now.chunks \cup {index}
      BY <2>6, <3>3, ContinuedSeries
    <3>5. Following(m, now)
      BY <3>2, <3>3
    <3>6. Following(m, next)'
      BY <2>2, <2>3, <3>4, <3>5, FollowingStep
    <3>7. series'[c] = next
      BY <3>1, <3>3
    <3> QED
      BY <1>2, <2>3, <2>4, <2>6, <3>4, <3>6, <3>7 DEF SeriesOf
  <2> QED
    BY <2>5, <2>6
<1> QED
  BY <1>5, <1>6, <1>7 DEF Next

\* What is emitted under its own key is decrypted.
LEMMA ReadStep == ASSUME BurstInv, Next PROVE ReadInv'
<1> USE DEF BurstInv
<1>1. /\ whole \subseteq DOMAIN messages
      /\ \A m \in DOMAIN messages : messages[m].key <= sessionKey
      /\ \A m \in whole : messages[m].key = sessionKey => m \in decrypted
  BY DEF ReadInv
<1>2. /\ sessionKey \in Nat
      /\ \A m \in DOMAIN messages : messages[m].key \in Nat
  BY MessageTypes, BurstBoundsAssumption DEF BurstTypes, TypeOK
<1>3. CASE Advertise
  <2>1. UNCHANGED <<sessionKey, whole, decrypted>>
    BY <1>3 DEF Advertise
  <2>2. messages'[Len(messages')].key = sessionKey
    <3>1. PICK n \in 1..MaxChunks :
              messages' = Append(messages, [total |-> n, key |-> sessionKey])
      BY <1>3 DEF Advertise
    <3>2. messages \in Seq([total : 1..MaxChunks, key : 1..MaxKeys])
      BY DEF BurstTypes, TypeOK
    <3> QED
      BY <3>1, <3>2
  <2>3. /\ DOMAIN messages' = DOMAIN messages \cup {Len(messages')}
        /\ \A m \in DOMAIN messages : messages'[m] = messages[m]
    BY <1>3, AdvertiseEffect
  <2>4. \A m \in DOMAIN messages' : messages'[m].key <= sessionKey
    <3>1. sessionKey <= sessionKey
      BY <1>2
    <3> QED
      BY <1>1, <2>2, <2>3, <3>1
  <2> QED
    BY <1>1, <2>1, <2>3, <2>4 DEF ReadInv
<1>4. CASE Rekey
  <2>1. UNCHANGED <<messages, whole, decrypted>> /\ sessionKey' = sessionKey + 1
    BY <1>4 DEF Rekey, deviceVars
  <2> QED
    BY <1>1, <1>2, <2>1 DEF ReadInv
<1>5. CASE Discard \/ Clear
  <2>1. UNCHANGED <<messages, sessionKey, whole, decrypted>>
    BY <1>5 DEF Discard, Clear, Forget, deviceVars
  <2> QED
    BY <1>1, <2>1 DEF ReadInv
<1>6. CASE Hear
  <2>1. /\ UNCHANGED <<messages, sessionKey>>
        /\ whole' = whole \cup {k \in DOMAIN messages : emitted' = Ciphertext(k)}
        /\ decrypted' = decrypted \cup ({status'} \ {0})
    BY <1>6 DEF Hear, deviceVars
  <2>2. ASSUME NEW m \in DOMAIN messages, emitted' = Ciphertext(m), messages[m].key = sessionKey
        PROVE  m \in decrypted'
    <3>1. emitted' # <<>>
      BY <2>2, Ciphertexts
    <3>2. status' = Decrypted(emitted')
      BY <1>6, <3>1, HearEffect DEF Hear
    <3>3. Unwrap(sessionKey, Ciphertext(m)) = {m}
      BY <2>2, Ciphertexts DEF Unwrap
    <3>4. Decrypted(Ciphertext(m)) = m
      BY <3>3 DEF Decrypted
    <3>5. m # 0
      BY MessageTypes DEF Numbers
    <3>6. status' = m
      BY <2>2, <3>2, <3>4
    <3> QED
      BY <2>1, <3>5, <3>6
  <2> QED
    BY <1>1, <2>1, <2>2 DEF ReadInv
<1> QED
  BY <1>3, <1>4, <1>5, <1>6 DEF Next

-----------------------------------------------------------------------------
(* The theorems.                                                           *)

\* It holds at first, when nothing is sent.
LEMMA InitBurstInv == ASSUME Init PROVE BurstInv
<1>1. /\ messages \in Seq([total : 1..MaxChunks, key : 1..MaxKeys])
      /\ Len(messages) = 0 /\ DOMAIN messages = {}
  BY EmptySeq, LenProperties DEF Init
<1>2. \A c \in Counters : pending[c] = NoBucket /\ DOMAIN pending[c] = {}
  BY EmptyBucket DEF Init
<1>3. BurstTypes
  BY <1>1, <1>2, BurstBoundsAssumption DEF Init, BurstTypes, TypeOK, Unheard
<1> QED
  BY <1>1, <1>3 DEF Init, BurstInv, PureInv, EmittedIsAMessage, SeriesInv, SeriesOf, Unheard,
                    ReadInv

\* A step of somebody else keeps it.
LEMMA StutterBurstInv == ASSUME BurstInv, UNCHANGED vars PROVE BurstInv'
<1> USE DEF vars, deviceVars, bucketVars
<1>1. BurstTypes'
  BY DEF BurstInv, BurstTypes, TypeOK
<1>2. PureInv' /\ EmittedIsAMessage'
  BY DEF BurstInv, PureInv, Pure, BucketOf, EmittedIsAMessage, Ciphertext, NoCounterTwice
<1>3. SeriesInv'
  BY DEF BurstInv, SeriesInv, SeriesOf, Following, Sole, Own, BucketOf, CounterOf
<1>4. ReadInv'
  BY DEF BurstInv, ReadInv
<1> QED
  BY <1>1, <1>2, <1>3, <1>4 DEF BurstInv

\* The invariant holds of the device and the receiver.
THEOREM BurstInvHolds == Spec => []BurstInv
<1>1. ASSUME BurstInv, [Next]_vars PROVE BurstInv'
  <2>1. CASE Next
    BY <1>1, <2>1, TypesStep, PureStep, EmittedStep, SeriesStep, ReadStep DEF BurstInv
  <2> QED
    BY <1>1, <2>1, StutterBurstInv
<1> QED
  BY <1>1, InitBurstInv, PTL DEF Spec

\* Every variable has its type, and add_chunk leaves no complete message in its buckets.
THEOREM BurstTypeOK == Spec => []TypeOK
<1>1. BurstInv => TypeOK
  BY DEF BurstInv, BurstTypes
<1> QED
  BY <1>1, BurstInvHolds, PTL

\* Chunks heard in any order, again, or not at all make no message that was not sent,
\* before a counter comes round (the docstring of BurstReassembler).
THEOREM EmittedIsSent == Spec => []EmittedIsAMessage
<1>1. BurstInv => EmittedIsAMessage
  BY DEF BurstInv
<1> QED
  BY <1>1, BurstInvHolds, PTL

\* A message of which every chunk was heard was emitted, whatever else was heard.
THEOREM HeardWholeIsEmitted == Spec => []HeardIsEmitted
<1>1. ASSUME BurstInv PROVE HeardIsEmitted
  <2> USE DEF BurstInv
  <2> SUFFICES ASSUME NoCounterTwice, NEW m \in DOMAIN messages, heard[m] = IndicesOf(m),
                      m \notin whole
               PROVE  FALSE
    BY DEF HeardIsEmitted
  <2>1. /\ DOMAIN BucketOf(m) = IndicesOf(m)
        /\ DOMAIN BucketOf(m) # {} => expectedTotal[CounterOf(m)] = messages[m].total
    BY <1>1 DEF PureInv, Pure
  <2>2. messages[m].total \in Nat \ {0} /\ CounterOf(m) \in Counters
    BY <1>1, MessageTypes, BurstBoundsAssumption
  <2>3. 0 \in IndicesOf(m)
    BY <2>2 DEF IndicesOf
  <2>4. ~Complete(BucketOf(m), messages[m].total)
    BY <1>1, <2>1, <2>2, <2>3 DEF BurstTypes, TypeOK, BucketOf
  <2> QED
    BY <2>1, <2>4 DEF Complete, IndicesOf
<1> QED
  BY <1>1, BurstInvHolds, PTL

\* Even when counters come round, a message heard in full twice in a row is emitted, and
\* decrypted under its own key, whatever an older one left in its bucket.
THEOREM HeardTwiceIsReadHolds == Spec => []HeardTwiceIsRead
<1>1. ASSUME BurstInv PROVE HeardTwiceIsRead
  <2> USE DEF BurstInv
  <2> SUFFICES ASSUME NEW c \in Counters, series[c].rounds = 2
               PROVE  LET m == series[c].message
                      IN m \in whole /\ (messages[m].key = sessionKey => m \in decrypted)
    BY DEF HeardTwiceIsRead
  <2>1. series[c].message \in whole
    BY <1>1 DEF SeriesInv, SeriesOf, Following
  <2> QED
    BY <1>1, <2>1 DEF ReadInv
<1> QED
  BY <1>1, BurstInvHolds, PTL

-----------------------------------------------------------------------------
(* Numbers and sequences.                                                  *)

\* The numbers are well-founded by the order their size gives them.
LEMMA NatOrder ==
  \E R : IsWellFoundedOn(R, Nat) /\ \A x, y \in Nat : y < x => <<y, x>> \in R
<1>1. \A x, y \in Nat : y < x => <<y, x>> \in OpToRel(<, Nat)
  BY DEF OpToRel
<1> QED
  BY <1>1, NatLessThanWellFounded, Zenon

\* A set of numbers that is not empty has a least one.
LEMMA LeastNumber ==
  ASSUME NEW T, T \subseteq Nat, T # {}
  PROVE  \E x \in T : \A y \in T : x <= y
<1>1. PICK R : IsWellFoundedOn(R, Nat) /\ \A x, y \in Nat : y < x => <<y, x>> \in R
  BY NatOrder
<1>2. PICK x \in T : \A y \in T : ~(<<y, x>> \in R)
  BY <1>1, WFMin
<1>3. \A y \in T : ~(y < x)
  BY <1>1, <1>2
<1> QED
  BY <1>3

\* What holds of 0 and passes to the next number holds of all up to N.
LEMMA Upwards ==
  ASSUME NEW N \in Nat, NEW H, 0 \in H, \A n \in 1..N : n - 1 \in H => n \in H
  PROVE  0..N \subseteq H
<1> DEFINE T == (0..N) \ H
<1>1. ASSUME T # {} PROVE FALSE
  <2>0. T \subseteq Nat
    OBVIOUS
  <2>1. PICK m \in T : \A k \in T : m <= k
    <3> HIDE DEF T
    <3> QED
      BY <1>1, <2>0, LeastNumber
  <2>2. m \in 1..N /\ m - 1 \in 0..N /\ m - 1 \notin T
    BY <2>1
  <2> QED
    BY <2>1, <2>2
<1> QED
  BY <1>1

\* What holds of N, and of a number if of all above it up to N, holds of all up to N:
\* a payload is read from its end back.
LEMMA Downwards ==
  ASSUME NEW N \in Nat, NEW H, N \in H,
         \A n \in 0..(N - 1) : (\A k \in (n + 1)..N : k \in H) => n \in H
  PROVE  0..N \subseteq H
<1> DEFINE T == {k \in 0..N : N - k \notin H}
<1>1. ASSUME T # {} PROVE FALSE
  <2>0. T \subseteq Nat
    OBVIOUS
  <2>1. PICK m \in T : \A k \in T : m <= k
    <3> HIDE DEF T
    <3> QED
      BY <1>1, <2>0, LeastNumber
  <2>2. m # 0 /\ N - m \in 0..(N - 1)
    BY <2>1
  <2>3. ASSUME NEW k \in (N - m + 1)..N PROVE k \in H
    <3>1. N - k \in 0..N /\ N - k < m /\ N - (N - k) = k
      BY <2>1
    <3>2. N - k \notin T
      BY <2>1, <3>1
    <3> QED
      BY <3>1, <3>2
  <2>4. N - m \in H
    BY <2>2, <2>3
  <2> QED
    BY <2>1, <2>4
<1>2. ASSUME NEW n \in 0..N PROVE n \in H
  <2>1. N - n \in 0..N /\ N - (N - n) = n
    OBVIOUS
  <2>2. N - n \notin T
    BY <1>1
  <2>3. N - (N - n) \in H
    BY <2>1, <2>2
  <2> QED
    BY <2>1, <2>3
<1> QED
  BY <1>2

\* A function on 1..N is a sequence of N elements.
LEMMA AsSeq ==
  ASSUME NEW S, NEW N \in Nat, NEW xs \in [1..N -> S]
  PROVE  xs \in Seq(S) /\ Len(xs) = N
<1>1. xs \in Seq(S)
  BY SeqDef
<1>2. Len(xs) \in Nat /\ DOMAIN xs = 1..Len(xs) /\ DOMAIN xs = 1..N
  BY <1>1, LenProperties
<1> QED
  BY <1>1, <1>2

\* Where the elements of a concatenation come from.
LEMMA ConcatAt ==
  ASSUME NEW S
  PROVE  \A a, b \in Seq(S) :
            /\ Len(a \o b) = Len(a) + Len(b)
            /\ \A j \in 1..(Len(a) + Len(b)) :
                  (a \o b)[j] = IF j <= Len(a) THEN a[j] ELSE b[j - Len(a)]
  BY ConcatProperties

\* Concatenation is associative.
LEMMA ConcatTriple ==
  ASSUME NEW S
  PROVE  \A a, b, c \in Seq(S) : (a \o b) \o c = a \o (b \o c)
  BY ConcatAssociative

\* The elements of a part of a sequence.
LEMMA Piece ==
  ASSUME NEW S, NEW p \in Seq(S), NEW a \in Nat, NEW b \in Nat, a <= b, b <= Len(p)
  PROVE  /\ SubSeq(p, a + 1, b) \in Seq(S) /\ Len(SubSeq(p, a + 1, b)) = b - a
         /\ \A j \in 1..(b - a) : SubSeq(p, a + 1, b)[j] = p[a + j]
<1> DEFINE t == SubSeq(p, a + 1, b)
<1>1. a + 1 \in Int /\ b \in Int /\ \A i \in (a + 1)..b : p[i] \in S
  OBVIOUS
<1>2. /\ t \in Seq(S) /\ Len(t) = IF a + 1 <= b THEN b - (a + 1) + 1 ELSE 0
      /\ \A j \in 1..(b - (a + 1) + 1) : t[j] = p[a + 1 + j - 1]
  BY <1>1, SubSeqProperties
<1> HIDE DEF t
<1>3. Len(t) = b - a /\ b - (a + 1) + 1 = b - a
  BY <1>2
<1>4. ASSUME NEW j \in 1..(b - a) PROVE t[j] = p[a + j]
  <2>1. j \in 1..(b - (a + 1) + 1) /\ a + 1 + j - 1 = a + j
    BY <1>3
  <2> QED
    BY <1>2, <2>1
<1> QED
  BY <1>2, <1>3, <1>4 DEF t

\* A part of a sequence stays where it is when something is appended.
LEMMA FieldOfLonger ==
  ASSUME NEW S, NEW p \in Seq(S), NEW b \in Seq(S), NEW i \in Nat, NEW j \in Nat,
         i <= j, j <= Len(p)
  PROVE  SubSeq(p \o b, i + 1, j) = SubSeq(p, i + 1, j)
<1> DEFINE q == p \o b
           s == SubSeq(q, i + 1, j)
           t == SubSeq(p, i + 1, j)
<1>1. Len(p) \in Nat /\ Len(b) \in Nat
  OBVIOUS
<1>2. /\ q \in Seq(S) /\ Len(q) = Len(p) + Len(b)
      /\ \A k \in 1..(Len(p) + Len(b)) : q[k] = IF k <= Len(p) THEN p[k] ELSE b[k - Len(p)]
  BY ConcatAt, ConcatProperties
<1> HIDE DEF q
<1>3. j <= Len(q)
  BY <1>1, <1>2
<1>4. s \in Seq(S) /\ Len(s) = j - i /\ \A k \in 1..(j - i) : s[k] = q[i + k]
  BY <1>2, <1>3, Piece
<1>5. t \in Seq(S) /\ Len(t) = j - i /\ \A k \in 1..(j - i) : t[k] = p[i + k]
  BY Piece
<1> HIDE DEF s, t
<1>6. ASSUME NEW k \in 1..Len(s) PROVE s[k] = t[k]
  <2>1. k \in 1..(j - i) /\ i + k \in 1..(Len(p) + Len(b)) /\ i + k <= Len(p)
    BY <1>1, <1>4
  <2> QED
    BY <1>2, <1>4, <1>5, <2>1
<1>7. s = t
  BY <1>4, <1>5, <1>6, SeqEqual
<1> QED
  BY <1>7 DEF s, t, q

\* Two parts that touch make the part that has both.
LEMMA Adjacent ==
  ASSUME NEW S, NEW p \in Seq(S), NEW n \in Nat, NEW a \in Nat, n <= a, a <= Len(p)
  PROVE  SubSeq(p, n + 1, a) \o SubSeq(p, a + 1, Len(p)) = SubSeq(p, n + 1, Len(p))
<1>1. n + 1 \in 1..(Len(p) + 1) /\ a \in ((n + 1) - 1)..Len(p) /\ Len(p) \in a..Len(p)
  OBVIOUS
<1> QED
  BY <1>1, ConcatAdjacentSubSeq

\* A sequence that begins with x and goes on like xs.
LEMMA FirstThen ==
  ASSUME NEW S, NEW x \in S, NEW xs \in Seq(S), NEW ys \in [1..(Len(xs) + 1) -> S],
         ys[1] = x, \A i \in 1..Len(xs) : ys[i + 1] = xs[i]
  PROVE  ys = <<x>> \o xs
<1>1. Len(xs) \in Nat /\ Len(xs) + 1 \in Nat
  OBVIOUS
<1>2. ys \in Seq(S) /\ Len(ys) = Len(xs) + 1
  BY <1>1, AsSeq
<1>3. <<x>> \in Seq(S) /\ Len(<<x>>) = 1 /\ <<x>>[1] = x
  OBVIOUS
<1> DEFINE o == <<x>>
           zs == o \o xs
<1> HIDE DEF o
<1>4. /\ zs \in Seq(S) /\ Len(zs) = 1 + Len(xs)
      /\ \A j \in 1..(1 + Len(xs)) : zs[j] = IF j <= 1 THEN o[j] ELSE xs[j - 1]
  BY <1>1, <1>3, ConcatAt, ConcatProperties DEF o
<1> HIDE DEF zs
<1>5. ASSUME NEW j \in 1..Len(ys) PROVE ys[j] = zs[j]
  <2>1. CASE j = 1
    BY <1>1, <1>3, <1>4, <2>1 DEF o
  <2>2. CASE j # 1
    <3>1. j - 1 \in 1..Len(xs) /\ (j - 1) + 1 = j /\ j \in 1..(1 + Len(xs)) /\ ~(j <= 1)
      BY <1>1, <1>2, <2>2
    <3> QED
      BY <1>4, <3>1
  <2> QED
    BY <2>1, <2>2
<1>6. ys = zs
  <2>1. Len(ys) = Len(zs)
    BY <1>1, <1>2, <1>4
  <2> QED
    BY <1>2, <1>4, <1>5, <2>1, SeqEqual
<1> QED
  BY <1>6 DEF zs, o

\* An element put before a sequence can be taken off again.
LEMMA HeadAndTail ==
  ASSUME NEW S, NEW x \in S, NEW p \in Seq(S)
  PROVE  <<x>> \o p # <<>> /\ (<<x>> \o p)[1] = x /\ Tail(<<x>> \o p) = p
<1> DEFINE d == <<x>> \o p
<1>1. Len(p) \in Nat /\ <<x>> \in Seq(S) /\ Len(<<x>>) = 1 /\ <<x>>[1] = x
  OBVIOUS
<1>2. /\ d \in Seq(S) /\ Len(d) = 1 + Len(p)
      /\ \A j \in 1..(1 + Len(p)) : d[j] = IF j <= 1 THEN <<x>>[j] ELSE p[j - 1]
  BY <1>1, ConcatAt, ConcatProperties
<1> HIDE DEF d
<1>3. d # <<>> /\ d[1] = x
  BY <1>1, <1>2
<1>4. /\ Tail(d) \in Seq(S) /\ Len(Tail(d)) = Len(d) - 1
      /\ \A j \in 1..Len(Tail(d)) : Tail(d)[j] = d[j + 1]
  BY <1>2, <1>3, HeadTailProperties
<1>5. ASSUME NEW j \in 1..Len(Tail(d)) PROVE Tail(d)[j] = p[j]
  <2>1. j + 1 \in 1..(1 + Len(p)) /\ ~(j + 1 <= 1) /\ (j + 1) - 1 = j
    BY <1>1, <1>2, <1>4
  <2> QED
    BY <1>2, <1>4, <2>1
<1>6. Len(Tail(d)) = Len(p)
  BY <1>1, <1>2, <1>4
<1>7. Tail(d) = p
  BY <1>4, <1>5, <1>6, SeqEqual
<1> QED
  BY <1>3, <1>7 DEF d

\* The length of a concatenation.
LEMMA LongerLen ==
  ASSUME NEW S, NEW x \in Seq(S), NEW y \in Seq(S)
  PROVE  Len(x \o y) = Len(x) + Len(y) /\ Len(x) \in Nat /\ Len(y) \in Nat
  OBVIOUS

\* Two elements after two.
LEMMA FourOf ==
  ASSUME NEW S, NEW a \in Seq(S), NEW b \in Seq(S), Len(a) = 2, Len(b) = 2
  PROVE  /\ a \o b \in Seq(S) /\ Len(a \o b) = 4
         /\ (a \o b)[1] = a[1] /\ (a \o b)[2] = a[2]
         /\ (a \o b)[3] = b[1] /\ (a \o b)[4] = b[2]
<1>1. /\ Len(a \o b) = Len(a) + Len(b)
      /\ \A j \in 1..(Len(a) + Len(b)) :
            (a \o b)[j] = IF j <= Len(a) THEN a[j] ELSE b[j - Len(a)]
  BY ConcatAt
<1>2. \A j \in 1..4 : (a \o b)[j] = IF j <= 2 THEN a[j] ELSE b[j - 2]
  BY <1>1
<1>3. a \o b \in Seq(S)
  OBVIOUS
<1> QED
  BY <1>1, <1>2, <1>3

\* Two elements after four.
LEMMA SixOf ==
  ASSUME NEW S, NEW a \in Seq(S), NEW b \in Seq(S), Len(a) = 4, Len(b) = 2
  PROVE  /\ a \o b \in Seq(S) /\ Len(a \o b) = 6
         /\ (a \o b)[1] = a[1] /\ (a \o b)[2] = a[2]
         /\ (a \o b)[3] = a[3] /\ (a \o b)[4] = a[4]
         /\ (a \o b)[5] = b[1] /\ (a \o b)[6] = b[2]
<1>1. /\ Len(a \o b) = Len(a) + Len(b)
      /\ \A j \in 1..(Len(a) + Len(b)) :
            (a \o b)[j] = IF j <= Len(a) THEN a[j] ELSE b[j - Len(a)]
  BY ConcatAt
<1>2. \A j \in 1..6 : (a \o b)[j] = IF j <= 4 THEN a[j] ELSE b[j - 4]
  BY <1>1
<1>3. a \o b \in Seq(S)
  OBVIOUS
<1> QED
  BY <1>1, <1>2, <1>3

\* Any elements after six.
LEMMA EndOf ==
  ASSUME NEW S, NEW a \in Seq(S), NEW b \in Seq(S), Len(a) = 6
  PROVE  /\ Len(a \o b) = 6 + Len(b)
         /\ \A j \in 1..(6 + Len(b)) : (a \o b)[j] = IF j <= 6 THEN a[j] ELSE b[j - 6]
<1>1. /\ Len(a \o b) = Len(a) + Len(b)
      /\ \A j \in 1..(Len(a) + Len(b)) :
            (a \o b)[j] = IF j <= Len(a) THEN a[j] ELSE b[j - Len(a)]
  BY ConcatAt
<1> QED
  BY <1>1

\* The bytes of b are those of p after the first o.
Held(p, o, b) ==
    /\ o \in Nat /\ o + Len(b) <= Len(p)
    /\ \A j \in 1..Len(b) : p[o + j] = b[j]

\* What a sequence holds at an offset is its part there.
LEMMA HeldSubSeq ==
  ASSUME NEW S, NEW p \in Seq(S), NEW o, NEW b \in Seq(S), Held(p, o, b)
  PROVE  SubSeq(p, o + 1, o + Len(b)) = b
<1> DEFINE e == o + Len(b)
           t == SubSeq(p, o + 1, e)
<1>1. o \in Nat /\ Len(b) \in Nat /\ e \in Nat /\ o <= e /\ e <= Len(p) /\ e - o = Len(b)
  BY DEF Held
<1> HIDE DEF e
<1>2. t \in Seq(S) /\ Len(t) = e - o /\ \A j \in 1..(e - o) : t[j] = p[o + j]
  BY <1>1, Piece
<1> HIDE DEF t
<1>3. \A j \in 1..Len(t) : t[j] = b[j]
  BY <1>1, <1>2 DEF Held
<1>4. t = b
  BY <1>1, <1>2, <1>3, SeqEqual
<1> QED
  BY <1>4 DEF t, e

-----------------------------------------------------------------------------
(* Sums and joined sequences.                                              *)

\* What Sums makes of the first n numbers.
Sum(w, f, n) == IF n = 0 THEN 0 ELSE f[n - 1] + w[n]

\* There is a function that sums as Sums does.
LEMMA SumsExist ==
  ASSUME NEW w, NEW N \in Nat
  PROVE  \E f : f = [n \in 0..N |-> Sum(w, f, n)]
<1> DEFINE H == {k \in Nat : \E f : f = [n \in 0..k |-> Sum(w, f, n)]}
<1>1. 0 \in H
  <2> DEFINE f == [n \in 0..0 |-> 0]
  <2>1. f = [n \in 0..0 |-> Sum(w, f, n)]
    BY DEF Sum
  <2> QED
    BY <2>1
<1>2. ASSUME NEW k \in 1..N, k - 1 \in H PROVE k \in H
  <2>1. PICK f : f = [n \in 0..(k - 1) |-> Sum(w, f, n)]
    BY <1>2
  <2> DEFINE g == [n \in 0..k |-> IF n < k THEN f[n] ELSE Sum(w, f, n)]
  <2>2. ASSUME NEW n \in 0..k PROVE g[n] = Sum(w, g, n)
    <3>1. n > 0 => f[n - 1] = g[n - 1]
      OBVIOUS
    <3>2. g[n] = Sum(w, f, n)
      BY <2>1
    <3> QED
      BY <3>1, <3>2 DEF Sum
  <2>3. g = [n \in 0..k |-> Sum(w, g, n)]
    BY <2>2
  <2> HIDE DEF g
  <2> QED
    BY <2>3
<1>3. 0..N \subseteq H
  <2> HIDE DEF H
  <2> QED
    BY <1>1, <1>2, Upwards
<1> QED
  BY <1>3

\* Sums starts at zero and adds one number at a time.
LEMMA SumsStep ==
  ASSUME NEW w \in Seq(Nat)
  PROVE  /\ Sums(w) \in [0..Len(w) -> Nat]
         /\ Sums(w)[0] = 0
         /\ \A n \in 1..Len(w) : Sums(w)[n] = Sums(w)[n - 1] + w[n]
<1> DEFINE s == Sums(w)
<1>0. Len(w) \in Nat
  OBVIOUS
<1>1. s = CHOOSE f : f = [n \in 0..Len(w) |-> Sum(w, f, n)]
  BY DEF Sums, Sum
<1>2. s = [n \in 0..Len(w) |-> Sum(w, s, n)]
  BY <1>0, <1>1, SumsExist
<1> HIDE DEF s
<1>3. /\ DOMAIN s = 0..Len(w) /\ s[0] = 0
      /\ \A n \in 1..Len(w) : s[n] = s[n - 1] + w[n]
  BY <1>0, <1>2 DEF Sum
<1> DEFINE H == {n \in Nat : s[n] \in Nat}
<1>4. 0 \in H
  BY <1>3
<1>5. ASSUME NEW n \in 1..Len(w), n - 1 \in H PROVE n \in H
  BY <1>3, <1>5
<1>6. 0..Len(w) \subseteq H
  <2> HIDE DEF H
  <2> QED
    BY <1>0, <1>4, <1>5, Upwards
<1>7. s \in [0..Len(w) -> Nat]
  <2>1. s = [n \in 0..Len(w) |-> s[n]]
    BY <1>2
  <2> QED
    BY <1>6, <2>1
<1> QED
  BY <1>3, <1>7 DEF s

\* What FlattenSeq makes of the first i parts.
Joint(parts, f, i) == IF i = 1 THEN parts[i] ELSE f[i - 1] \o parts[i]

\* There is a function that joins parts as FlattenSeq does.
LEMMA JointsExist ==
  ASSUME NEW parts, NEW N \in Nat
  PROVE  \E f : f = [i \in 1..N |-> Joint(parts, f, i)]
<1> DEFINE H == {k \in Nat : \E f : f = [i \in 1..k |-> Joint(parts, f, i)]}
<1>1. 0 \in H
  <2> DEFINE f == [i \in 1..0 |-> 0]
  <2>1. f = [i \in 1..0 |-> Joint(parts, f, i)]
    OBVIOUS
  <2> QED
    BY <2>1
<1>2. ASSUME NEW k \in 1..N, k - 1 \in H PROVE k \in H
  <2>1. PICK f : f = [i \in 1..(k - 1) |-> Joint(parts, f, i)]
    BY <1>2
  <2> DEFINE g == [i \in 1..k |-> IF i < k THEN f[i] ELSE Joint(parts, f, i)]
  <2>2. ASSUME NEW i \in 1..k PROVE g[i] = Joint(parts, g, i)
    <3>1. i > 1 => f[i - 1] = g[i - 1]
      OBVIOUS
    <3>2. g[i] = Joint(parts, f, i)
      BY <2>1
    <3> QED
      BY <3>1, <3>2 DEF Joint
  <2>3. g = [i \in 1..k |-> Joint(parts, g, i)]
    BY <2>2
  <2> HIDE DEF g
  <2> QED
    BY <2>3
<1>3. 0..N \subseteq H
  <2> HIDE DEF H
  <2> QED
    BY <1>1, <1>2, Upwards
<1> QED
  BY <1>3

\* FlattenSeq puts one part after the other.
LEMMA FlattenStep ==
  ASSUME NEW S, NEW parts \in Seq(Seq(S))
  PROVE  \E f : /\ f \in [0..Len(parts) -> Seq(S)] /\ f[0] = <<>>
                /\ \A i \in 1..Len(parts) : f[i] = f[i - 1] \o parts[i]
                /\ FlattenSeq(parts) = f[Len(parts)]
<1>1. Len(parts) \in Nat /\ <<>> \in Seq(S)
  OBVIOUS
<1>2. PICK g : g = [i \in 1..Len(parts) |-> Joint(parts, g, i)] /\
               (Len(parts) # 0 => FlattenSeq(parts) = g[Len(parts)])
  <2> DEFINE g == CHOOSE f : f = [i \in 1..Len(parts) |-> Joint(parts, f, i)]
  <2>1. g = [i \in 1..Len(parts) |-> Joint(parts, g, i)]
    BY <1>1, JointsExist
  <2>2. Len(parts) # 0 => FlattenSeq(parts) = g[Len(parts)]
    BY DEF FlattenSeq, Joint
  <2> HIDE DEF g
  <2> QED
    BY <2>1, <2>2
<1> DEFINE f == [i \in 0..Len(parts) |-> IF i = 0 THEN <<>> ELSE g[i]]
<1>3. ASSUME NEW i \in 1..Len(parts) PROVE f[i] = f[i - 1] \o parts[i]
  <2>1. parts[i] \in Seq(S)
    OBVIOUS
  <2>2. g[i] = Joint(parts, g, i)
    BY <1>2
  <2>3. <<>> \o parts[i] = parts[i]
    BY <2>1, ConcatEmptySeq
  <2>4. f[i] = g[i] /\ f[i - 1] = IF i = 1 THEN <<>> ELSE g[i - 1]
    BY <1>1
  <2> QED
    BY <2>2, <2>3, <2>4 DEF Joint
<1>4. FlattenSeq(parts) = f[Len(parts)]
  <2>1. CASE Len(parts) = 0
    <3>1. parts = <<>>
      BY <2>1
    <3> QED
      BY <2>1, <3>1 DEF FlattenSeq
  <2> QED
    BY <1>1, <1>2, <2>1
<1> DEFINE H == {i \in Nat : f[i] \in Seq(S)}
<1>5. 0 \in H
  BY <1>1
<1>6. ASSUME NEW i \in 1..Len(parts), i - 1 \in H PROVE i \in H
  <2>1. parts[i] \in Seq(S)
    OBVIOUS
  <2>2. f[i - 1] \in Seq(S)
    BY <1>6
  <2>3. f[i] \in Seq(S)
    <3> HIDE DEF f
    <3> QED
      BY <1>3, <2>1, <2>2, ConcatProperties
  <2> QED
    BY <2>3
<1>7. 0..Len(parts) \subseteq H
  <2> HIDE DEF H
  <2> QED
    BY <1>1, <1>5, <1>6, Upwards
<1>8. f \in [0..Len(parts) -> Seq(S)]
  <2>1. \A i \in 0..Len(parts) : f[i] \in Seq(S)
    BY <1>7
  <2> QED
    BY <2>1
<1>9. f[0] = <<>>
  BY <1>1
<1> HIDE DEF f
<1> QED
  BY <1>3, <1>4, <1>8, <1>9

\* Sequences of sequences.
Rows(S) == Seq(Seq(S))

\* The parts of a flattened sequence begin after the first o[0], o[1], ...
Offsets(parts, o) ==
    /\ o \in [0..Len(parts) -> Nat] /\ o[0] = 0
    /\ \A i \in 1..Len(parts) : o[i] = o[i - 1] + Len(parts[i])

\* A place in the second of two parts is none of the first.
LEMMA Shifted ==
  ASSUME NEW a \in Nat, NEW n \in Nat, NEW j \in 1..n
  PROVE  a + j \in 1..(a + n) /\ ~(a + j <= a) /\ (a + j) - a = j
  BY SMT

\* A place in a part that ends early enough is a place before the last part.
LEMMA PlaceBefore ==
  ASSUME NEW a \in Nat, NEW n \in Nat, NEW j \in 1..n, NEW c \in Nat, a + n <= c, NEW d \in Nat
  PROVE  a + j \in 1..(c + d) /\ a + j <= c
  BY SMT

\* What ends before the last part ends before its end.
LEMMA EndsBefore ==
  ASSUME NEW a \in Nat, NEW b \in Nat, a <= b, NEW d \in Nat
  PROVE  a <= b + d
  BY SMT

\* A pair of elements is given by the two.
LEMMA TwoEqual ==
  ASSUME NEW S, NEW f \in [1..2 -> S], NEW g \in [1..2 -> S], f[1] = g[1], f[2] = g[2]
  PROVE  f = g
<1>1. \A i \in 1..2 : i = 1 \/ i = 2
  OBVIOUS
<1>2. \A i \in 1..2 : f[i] = g[i]
  BY <1>1, Zenon
<1> QED
  BY <1>2

\* What is joined can be taken apart again, if the widths of the parts are known.
LEMMA FlattenParts ==
  ASSUME NEW S, NEW parts \in Rows(S), NEW o, Offsets(parts, o)
  PROVE  /\ FlattenSeq(parts) \in Seq(S)
         /\ Len(FlattenSeq(parts)) = o[Len(parts)]
         /\ \A i \in 1..Len(parts) :
               /\ o[i] <= Len(FlattenSeq(parts))
               /\ SubSeq(FlattenSeq(parts), o[i - 1] + 1, o[i]) = parts[i]
<1> DEFINE N == Len(parts)
<1>0. N \in Nat
  BY DEF Rows
<1>1. PICK f : /\ f \in [0..N -> Seq(S)] /\ f[0] = <<>>
               /\ \A i \in 1..N : f[i] = f[i - 1] \o parts[i]
               /\ FlattenSeq(parts) = f[N]
  BY FlattenStep DEF Rows
<1>2. \A i \in 1..N : /\ parts[i] \in Seq(S) /\ Len(parts[i]) \in Nat
                     /\ i \in 0..N /\ i - 1 \in 0..N /\ o[i] \in Nat /\ o[i - 1] \in Nat
                     /\ o[i] = o[i - 1] + Len(parts[i])
  <2>1. ASSUME NEW i \in 1..N PROVE parts[i] \in Seq(S) /\ Len(parts[i]) \in Nat
    BY DEF Rows
  <2>2. ASSUME NEW i \in 1..N PROVE i \in 0..N /\ i - 1 \in 0..N
    BY <1>0
  <2> QED
    BY <2>1, <2>2 DEF Offsets
<1> HIDE DEF N
<1> DEFINE Holds(k, i) == /\ o[i] <= o[k]
                          /\ \A j \in 1..Len(parts[i]) : f[k][o[i - 1] + j] = parts[i][j]
           H == {k \in 0..N : Len(f[k]) = o[k] /\ \A i \in 1..k : Holds(k, i)}
<1>3. 0 \in H
  BY <1>0, <1>1 DEF Offsets, N
<1>4. ASSUME NEW k \in 1..N, k - 1 \in H PROVE k \in H
  <2>1. /\ f[k] = f[k - 1] \o parts[k] /\ parts[k] \in Seq(S) /\ f[k - 1] \in Seq(S)
        /\ o[k] = o[k - 1] + Len(parts[k]) /\ Len(parts[k]) \in Nat /\ o[k - 1] \in Nat
        /\ Len(f[k - 1]) = o[k - 1]
    <3>1. Len(f[k - 1]) = o[k - 1]
      BY <1>4
    <3> HIDE DEF H
    <3> QED
      BY <1>1, <1>2, <3>1
  <2>2. /\ Len(f[k]) = o[k]
        /\ \A j \in 1..o[k] : f[k][j] = IF j <= o[k - 1] THEN f[k - 1][j]
                                        ELSE parts[k][j - o[k - 1]]
    <3> HIDE DEF H
    <3>1. /\ Len(f[k]) = Len(f[k - 1]) + Len(parts[k])
          /\ \A j \in 1..(Len(f[k - 1]) + Len(parts[k])) :
                f[k][j] = IF j <= Len(f[k - 1]) THEN f[k - 1][j]
                          ELSE parts[k][j - Len(f[k - 1])]
      <4>1. f[k - 1] \in Seq(S) /\ parts[k] \in Seq(S)
        BY <2>1
      <4> DEFINE u == f[k - 1]  v == parts[k]
      <4>2. /\ Len(u \o v) = Len(u) + Len(v)
            /\ \A j \in 1..(Len(u) + Len(v)) :
                  (u \o v)[j] = IF j <= Len(u) THEN u[j] ELSE v[j - Len(u)]
        <5> HIDE DEF u, v
        <5>1. u \in Seq(S) /\ v \in Seq(S)
          BY <4>1 DEF u, v
        <5> QED
          BY <5>1, ConcatAt, Zenon
      <4>3. f[k] = u \o v
        BY <2>1
      <4> HIDE DEF u, v
      <4>4. /\ Len(f[k]) = Len(u) + Len(v)
            /\ \A j \in 1..(Len(u) + Len(v)) :
                  f[k][j] = IF j <= Len(u) THEN u[j] ELSE v[j - Len(u)]
        BY <4>2, <4>3, Zenon
      <4> QED
        BY <4>4 DEF u, v
    <3> QED
      BY <2>1, <3>1
  <2>3. ASSUME NEW i \in 1..k PROVE Holds(k, i)
    <3>0. i \in 1..N
      BY <1>0
    <3>1. /\ o[i] = o[i - 1] + Len(parts[i]) /\ Len(parts[i]) \in Nat
          /\ o[i] \in Nat /\ o[i - 1] \in Nat
      BY <1>2, <3>0
    <3>2. CASE i = k
      <4>1. ASSUME NEW j \in 1..Len(parts[k]) PROVE f[k][o[k - 1] + j] = parts[k][j]
        <5> DEFINE m == o[k - 1] + j
        <5>1. m \in 1..o[k] /\ ~(m <= o[k - 1]) /\ m - o[k - 1] = j
          BY <2>1, Shifted, Zenon
        <5> HIDE DEF H, Holds, m
        <5>2. f[k][m] = parts[k][j]
          BY <2>2, <5>1
        <5> QED
          BY <5>2 DEF m
      <4>2. o[i] <= o[k]
        BY <3>1, <3>2
      <4> QED
        BY <3>2, <4>1, <4>2
    <3>3. CASE i # k
      <4>1. i \in 1..(k - 1)
        BY <3>3
      <4>2. Holds(k - 1, i)
        BY <1>4, <4>1
      <4>3. ASSUME NEW j \in 1..Len(parts[i]) PROVE f[k][o[i - 1] + j] = parts[i][j]
        <5>1. o[i - 1] + j \in 1..o[k] /\ o[i - 1] + j <= o[k - 1]
          <6>1. o[i] <= o[k - 1]
            BY <4>2
          <6>2. o[i - 1] + Len(parts[i]) <= o[k - 1]
            BY <3>1, <6>1, Zenon
          <6>3. /\ o[k] = o[k - 1] + Len(parts[k])
                /\ Len(parts[k]) \in Nat /\ o[k - 1] \in Nat
            BY <2>1, Zenon
          <6>4. o[i - 1] \in Nat /\ Len(parts[i]) \in Nat
            BY <3>1, Zenon
          <6> QED
            BY <6>2, <6>3, <6>4, PlaceBefore, Zenon
        <5>2. f[k][o[i - 1] + j] = f[k - 1][o[i - 1] + j]
          <6> HIDE DEF H
          <6> QED
            BY <2>2, <5>1
        <5> QED
          BY <4>2, <5>2
      <4> QED
        <5>1. o[i] <= o[k]
          <6>1. o[i] <= o[k - 1]
            BY <4>2
          <6> QED
            BY <2>1, <3>1, <6>1, EndsBefore, Zenon
        <5> QED
          BY <4>3, <5>1
    <3> QED
      BY <3>2, <3>3
  <2> QED
    BY <2>2, <2>3
<1>5. N \in H
  <2>1. 0..N \subseteq H
    <3> HIDE DEF H
    <3> QED
      BY <1>0, <1>3, <1>4, Upwards
  <2>2. N \in 0..N
    BY <1>0
  <2> HIDE DEF H
  <2> QED
    BY <2>1, <2>2
<1>6. ASSUME NEW i \in 1..N PROVE /\ o[i] <= Len(f[N])
                               /\ SubSeq(f[N], o[i - 1] + 1, o[i]) = parts[i]
  <2>1. /\ o[i] = o[i - 1] + Len(parts[i]) /\ o[i - 1] \in Nat /\ o[i] \in Nat
        /\ o[i] <= Len(f[N]) /\ f[N] \in Seq(S) /\ parts[i] \in Seq(S)
        /\ Len(parts[i]) \in Nat
    <3>1. o[i] <= o[N] /\ Len(f[N]) = o[N]
      BY <1>5
    <3>2. N \in 0..N
      BY <1>0
    <3> HIDE DEF H
    <3> QED
      BY <1>1, <1>2, <3>1, <3>2
  <2>2. \A j \in 1..Len(parts[i]) : f[N][o[i - 1] + j] = parts[i][j]
    BY <1>5
  <2> HIDE DEF H
  <2> DEFINE t == SubSeq(f[N], o[i - 1] + 1, o[i])
  <2>3. \A j \in (o[i - 1] + 1)..o[i] : f[N][j] \in S
    BY <2>1
  <2>4. /\ t \in Seq(S)
        /\ Len(t) = IF o[i - 1] + 1 <= o[i] THEN o[i] - (o[i - 1] + 1) + 1 ELSE 0
        /\ \A j \in 1..(o[i] - (o[i - 1] + 1) + 1) : t[j] = f[N][o[i - 1] + 1 + j - 1]
    <3>1. o[i - 1] + 1 \in Int /\ o[i] \in Int
      BY <2>1
    <3> QED
      BY <2>3, <3>1, SubSeqProperties
  <2> HIDE DEF t
  <2>5. Len(t) = Len(parts[i])
    BY <2>1, <2>4
  <2>6. ASSUME NEW j \in 1..Len(t) PROVE t[j] = parts[i][j]
    <3>1. /\ j \in 1..(o[i] - (o[i - 1] + 1) + 1) /\ o[i - 1] + 1 + j - 1 = o[i - 1] + j
          /\ j \in 1..Len(parts[i])
      BY <2>1, <2>5
    <3> QED
      BY <2>2, <2>4, <3>1
  <2>7. t = parts[i]
    BY <2>1, <2>4, <2>5, <2>6, SeqEqual
  <2> QED
    BY <2>1, <2>7 DEF t
<1> QED
  BY <1>0, <1>1, <1>5, <1>6 DEF N

\* The first part comes first, then the others.
LEMMA FlattenFirst ==
  ASSUME NEW S, NEW x \in Seq(S), NEW xs \in Rows(S)
  PROVE  FlattenSeq(<<x>> \o xs) = x \o FlattenSeq(xs) /\ FlattenSeq(xs) \in Seq(S)
<1> DEFINE ys == <<x>> \o xs
           N == Len(xs)
<1>1. /\ N \in Nat /\ ys \in Seq(Seq(S)) /\ Len(ys) = N + 1 /\ ys[1] = x
      /\ \A i \in 1..N : ys[i + 1] = xs[i] /\ xs[i] \in Seq(S)
  BY DEF Rows
<1>2. PICK f : /\ f \in [0..N -> Seq(S)] /\ f[0] = <<>>
               /\ \A i \in 1..N : f[i] = f[i - 1] \o xs[i]
               /\ FlattenSeq(xs) = f[N]
  BY FlattenStep DEF Rows
<1> HIDE DEF ys, N
<1>3. PICK g : /\ g \in [0..Len(ys) -> Seq(S)] /\ g[0] = <<>>
               /\ \A i \in 1..Len(ys) : g[i] = g[i - 1] \o ys[i]
               /\ FlattenSeq(ys) = g[Len(ys)]
  BY <1>1, FlattenStep
<1> DEFINE H == {i \in Nat : g[i + 1] = x \o f[i]}
<1>4. 0 \in H
  <2>1. g[1] = <<>> \o x /\ x \o f[0] = x \o <<>>
    <3>1. 1 \in 1..Len(ys) /\ 1 - 1 = 0
      BY <1>1
    <3> QED
      BY <1>1, <1>2, <1>3, <3>1
  <2> QED
    BY <2>1, ConcatEmptySeq
<1>5. ASSUME NEW i \in 1..N, i - 1 \in H PROVE i \in H
  <2>1. g[i] = x \o f[i - 1]
    BY <1>5
  <2>2. i + 1 \in 1..Len(ys) /\ (i + 1) - 1 = i /\ i - 1 \in 0..N
    BY <1>1
  <2>3. g[i + 1] = g[i] \o xs[i] /\ f[i] = f[i - 1] \o xs[i]
    BY <1>1, <1>2, <1>3, <2>2
  <2>4. f[i - 1] \in Seq(S) /\ xs[i] \in Seq(S)
    BY <1>1, <1>2, <2>2
  <2>5. g[i + 1] = x \o f[i]
    <3>1. (x \o f[i - 1]) \o xs[i] = x \o (f[i - 1] \o xs[i])
      <4>1. \A a, b \in Seq(S) : (x \o a) \o b = x \o (a \o b)
        BY ConcatTriple
      <4> QED
        BY <2>4, <4>1, Zenon
    <3> HIDE DEF H
    <3> QED
      BY <2>1, <2>3, <3>1
  <2> QED
    BY <2>5
<1>6. 0..N \subseteq H
  <2> HIDE DEF H
  <2> QED
    BY <1>1, <1>4, <1>5, Upwards
<1>7. g[N + 1] = x \o f[N]
  <2>1. N \in H
    <3> HIDE DEF H
    <3> QED
      BY <1>1, <1>6
  <2> QED
    BY <2>1
<1>8. FlattenSeq(xs) \in Seq(S)
  BY <1>1, <1>2
<1> QED
  BY <1>1, <1>2, <1>3, <1>7, <1>8 DEF ys, N

-----------------------------------------------------------------------------
(* Integers and their bytes.                                               *)

\* What the first four bytes of an integer count.
LEMMA Places == Place(1) = 1 /\ Place(2) = 256 /\ Place(3) = 65536 /\ Place(4) = 16777216
<1>1. 256^0 = 1 /\ 256^1 = 256 /\ 256^2 = 65536 /\ 256^3 = 16777216
  OBVIOUS
<1>2. 1 - 1 = 0 /\ 2 - 1 = 1 /\ 3 - 1 = 2 /\ 4 - 1 = 3
  OBVIOUS
<1>3. Place(1) = 256^0 /\ Place(2) = 256^1 /\ Place(3) = 256^2 /\ Place(4) = 256^3
  BY <1>2, Zenon DEF Place
<1> QED
  BY <1>1, <1>3

\* The sum of one, two and four numbers.
LEMMA SumsOf ==
  ASSUME NEW w \in Seq(Nat)
  PROVE  /\ Len(w) = 1 => Sums(w)[1] = w[1]
         /\ Len(w) = 2 => Sums(w)[2] = w[1] + w[2]
         /\ Len(w) = 4 => Sums(w)[4] = w[1] + w[2] + w[3] + w[4]
<1>1. /\ Sums(w)[0] = 0
      /\ \A n \in 1..Len(w) : Sums(w)[n] = Sums(w)[n - 1] + w[n]
  BY SumsStep
<1>2. \A n \in 1..Len(w) : w[n] \in Nat
  OBVIOUS
<1>3. CASE Len(w) = 1
  BY <1>1, <1>2, <1>3
<1>4. CASE Len(w) = 2
  BY <1>1, <1>2, <1>4
<1>5. CASE Len(w) = 4
  BY <1>1, <1>2, <1>5
<1> QED
  BY <1>3, <1>4, <1>5

\* What one, two and four bytes count.
LEMMA UnsignedSum ==
  ASSUME NEW n \in {1, 2, 4}, NEW b \in [1..n -> Byte]
  PROVE  /\ n = 1 => Unsigned(b) = b[1]
         /\ n = 2 => Unsigned(b) = b[1] + 256 * b[2]
         /\ n = 4 => Unsigned(b) = b[1] + b[2] * Place(2) + b[3] * Place(3) + b[4] * Place(4)
<1> DEFINE w == [i \in DOMAIN b |-> b[i] * Place(i)]
<1>1. w = [i \in 1..n |-> b[i] * Place(i)]
  OBVIOUS
<1>2. b \in Seq(Byte) /\ Len(b) = n
  OBVIOUS
<1>3. Unsigned(b) = Sums(w)[n]
  BY <1>2 DEF Unsigned
<1>4. Place(1) = 1 /\ \A i \in 1..4 : Place(i) \in Nat
  BY Places
<1> HIDE DEF w
<1>5. \A i \in 1..n : b[i] \in Nat
  <2>1. Byte \subseteq Nat
    BY DEF Byte
  <2> QED
    BY <2>1
<1>6. \A i \in 1..n : w[i] = b[i] * Place(i) /\ w[i] \in Nat
  <2>1. ASSUME NEW i \in 1..n PROVE w[i] = b[i] * Place(i) /\ w[i] \in Nat
    <3>1. b[i] \in Nat /\ Place(i) \in Nat
      <4>1. i \in 1..4
        OBVIOUS
      <4> QED
        BY <1>4, <1>5, <4>1, Zenon
    <3>2. w[i] = b[i] * Place(i)
      BY <1>1
    <3> QED
      BY <3>1, <3>2
  <2> QED
    BY <2>1
<1>7. w \in Seq(Nat) /\ Len(w) = n
  <2>1. w \in [1..n -> Nat]
    BY <1>1, <1>6
  <2> QED
    BY <2>1
<1>8. b[1] * Place(1) = b[1]
  BY <1>4, <1>5
<1>9. CASE n = 1
  <2>1. w[1] = b[1] * Place(1)
    BY <1>6, <1>9
  <2> QED
    BY <1>3, <1>7, <1>8, <1>9, <2>1, SumsOf
<1>10. CASE n = 2
  <2>1. w[1] = b[1] * Place(1) /\ w[2] = 256 * b[2]
    BY <1>5, <1>6, <1>10, Places
  <2> QED
    BY <1>3, <1>7, <1>8, <1>10, <2>1, SumsOf
<1>11. CASE n = 4
  <2>1. /\ w[1] = b[1] * Place(1) /\ w[2] = b[2] * Place(2)
        /\ w[3] = b[3] * Place(3) /\ w[4] = b[4] * Place(4)
    BY <1>6, <1>11
  <2> QED
    BY <1>3, <1>7, <1>8, <1>11, <2>1, SumsOf
<1> QED
  BY <1>9, <1>10, <1>11

\* Every digit is a byte.
LEMMA DigitIsByte ==
  ASSUME NEW v \in Int, NEW i \in 1..4
  PROVE  Digit(v, i) \in Byte
<1>1. \A x \in Int : x % 256 \in Byte
  BY DEF Byte
<1>2. CASE i = 1
  BY <1>1, <1>2, Places DEF Digit
<1>3. CASE i = 2
  BY <1>1, <1>3, Places DEF Digit
<1>4. CASE i = 3
  BY <1>1, <1>4, Places DEF Digit
<1>5. CASE i = 4
  BY <1>1, <1>5, Places DEF Digit
<1> QED
  BY <1>2, <1>3, <1>4, <1>5

\* The bytes of an integer are its digits.
LEMMA BytesOf ==
  ASSUME NEW v \in Int, NEW n \in {1, 2, 4}
  PROVE  Bytes(v, n) \in [1..n -> Byte] /\ \A i \in 1..n : Bytes(v, n)[i] = Digit(v, i)
<1>1. \A i \in 1..n : i \in 1..4
  OBVIOUS
<1>2. \A i \in 1..n : Digit(v, i) \in Byte
  BY <1>1, DigitIsByte
<1> QED
  BY <1>2 DEF Bytes

\* A number is its quotient by 256 and what remains.
LEMMA Quotient ==
  ASSUME NEW v \in Int, NEW q, NEW r, q = v \div 256, r = v % 256
  PROVE  q \in Int /\ r \in 0..255 /\ v = 256 * q + r
<1>1. q \in Int /\ r \in Int /\ r \in 0..255
  OBVIOUS
<1> QED
  BY <1>1

\* What fits in one byte is its digit.
LEMMA OneDigit ==
  ASSUME NEW v \in Int, v \div Place(1) \in Byte
  PROVE  v = Digit(v, 1)
  BY Places DEF Digit, Byte

\* What fits in two bytes is given by its two digits.
LEMMA TwoDigits ==
  ASSUME NEW v \in Int, v \div 256 \in Byte
  PROVE  v = Digit(v, 1) + 256 * Digit(v, 2)
  BY Places DEF Digit, Byte

\* What fits in four bytes is given by its four digits.
LEMMA FourDigits ==
  ASSUME NEW v \in Int, v \div Place(4) \in Byte
  PROVE  v = Digit(v, 1) + Digit(v, 2) * Place(2) + Digit(v, 3) * Place(3)
                + Digit(v, 4) * Place(4)
<1>1. v \div 16777216 \in 0..255 =>
         v = (v % 256) + ((v \div 256) % 256) * 256 + ((v \div 65536) % 256) * 65536
               + ((v \div 16777216) % 256) * 16777216
  BY SMT
<1>2. v \div 1 = v
  BY SMT
<1> QED
  BY <1>1, <1>2, Places, SMT DEF Digit, Byte

\* The lowest byte of an integer, and what is above it.
Low(v) == v % 256

High(v) == v \div 256

\* The lowest byte is one, and the rest is a number.
LEMMA LowIsByte == ASSUME NEW v \in Int PROVE Low(v) \in 0..255 /\ High(v) \in Int
  BY SMT DEF Low, High

\* A number is what is above its lowest byte, and that byte.
LEMMA HighLow == ASSUME NEW v \in Int PROVE v = 256 * High(v) + Low(v)
<1>1. \A q, r : q = v \div 256 /\ r = v % 256 => v = 256 * q + r
  <2> TAKE q, r
  <2> QED
    BY Quotient, SMT
<1> QED
  BY <1>1, SMT DEF Low, High

\* The lowest byte of a small number is its two's complement.
LEMMA LowOfSmall == ASSUME NEW q \in -256..255 PROVE Low(q) = IF q < 0 THEN q + 256 ELSE q
  BY SMT DEF Low

\* The number whose lowest byte is x and whose next is y.
Pair(x, y) == x + 256 * y

\* What two bytes can count.
Full == 65536

\* The lowest byte of two.
LEMMA PairLow == ASSUME NEW x \in 0..255, NEW y \in 0..255 PROVE Low(Pair(x, y)) = x
  BY SMT DEF Low, Pair

\* The other byte of two.
LEMMA PairHigh == ASSUME NEW x \in 0..255, NEW y \in 0..255 PROVE High(Pair(x, y)) = y
  BY SMT DEF High, Pair

\* An unsigned short is what two bytes have room for.
LEMMA UShortBounds ==
  /\ \A u \in Int : 0 <= u /\ u <= 65535 => u \in UShort
  /\ \A u \in UShort : u \in Int /\ 0 <= u /\ u <= 65535
<1>1. PICK n \in Int : n = 65535
  OBVIOUS
<1>2. UShort = 0..n
  BY <1>1, SMT DEF UShort
<1>3. \A u \in Int : u <= 65535 <=> u <= n
  BY <1>1
<1> QED
  BY <1>2, <1>3

\* Two bytes make an unsigned short.
LEMMA PairIsUShort ==
  ASSUME NEW x \in 0..255, NEW y \in 0..255
  PROVE  Pair(x, y) \in UShort /\ Pair(x, y) \in Int
<1>1. Pair(x, y) \in Int /\ 0 <= Pair(x, y) /\ Pair(x, y) <= 65535
  BY SMT DEF Pair
<1> QED
  BY <1>1, UShortBounds

\* The first two digits are the lowest byte, and the lowest of the rest.
LEMMA DigitLow ==
  ASSUME NEW v \in Int
  PROVE  Digit(v, 1) = Low(v) /\ Digit(v, 2) = Low(High(v))
<1>1. v \div 1 = v
  BY SMT
<1>2. Digit(v, 1) = Low(v)
  BY <1>1, Places, SMT DEF Digit, Low
<1>3. Digit(v, 2) = Low(High(v))
  BY Places, SMT DEF Digit, Low, High
<1> QED
  BY <1>2, <1>3, SMT

\* Two's complement: a negative upper byte is a large one, and a wrap.
LEMMA SignedOf ==
  ASSUME NEW h \in -128..127, NEW l \in 0..255
  PROVE  /\ h < 0 => /\ Pair(l, h) = Pair(l, h + 256) - Full
                     /\ 2 * Pair(l, h + 256) >= Full
         /\ ~(h < 0) => ~(2 * Pair(l, h) >= Full)
  BY SMT DEF Pair, Full

\* A number is made of its lowest byte and the rest.
LEMMA PairOf == ASSUME NEW v \in Int PROVE v = Pair(Low(v), High(v))
<1>1. Low(v) \in Int /\ High(v) \in Int
  <2>1. \A x \in 0..255 : x \in Int
    BY SMT
  <2> QED
    BY <2>1, LowIsByte, Zenon
<1>2. \A l, h \in Int : v = 256 * h + l => v = Pair(l, h)
  BY SMT DEF Pair
<1>3. v = 256 * High(v) + Low(v)
  BY HighLow, Zenon
<1> QED
  BY <1>1, <1>2, <1>3, SMT

\* A signed short is given by its two digits, as struct's "h" reads them.
LEMMA SignedDigits ==
  ASSUME NEW v \in Int, High(v) \in -128..127, NEW u, u = Pair(Digit(v, 1), Digit(v, 2))
  PROVE  v = IF 2 * u >= Full THEN u - Full ELSE u
<1> DEFINE h == High(v)
           l == Low(v)
<1>1. v = Pair(l, h) /\ l \in 0..255 /\ h \in -128..127
  BY PairOf, LowIsByte
<1>2. h \in -256..255
  BY <1>1
<1>3. Low(h) = IF h < 0 THEN h + 256 ELSE h
  BY <1>2, LowOfSmall
<1>4. u = Pair(l, Low(h))
  BY DigitLow
<1> HIDE DEF h, l
<1>5. /\ h < 0 => Pair(l, h) = Pair(l, h + 256) - Full /\ 2 * Pair(l, h + 256) >= Full
      /\ ~(h < 0) => ~(2 * Pair(l, h) >= Full)
  BY <1>1, SignedOf, Zenon
<1>6. CASE h < 0
  BY <1>1, <1>3, <1>4, <1>5, <1>6, Zenon
<1>7. CASE ~(h < 0)
  BY <1>1, <1>3, <1>4, <1>5, <1>7, Zenon
<1> QED
  BY <1>6, <1>7

\* The digits of what two bytes make are those bytes.
LEMMA DigitsOfPair ==
  ASSUME NEW x \in 0..255, NEW y \in 0..255
  PROVE  /\ Pair(x, y) \in UShort /\ Pair(x, y) \in Int
         /\ Digit(Pair(x, y), 1) = x /\ Digit(Pair(x, y), 2) = y
<1>1. Pair(x, y) \in UShort /\ Pair(x, y) \in Int
  BY PairIsUShort, Zenon
<1>2. Low(Pair(x, y)) = x /\ High(Pair(x, y)) = y
  BY PairLow, PairHigh, Zenon
<1>3. Low(y) = y
  <2>1. y \in -256..255 /\ ~(y < 0)
    OBVIOUS
  <2> QED
    BY <2>1, LowOfSmall
<1> QED
  BY <1>1, <1>2, <1>3, DigitLow

\* An unsigned number that fits is read as it was written.
LEMMA UnsignedRoundTrip ==
  ASSUME NEW n \in {1, 2, 4}, NEW v \in Int, v \div Place(n) \in Byte
  PROVE  Unsigned(Bytes(v, n)) = v
<1> DEFINE b == Bytes(v, n)
<1>1. b \in [1..n -> Byte] /\ \A i \in 1..n : b[i] = Digit(v, i)
  BY BytesOf
<1> HIDE DEF b
<1>2. CASE n = 1
  <2>1. Unsigned(b) = Digit(v, 1)
    BY <1>1, <1>2, UnsignedSum
  <2> QED
    BY <1>2, <2>1, OneDigit DEF b
<1>3. CASE n = 2
  <2>1. Unsigned(b) = Digit(v, 1) + 256 * Digit(v, 2)
    BY <1>1, <1>3, UnsignedSum
  <2> QED
    BY <1>3, <2>1, Places, TwoDigits DEF b
<1>4. CASE n = 4
  <2>1. Unsigned(b) = Digit(v, 1) + Digit(v, 2) * Place(2) + Digit(v, 3) * Place(3)
                        + Digit(v, 4) * Place(4)
    BY <1>1, <1>4, UnsignedSum
  <2> QED
    BY <1>4, <2>1, FourDigits DEF b
<1> QED
  BY <1>2, <1>3, <1>4

\* A signed short that fits is read as it was written.
LEMMA SignedRoundTrip ==
  ASSUME NEW v \in Int, v \div Place(2) \in -128..127
  PROVE  Signed(Bytes(v, 2)) = v
<1> DEFINE b == Bytes(v, 2)
           u == Unsigned(b)
<1>1. b \in [1..2 -> Byte] /\ b[1] = Digit(v, 1) /\ b[2] = Digit(v, 2)
  BY BytesOf
<1> HIDE DEF b
<1>2. u = Pair(Digit(v, 1), Digit(v, 2))
  BY <1>1, UnsignedSum DEF Pair
<1>3. Len(b) = 2
  BY <1>1
<1>4. 256 * Place(2) = Full
  BY Places DEF Full
<1>5. Signed(b) = IF 2 * u >= Full THEN u - Full ELSE u
  BY <1>3, <1>4, Zenon DEF Signed
<1>6. High(v) \in -128..127
  BY Places, SMT DEF High
<1> HIDE DEF u
<1>7. v = IF 2 * u >= Full THEN u - Full ELSE u
  BY <1>2, <1>6, SignedDigits
<1> QED
  BY <1>5, <1>7 DEF b

\* Two bytes that were read are written as they were.
LEMMA BytesOfUnsigned ==
  ASSUME NEW b \in [1..2 -> Byte]
  PROVE  Unsigned(b) \in UShort /\ Bytes(Unsigned(b), 2) = b
<1> DEFINE u == Pair(b[1], b[2])
           t == Bytes(u, 2)
<1>1. b[1] \in 0..255 /\ b[2] \in 0..255
  BY DEF Byte
<1>2. Unsigned(b) = u
  BY UnsignedSum DEF Pair
<1>3. u \in UShort /\ u \in Int /\ Digit(u, 1) = b[1] /\ Digit(u, 2) = b[2]
  BY <1>1, DigitsOfPair, Zenon
<1> HIDE DEF u
<1>4. t \in [1..2 -> Byte] /\ \A i \in 1..2 : t[i] = Digit(u, i)
  BY <1>3, BytesOf
<1> HIDE DEF t
<1>5. t = b
  BY <1>3, <1>4
<1> QED
  BY <1>2, <1>3, <1>5 DEF t

\* An unsigned short is a number up to CounterMax.
LEMMA UShortNumbers == UShort = 0..CounterMax /\ UShort \subseteq Int
<1>1. UShort = 0..CounterMax
  BY SMT DEF UShort, CounterMax
<1> QED
  BY <1>1, UShortBounds

\* The upper byte of an unsigned short is a byte.
LEMMA UShortHigh ==
  ASSUME NEW v \in UShort, NEW q \in Int, NEW r \in 0..255, v = 256 * q + r
  PROVE  q \in 0..255
<1>1. 0 <= v /\ v <= 65535
  BY UShortBounds
<1>2. 256 * q <= 65535 /\ -255 <= 256 * q
  <2>1. r \in Int /\ 0 <= r /\ r <= 255 /\ 256 * q \in Int
    OBVIOUS
  <2>2. \A x, y \in Int : 0 <= x + y /\ x + y <= 65535 /\ 0 <= y /\ y <= 255
                              => x <= 65535 /\ -255 <= x
    BY SMT
  <2> QED
    BY <1>1, <2>1, <2>2
<1>3. \A x \in Int : 256 * x <= 65535 /\ -255 <= 256 * x => x \in 0..255
  BY SMT
<1> QED
  BY <1>2, <1>3

\* An unsigned short is read as it was written.
LEMMA UShortRoundTrip ==
  ASSUME NEW v \in UShort
  PROVE  Unsigned(Bytes(v, 2)) = v
<1>1. v \in Int /\ v \div 256 \in 0..255
  <2>2. v \in Int
    BY UShortNumbers
  <2>3. v = 256 * High(v) + Low(v) /\ High(v) \in Int /\ Low(v) \in 0..255
    BY <2>2, HighLow, LowIsByte
  <2> QED
    BY <2>2, <2>3, UShortHigh DEF High
<1>2. v \div Place(2) \in Byte
  BY <1>1, Places DEF Byte
<1> QED
  BY <1>1, <1>2, UnsignedRoundTrip

-----------------------------------------------------------------------------
(* Inner messages.                                                         *)

\* The error and the operation share a byte and come out of it (op_status).
LEMMA OpStatusRoundTrip ==
  ASSUME NEW e \in 0..15, NEW op \in 0..15
  PROVE  /\ OpStatus(e, op) \in Byte
         /\ SplitOpStatus(OpStatus(e, op)) = [error |-> e, operation |-> op]
<1>1. e % 16 = e /\ op % 16 = op
  OBVIOUS
<1>2. e * 16 + op \in 0..255 /\ (e * 16 + op) \div 16 = e /\ (e * 16 + op) % 16 = op
  OBVIOUS
<1> QED
  BY <1>1, <1>2 DEF OpStatus, SplitOpStatus, Byte

\* The two halves of a byte.
HighNibble(b) == b \div 16

LowNibble(b) == b % 16

\* A byte is its two halves.
LEMMA NibblesOf ==
  ASSUME NEW b \in 0..255
  PROVE  /\ HighNibble(b) \in 0..15 /\ LowNibble(b) \in 0..15
         /\ HighNibble(b) * 16 + LowNibble(b) = b
<1>1. \A q, r : q = b \div 16 /\ r = b % 16 => q \in 0..15 /\ r \in 0..15 /\ q * 16 + r = b
  BY SMT
<1> QED
  BY <1>1, Zenon DEF HighNibble, LowNibble

\* A number below 16 is its own lower half.
LEMMA LowNibbleOf == ASSUME NEW x \in 0..15 PROVE LowNibble(x) = x
  BY DEF LowNibble

\* Any byte is an error and an operation that are written as that byte.
LEMMA OpStatusOf ==
  ASSUME NEW b \in Byte
  PROVE  LET byte == SplitOpStatus(b)
         IN /\ byte.error \in 0..15 /\ byte.operation \in 0..15
            /\ OpStatus(byte.error, byte.operation) = b
<1>1. b \in 0..255
  BY DEF Byte
<1>2. /\ HighNibble(b) \in 0..15 /\ LowNibble(b) \in 0..15
      /\ HighNibble(b) * 16 + LowNibble(b) = b
  BY <1>1, NibblesOf
<1>3. LowNibble(HighNibble(b)) = HighNibble(b) /\ LowNibble(LowNibble(b)) = LowNibble(b)
  BY <1>2, LowNibbleOf
<1>4. SplitOpStatus(b) = [error |-> HighNibble(b), operation |-> LowNibble(b)]
  BY DEF SplitOpStatus, HighNibble, LowNibble
<1>5. \A e, op : OpStatus(e, op) = LowNibble(e) * 16 + LowNibble(op)
  BY Zenon DEF OpStatus, LowNibble
<1> QED
  <2>1. OpStatus(HighNibble(b), LowNibble(b)) = b
    BY <1>2, <1>3, <1>5
  <2>2. SplitOpStatus(b).error = HighNibble(b) /\ SplitOpStatus(b).operation = LowNibble(b)
    BY <1>4
  <2> QED
    BY <1>2, <2>1, <2>2, Zenon

\* The length of a message that is built fits in its first byte.
LEMMA BuildableSize ==
  ASSUME NEW m \in InnerMessage, Buildable(m)
  PROVE  6 + Len(m.data) \in Byte
<1>1. Len(m.data) \in Nat
  BY DEF InnerMessage
<1>2. 6 + Len(m.data) <= MaxInnerPayload
  BY DEF Buildable, InnerHeaderLen
<1>3. MaxInnerPayload \in Int /\ MaxInnerPayload <= 255
  BY WireAssumption DEF InnerHeaderLen
<1>4. \A k \in Nat, top \in Int : 6 + k <= top /\ top <= 255 => 6 + k \in Byte
  BY DEF Byte
<1> QED
  BY <1>1, <1>2, <1>3, <1>4

\* Every byte of a message that is built.
LEMMA BuildBytes ==
  ASSUME NEW m \in InnerMessage, 6 + Len(m.data) \in Byte
  PROVE  LET b == BuildInnerMessage(m)
             c == Bytes(m.counter, 2)
             i == Bytes(m.pid, 2)
         IN /\ b \in Seq(Byte) /\ Len(b) = 6 + Len(m.data) /\ Len(b) \in Byte
            /\ b[1] = Len(b) /\ b[2] = OpStatus(m.error, m.operation)
            /\ b[3] = c[1] /\ b[4] = c[2] /\ b[5] = i[1] /\ b[6] = i[2]
            /\ \A j \in 1..Len(m.data) : b[6 + j] = m.data[j]
<1> DEFINE c == Bytes(m.counter, 2)
           i == Bytes(m.pid, 2)
           d == m.data
           n == 6 + Len(d)
           s == OpStatus(m.error, m.operation)
           h == <<n, s>>
           hc == h \o c
           hci == hc \o i
           b == hci \o d
<1>1. /\ m.error \in 0..15 /\ m.operation \in 0..15 /\ m.counter \in Int /\ m.pid \in Int
      /\ d \in Seq(Byte) /\ Len(d) \in Nat
  BY UShortNumbers DEF InnerMessage
<1>2. n \in Byte
  OBVIOUS
<1>3. s \in Byte
  BY <1>1, OpStatusRoundTrip
<1>4. c \in [1..2 -> Byte] /\ i \in [1..2 -> Byte]
  BY <1>1, BytesOf
<1>5. BuildInnerMessage(m) = b
  BY DEF BuildInnerMessage, InnerHeaderLen
<1> HIDE DEF c, i, s
<1>6. h \in Seq(Byte) /\ Len(h) = 2 /\ h[1] = n /\ h[2] = s
  BY <1>2, <1>3
<1>7. c \in Seq(Byte) /\ i \in Seq(Byte) /\ Len(c) = 2 /\ Len(i) = 2
  BY <1>4, AsSeq
<1> HIDE DEF h
<1>8. /\ hc \in Seq(Byte) /\ Len(hc) = 4
      /\ hc[1] = n /\ hc[2] = s /\ hc[3] = c[1] /\ hc[4] = c[2]
  BY <1>6, <1>7, FourOf
<1> HIDE DEF hc
<1>9. /\ hci \in Seq(Byte) /\ Len(hci) = 6
      /\ hci[1] = n /\ hci[2] = s /\ hci[3] = c[1] /\ hci[4] = c[2]
      /\ hci[5] = i[1] /\ hci[6] = i[2]
  BY <1>7, <1>8, SixOf
<1> HIDE DEF hci
<1>10. /\ b \in Seq(Byte) /\ Len(b) = n
       /\ \A j \in 1..6 : b[j] = hci[j]
       /\ \A j \in 1..Len(d) : b[6 + j] = d[j]
  <2>1. /\ Len(b) = 6 + Len(d)
        /\ \A j \in 1..(6 + Len(d)) : b[j] = IF j <= 6 THEN hci[j] ELSE d[j - 6]
    BY <1>1, <1>9, EndOf
  <2>2. b \in Seq(Byte)
    BY <1>1, <1>9, ConcatProperties
  <2> HIDE DEF b, d
  <2>3. \A j \in 1..6 : b[j] = hci[j]
    BY <1>1, <2>1
  <2>4. ASSUME NEW j \in 1..Len(d) PROVE b[6 + j] = d[j]
    <3>1. 6 + j \in 1..(6 + Len(d)) /\ ~(6 + j <= 6) /\ (6 + j) - 6 = j
      BY <1>1
    <3> QED
      BY <2>1, <3>1
  <2> QED
    BY <2>1, <2>2, <2>3, <2>4
<1> HIDE DEF b, n, d
<1>11. /\ b[1] = n /\ b[2] = s /\ b[3] = c[1] /\ b[4] = c[2] /\ b[5] = i[1] /\ b[6] = i[2]
  BY <1>9, <1>10
<1> QED
  BY <1>2, <1>5, <1>10, <1>11 DEF c, i, s, n, d

\* Two bytes of a payload.
LEMMA Couple ==
  ASSUME NEW p \in Seq(Byte), NEW k \in Nat, k + 2 <= Len(p)
  PROVE  /\ SubSeq(p, k + 1, k + 2) \in [1..2 -> Byte]
         /\ SubSeq(p, k + 1, k + 2)[1] = p[k + 1]
         /\ SubSeq(p, k + 1, k + 2)[2] = p[k + 2]
<1> DEFINE e == k + 2
           t == SubSeq(p, k + 1, e)
<1>1. e \in Nat /\ k <= e /\ e <= Len(p) /\ e - k = 2
  OBVIOUS
<1> HIDE DEF e
<1>2. t \in Seq(Byte) /\ Len(t) = e - k /\ \A j \in 1..(e - k) : t[j] = p[k + j]
  BY <1>1, Piece
<1> HIDE DEF t
<1>3. t[1] = p[k + 1] /\ t[2] = p[k + 2] /\ Len(t) = 2
  BY <1>1, <1>2
<1>4. t \in [1..2 -> Byte]
  BY <1>2, <1>3, LenProperties
<1> QED
  BY <1>3, <1>4 DEF t, e

\* The data of a message begin after its header.
LEMMA SixOn ==
  ASSUME NEW o \in Nat, NEW n \in Nat
  PROVE  o + 6 \in Nat /\ (o + 6) + 1 = o + 7 /\ o + (6 + n) = (o + 6) + n
  BY SMT

\* A message that was built is read as it was, wherever it is in a payload.
LEMMA MessageThere ==
  ASSUME NEW m \in InnerMessage, Buildable(m), NEW p \in Seq(Byte), NEW o,
         Held(p, o, BuildInnerMessage(m))
  PROVE  /\ Whole(p, o) /\ MessageAt(p, o) = m
         /\ p[o + 1] = Len(BuildInnerMessage(m))
<1> DEFINE b == BuildInnerMessage(m)
           d == m.data
           c == SubSeq(p, o + 3, o + 4)
           i == SubSeq(p, o + 5, o + 6)
           r == Slice(p, o + 7, o + p[o + 1])
<1>1. /\ b \in Seq(Byte) /\ Len(b) = 6 + Len(d) /\ Len(b) \in Byte
      /\ b[1] = Len(b) /\ b[2] = OpStatus(m.error, m.operation)
      /\ b[3] = Bytes(m.counter, 2)[1] /\ b[4] = Bytes(m.counter, 2)[2]
      /\ b[5] = Bytes(m.pid, 2)[1] /\ b[6] = Bytes(m.pid, 2)[2]
      /\ \A j \in 1..Len(d) : b[6 + j] = d[j]
  BY BuildBytes, BuildableSize
<1>2. /\ m.error \in 0..15 /\ m.operation \in 0..15 /\ m.counter \in UShort /\ m.pid \in UShort
      /\ m = [error |-> m.error, operation |-> m.operation, counter |-> m.counter,
              pid |-> m.pid, data |-> d]
      /\ d \in Seq(Byte) /\ Len(d) \in Nat
  BY UShortNumbers DEF InnerMessage, Buildable
<1> HIDE DEF b, d
<1>3. /\ o \in Nat /\ o + Len(b) <= Len(p) /\ Len(p) \in Nat
      /\ \A j \in 1..Len(b) : p[o + j] = b[j]
  BY DEF Held, b
<1>4. /\ p[o + 1] = 6 + Len(d) /\ p[o + 2] = b[2] /\ p[o + 3] = b[3] /\ p[o + 4] = b[4]
      /\ p[o + 5] = b[5] /\ p[o + 6] = b[6]
  <2>1. \A j \in 1..6 : j \in 1..Len(b)
    BY <1>1, <1>2
  <2>2. \A j \in 1..6 : p[o + j] = b[j]
    BY <1>3, <2>1
  <2> QED
    BY <1>1, <2>2
<1>5. \A j \in 1..Len(d) : p[(o + 6) + j] = d[j]
  <2>1. ASSUME NEW j \in 1..Len(d) PROVE p[(o + 6) + j] = d[j]
    <3>1. 6 + j \in 1..Len(b) /\ o + (6 + j) = (o + 6) + j
      BY <1>1, <1>2, <1>3
    <3> QED
      BY <1>1, <1>3, <3>1
  <2> QED
    BY <2>1
<1>6. Whole(p, o)
  BY <1>1, <1>2, <1>3, <1>4 DEF Whole, InnerHeaderLen, InnerMsgMinLen
<1>7. c = Bytes(m.counter, 2)
  <2>1. o + 2 \in Nat /\ (o + 2) + 2 <= Len(p) /\ (o + 2) + 1 = o + 3 /\ (o + 2) + 2 = o + 4
    BY <1>1, <1>2, <1>3
  <2>2. c \in [1..2 -> Byte] /\ c[1] = p[o + 3] /\ c[2] = p[o + 4]
    BY <2>1, Couple
  <2>3. m.counter \in Int
    BY <1>2, UShortNumbers
  <2>4. Bytes(m.counter, 2) \in [1..2 -> Byte]
    BY <2>3, BytesOf
  <2> HIDE DEF c
  <2>5. c[1] = Bytes(m.counter, 2)[1] /\ c[2] = Bytes(m.counter, 2)[2]
    BY <1>1, <1>4, <2>2, Zenon
  <2> QED
    BY <2>2, <2>4, <2>5, TwoEqual, Zenon
<1>8. i = Bytes(m.pid, 2)
  <2>1. o + 4 \in Nat /\ (o + 4) + 2 <= Len(p) /\ (o + 4) + 1 = o + 5 /\ (o + 4) + 2 = o + 6
    BY <1>1, <1>2, <1>3
  <2>2. i \in [1..2 -> Byte] /\ i[1] = p[o + 5] /\ i[2] = p[o + 6]
    BY <2>1, Couple
  <2>3. m.pid \in Int
    BY <1>2, UShortNumbers
  <2>4. Bytes(m.pid, 2) \in [1..2 -> Byte]
    BY <2>3, BytesOf
  <2> HIDE DEF i
  <2>5. i[1] = Bytes(m.pid, 2)[1] /\ i[2] = Bytes(m.pid, 2)[2]
    BY <1>1, <1>4, <2>2, Zenon
  <2> QED
    BY <2>2, <2>4, <2>5, TwoEqual, Zenon
<1>9. r = d
  <2>1. /\ o + 6 \in Nat /\ (o + 6) + Len(d) <= Len(p) /\ (o + 6) + 1 = o + 7
        /\ o + p[o + 1] = (o + 6) + Len(d)
    <3>1. o + (6 + Len(d)) <= Len(p)
      BY <1>1, <1>3, Zenon
    <3>2. /\ o + 6 \in Nat /\ (o + 6) + 1 = o + 7
          /\ o + (6 + Len(d)) = (o + 6) + Len(d)
      BY <1>2, <1>3, SixOn, Zenon
    <3> QED
      BY <1>4, <3>1, <3>2, Zenon
  <2>2. Held(p, o + 6, d)
    BY <1>5, <2>1 DEF Held
  <2>3. SubSeq(p, o + 7, (o + 6) + Len(d)) = d
    BY <1>2, <2>1, <2>2, HeldSubSeq
  <2>4. r = SubSeq(p, o + 7, o + p[o + 1])
    <3>1. ~(o + p[o + 1] > Len(p))
      <4>1. o + p[o + 1] \in Nat /\ o + p[o + 1] <= Len(p)
        BY <1>2, <2>1
      <4> QED
        BY <1>3, <4>1
    <3> QED
      BY <3>1 DEF Slice
  <2> QED
    BY <2>1, <2>3, <2>4
<1>10. SplitOpStatus(p[o + 2]) = [error |-> m.error, operation |-> m.operation]
  BY <1>1, <1>2, <1>4, OpStatusRoundTrip
<1>11. Unsigned(c) = m.counter /\ Unsigned(i) = m.pid
  BY <1>2, <1>7, <1>8, UShortRoundTrip
<1>12. MessageAt(p, o) = [error |-> m.error, operation |-> m.operation,
                          counter |-> Unsigned(c), pid |-> Unsigned(i), data |-> r]
  <2>1. o + InnerHeaderLen + 1 = o + 7
    BY <1>3 DEF InnerHeaderLen
  <2> QED
    BY <1>10, <2>1 DEF MessageAt
<1> HIDE DEF c, i, r
<1>13. MessageAt(p, o) = m
  BY <1>2, <1>9, <1>11, <1>12
<1> QED
  BY <1>1, <1>4, <1>6, <1>13 DEF b

\* Where the message after this one begins.
After(p, o) == o + p[o + 1]

\* A byte is a number.
LEMMA ByteIsNat == \A x \in Byte : x \in Nat
  BY DEF Byte

\* A whole message ends within the payload, at least a header after it began.
LEMMA Onward ==
  ASSUME NEW p \in Seq(Byte), NEW o \in Nat, Whole(p, o)
  PROVE  /\ p[o + 1] \in Byte /\ p[o + 1] \in Nat /\ 6 <= p[o + 1]
         /\ After(p, o) \in Nat /\ o + 6 <= After(p, o) /\ After(p, o) <= Len(p)
<1>1. Len(p) \in Nat /\ Len(p) - o >= 6
  BY DEF Whole, InnerHeaderLen
<1>2. o + 1 \in 1..Len(p)
  BY <1>1
<1>3. p[o + 1] \in Byte /\ p[o + 1] \in Nat
  <2>1. p[o + 1] \in Byte
    BY <1>2
  <2> QED
    BY <2>1, ByteIsNat
<1>4. 6 <= p[o + 1] /\ o + p[o + 1] <= Len(p)
  BY DEF Whole, InnerHeaderLen, InnerMsgMinLen
<1> QED
  BY <1>3, <1>4 DEF After

\* A message that is read has the bytes it was read from, and no others.
LEMMA MessageBack ==
  ASSUME NEW p \in Seq(Byte), NEW o \in Nat, Whole(p, o)
  PROVE  /\ MessageAt(p, o) \in InnerMessage
         /\ BuildInnerMessage(MessageAt(p, o)) = SubSeq(p, o + 1, After(p, o))
<1> DEFINE m == MessageAt(p, o)
           b == BuildInnerMessage(m)
           n == p[o + 1]
           byte == SplitOpStatus(p[o + 2])
           c == SubSeq(p, o + 3, o + 4)
           i == SubSeq(p, o + 5, o + 6)
           d == SubSeq(p, o + 7, o + n)
<1>1. /\ n \in Byte /\ n \in Nat /\ 6 <= n /\ After(p, o) = o + n
      /\ o + n <= Len(p) /\ Len(p) \in Nat /\ o + 6 <= Len(p)
  BY Onward DEF After
<1>2. m = [error |-> byte.error, operation |-> byte.operation,
           counter |-> Unsigned(c), pid |-> Unsigned(i), data |-> d]
  <2>1. o + InnerHeaderLen + 1 = o + 7 /\ ~(o + n > Len(p))
    BY <1>1 DEF InnerHeaderLen
  <2>2. Slice(p, o + 7, o + n) = d
    BY <2>1 DEF Slice
  <2> QED
    BY <2>1, <2>2 DEF MessageAt
<1> HIDE DEF n
<1>3. p[o + 2] \in Byte
  <2>1. o + 2 \in 1..Len(p)
    BY <1>1
  <2> QED
    BY <2>1
<1>4. /\ byte.error \in 0..15 /\ byte.operation \in 0..15
      /\ OpStatus(byte.error, byte.operation) = p[o + 2]
  BY <1>3, OpStatusOf
<1>5. c \in [1..2 -> Byte] /\ c[1] = p[o + 3] /\ c[2] = p[o + 4]
  <2>1. o + 2 \in Nat /\ (o + 2) + 2 <= Len(p) /\ (o + 2) + 1 = o + 3 /\ (o + 2) + 2 = o + 4
    BY <1>1
  <2> QED
    BY <2>1, Couple
<1>6. i \in [1..2 -> Byte] /\ i[1] = p[o + 5] /\ i[2] = p[o + 6]
  <2>1. o + 4 \in Nat /\ (o + 4) + 2 <= Len(p) /\ (o + 4) + 1 = o + 5 /\ (o + 4) + 2 = o + 6
    BY <1>1
  <2> QED
    BY <2>1, Couple
<1>7. d \in Seq(Byte) /\ Len(d) = n - 6 /\ \A j \in 1..Len(d) : d[j] = p[o + (6 + j)]
  <2>1. o + 6 \in Nat /\ o + n \in Nat /\ o + 6 <= o + n /\ (o + 6) + 1 = o + 7
    BY <1>1
  <2>2. /\ d \in Seq(Byte) /\ Len(d) = (o + n) - (o + 6)
        /\ \A j \in 1..((o + n) - (o + 6)) : d[j] = p[(o + 6) + j]
    BY <1>1, <2>1, Piece
  <2> HIDE DEF d
  <2>3. Len(d) = n - 6 /\ (o + n) - (o + 6) = n - 6
    BY <1>1, <2>2
  <2>4. ASSUME NEW j \in 1..Len(d) PROVE d[j] = p[o + (6 + j)]
    <3>1. j \in 1..((o + n) - (o + 6)) /\ (o + 6) + j = o + (6 + j)
      BY <1>1, <2>3
    <3> QED
      BY <2>2, <3>1
  <2> QED
    BY <2>2, <2>3, <2>4
<1> HIDE DEF byte, c, i, d
<1>8. Unsigned(c) \in UShort /\ Bytes(Unsigned(c), 2) = c
  BY <1>5, BytesOfUnsigned
<1>9. Unsigned(i) \in UShort /\ Bytes(Unsigned(i), 2) = i
  BY <1>6, BytesOfUnsigned
<1>10. Unsigned(c) \in Nat
  <2>1. Unsigned(c) \in Int /\ 0 <= Unsigned(c)
    BY <1>8, UShortBounds
  <2> QED
    BY <2>1
<1> HIDE DEF m
<1>11. m \in InnerMessage
  BY <1>2, <1>4, <1>7, <1>9, <1>10 DEF InnerMessage
<1>12. /\ m.data = d /\ Bytes(m.counter, 2) = c /\ Bytes(m.pid, 2) = i
       /\ OpStatus(m.error, m.operation) = p[o + 2]
  BY <1>2, <1>4, <1>8, <1>9
<1>13. 6 + Len(d) = n
  BY <1>1, <1>7
<1>14. /\ b \in Seq(Byte) /\ Len(b) = n
       /\ b[1] = p[o + 1] /\ b[2] = p[o + 2] /\ b[3] = p[o + 3]
       /\ b[4] = p[o + 4] /\ b[5] = p[o + 5] /\ b[6] = p[o + 6]
       /\ \A j \in 1..Len(d) : b[6 + j] = p[o + (6 + j)]
  <2>1. 6 + Len(m.data) \in Byte
    BY <1>1, <1>12, <1>13
  <2>2. /\ b \in Seq(Byte) /\ Len(b) = 6 + Len(m.data) /\ Len(b) \in Byte
        /\ b[1] = Len(b) /\ b[2] = OpStatus(m.error, m.operation)
        /\ b[3] = Bytes(m.counter, 2)[1] /\ b[4] = Bytes(m.counter, 2)[2]
        /\ b[5] = Bytes(m.pid, 2)[1] /\ b[6] = Bytes(m.pid, 2)[2]
        /\ \A j \in 1..Len(m.data) : b[6 + j] = m.data[j]
    BY <1>11, <2>1, BuildBytes
  <2> HIDE DEF b
  <2> QED
    BY <1>5, <1>6, <1>7, <1>12, <1>13, <2>2 DEF n
<1> HIDE DEF b
<1>15. \A j \in 1..Len(b) : p[o + j] = b[j]
  <2>1. ASSUME NEW j \in 1..6 PROVE p[o + j] = b[j]
    <3>1. j = 1 \/ j = 2 \/ j = 3 \/ j = 4 \/ j = 5 \/ j = 6
      OBVIOUS
    <3> QED
      BY <1>14, <3>1
  <2>2. ASSUME NEW j \in 7..n PROVE p[o + j] = b[j]
    <3>1. j - 6 \in 1..Len(d) /\ 6 + (j - 6) = j
      BY <1>1, <1>7
    <3> QED
      BY <1>14, <3>1
  <2>3. \A j \in 1..n : j \in 1..6 \/ j \in 7..n
    BY <1>1
  <2> QED
    BY <1>14, <2>1, <2>2, <2>3
<1>16. Held(p, o, b)
  BY <1>1, <1>14, <1>15 DEF Held
<1>17. SubSeq(p, o + 1, o + Len(b)) = b
  BY <1>14, <1>16, HeldSubSeq
<1> QED
  BY <1>1, <1>11, <1>14, <1>17 DEF m, b

-----------------------------------------------------------------------------
(* Parsing.                                                                *)

\* What parse_inner_messages makes of the rest of a payload, from the offset o.
Parsing(p, f, o) ==
    IF o >= Len(p) THEN [ok |-> TRUE, messages |-> <<>>]
    ELSE IF ~Whole(p, o) THEN Refused
    ELSE LET rest == f[After(p, o)]
         IN IF rest.ok THEN [ok |-> TRUE, messages |-> <<MessageAt(p, o)>> \o rest.messages]
            ELSE Refused

\* That for every offset.
Parsed(p) == CHOOSE f : f = [o \in Nat |-> Parsing(p, f, o)]

\* Parsing ends: every offset has a result.
LEMMA ParsingExists ==
  ASSUME NEW p \in Seq(Byte)
  PROVE  \E f : f = [o \in Nat |-> Parsing(p, f, o)]
<1> DEFINE N == Len(p)
           From(k) == {o \in Nat : o >= N - k}
           H == {k \in Nat : \E f : f = [o \in From(k) |-> Parsing(p, f, o)]}
<1>0. N \in Nat
  OBVIOUS
<1>1. 0 \in H
  <2> DEFINE f == [o \in From(0) |-> [ok |-> TRUE, messages |-> <<>>]]
  <2>1. f = [o \in From(0) |-> Parsing(p, f, o)]
    BY <1>0 DEF Parsing
  <2> HIDE DEF f
  <2> QED
    BY <2>1
<1>2. ASSUME NEW k \in 1..N, k - 1 \in H PROVE k \in H
  <2>1. PICK f : f = [o \in From(k - 1) |-> Parsing(p, f, o)]
    BY <1>2
  <2> DEFINE g == [o \in From(k) |-> IF o \in From(k - 1) THEN f[o] ELSE Parsing(p, f, o)]
  <2>2. ASSUME NEW o \in From(k) PROVE g[o] = Parsing(p, g, o)
    <3>1. g[o] = Parsing(p, f, o)
      BY <2>1
    <3>2. ASSUME Whole(p, o) PROVE g[After(p, o)] = f[After(p, o)]
      <4>1. After(p, o) \in Nat /\ o + 6 <= After(p, o)
        BY <3>2, Onward
      <4>2. After(p, o) \in From(k - 1) /\ After(p, o) \in From(k)
        BY <1>0, <4>1
      <4> HIDE DEF From
      <4> QED
        BY <4>2
    <3> HIDE DEF g
    <3> QED
      BY <3>1, <3>2 DEF Parsing
  <2>3. g = [o \in From(k) |-> Parsing(p, g, o)]
    BY <2>2
  <2> HIDE DEF g, From
  <2> QED
    BY <2>3
<1>3. N \in H
  <2>1. N \in 0..N
    BY <1>0
  <2> HIDE DEF H
  <2> QED
    BY <1>0, <1>1, <1>2, <2>1, Upwards
<1>4. From(N) = Nat
  BY <1>0
<1> HIDE DEF From
<1> QED
  BY <1>3, <1>4

\* What is parsed at an offset, from what is parsed after it.
LEMMA ParseStep ==
  ASSUME NEW p \in Seq(Byte)
  PROVE  /\ \A o \in Nat : Parsed(p)[o] = Parsing(p, Parsed(p), o)
         /\ ParseInnerMessages(p) = Parsed(p)[0]
<1>1. Parsed(p) = [o \in Nat |-> Parsing(p, Parsed(p), o)]
  <2> DEFINE f == Parsed(p)
  <2>1. f = [o \in Nat |-> Parsing(p, f, o)]
    BY ParsingExists DEF Parsed
  <2> QED
    BY <2>1
<1>2. ParseInnerMessages(p) = Parsed(p)[0]
  BY DEF ParseInnerMessages, Parsed, Parsing, After
<1> QED
  BY <1>1, <1>2

\* The messages that have bytes.
Coded == {m \in InnerMessage : BuildInnerMessage(m) \in Seq(Byte)}

\* The bytes of messages are those of the first, then those of the others.
LEMMA EncodedFirst ==
  ASSUME NEW m \in Coded, NEW ms \in Seq(Coded)
  PROVE  /\ Encoded(<<m>> \o ms) = BuildInnerMessage(m) \o Encoded(ms)
         /\ Encoded(ms) \in Seq(Byte)
<1> DEFINE x == BuildInnerMessage(m)
           xs == [i \in DOMAIN ms |-> BuildInnerMessage(ms[i])]
           ns == <<m>> \o ms
           ys == [i \in DOMAIN ns |-> BuildInnerMessage(ns[i])]
           N == Len(ms)
<1>1. N \in Nat /\ DOMAIN ms = 1..N /\ \A i \in 1..N : ms[i] \in Coded
  OBVIOUS
<1>2. x \in Seq(Byte) /\ \A i \in 1..N : BuildInnerMessage(ms[i]) \in Seq(Byte)
  BY <1>1 DEF Coded
<1>3. /\ DOMAIN ns = 1..(N + 1) /\ ns[1] = m
      /\ \A i \in 1..N : ns[i + 1] = ms[i]
  OBVIOUS
<1> HIDE DEF ns, N, x
<1>4. xs = [i \in 1..N |-> BuildInnerMessage(ms[i])]
  BY <1>1
<1>5. xs \in [1..N -> Seq(Byte)]
  BY <1>2, <1>4
<1>6. xs \in Rows(Byte) /\ Len(xs) = N
  <2> HIDE DEF xs
  <2> QED
    BY <1>1, <1>5, AsSeq DEF Rows
<1>7. ys = <<x>> \o xs
  <2>1. ys = [i \in 1..(N + 1) |-> BuildInnerMessage(ns[i])]
    BY <1>3
  <2>2. 1 \in 1..(N + 1) /\ \A i \in 1..N : i + 1 \in 1..(N + 1)
    BY <1>1
  <2>3. ys[1] = x /\ \A i \in 1..N : ys[i + 1] = BuildInnerMessage(ms[i])
    <3> HIDE DEF ys
    <3> QED
      BY <1>3, <2>1, <2>2 DEF x
  <2>4. \A i \in 1..N : xs[i] = BuildInnerMessage(ms[i])
    BY <1>4
  <2>5. ys \in [1..(N + 1) -> Seq(Byte)]
    <3>1. ASSUME NEW i \in 1..(N + 1) PROVE BuildInnerMessage(ns[i]) \in Seq(Byte)
      <4>1. CASE i = 1
        BY <1>2, <1>3, <4>1 DEF x
      <4>2. CASE i # 1
        <5>1. i - 1 \in 1..N /\ (i - 1) + 1 = i
          BY <1>1, <4>2
        <5>2. ns[i] = ms[i - 1]
          BY <1>3, <5>1
        <5> QED
          BY <1>2, <5>1, <5>2
      <4> QED
        BY <4>1, <4>2
    <3> QED
      BY <2>1, <3>1
  <2> HIDE DEF xs, ys
  <2>6. x \in Seq(Byte) /\ xs \in Seq(Seq(Byte))
    BY <1>2, <1>6 DEF Rows
  <2> QED
    BY <1>6, <2>3, <2>4, <2>5, <2>6, FirstThen
<1>8. Encoded(ns) = FlattenSeq(ys) /\ Encoded(ms) = FlattenSeq(xs)
  BY DEF Encoded
<1> HIDE DEF xs, ys
<1>9. FlattenSeq(<<x>> \o xs) = x \o FlattenSeq(xs) /\ FlattenSeq(xs) \in Seq(Byte)
  BY <1>2, <1>6, FlattenFirst
<1> QED
  BY <1>7, <1>8, <1>9 DEF x, ns

\* No messages have no bytes.
LEMMA EncodedNone == Encoded(<<>>) = <<>>
<1>1. [i \in DOMAIN <<>> |-> BuildInnerMessage(<<>>[i])] = <<>>
  OBVIOUS
<1>2. FlattenSeq(<<>>) = <<>>
  BY DEF FlattenSeq
<1> QED
  BY <1>1, <1>2 DEF Encoded

\* A message that is read is one that has bytes.
LEMMA MessageCoded ==
  ASSUME NEW p \in Seq(Byte), NEW o \in Nat, Whole(p, o)
  PROVE  MessageAt(p, o) \in Coded
<1>1. After(p, o) \in Nat /\ o <= After(p, o) /\ After(p, o) <= Len(p)
  BY Onward
<1>2. SubSeq(p, o + 1, After(p, o)) \in Seq(Byte)
  BY <1>1, Piece
<1> QED
  BY <1>2, MessageBack DEF Coded

\* Nothing is left at the end of a payload.
LEMMA ParsingEnd ==
  ASSUME NEW p, NEW f, NEW o, o >= Len(p)
  PROVE  Parsing(p, f, o) = [ok |-> TRUE, messages |-> <<>>]
  BY Zenon DEF Parsing

\* A whole message and a rest that parses are a result.
LEMMA ParsingMore ==
  ASSUME NEW p, NEW f, NEW o, ~(o >= Len(p)), Whole(p, o), f[After(p, o)].ok
  PROVE  Parsing(p, f, o) =
            [ok |-> TRUE, messages |-> <<MessageAt(p, o)>> \o f[After(p, o)].messages]
  BY Zenon DEF Parsing

\* There is no result without a whole message and a rest that parses.
LEMMA ParsingOn ==
  ASSUME NEW p, NEW f, NEW o, ~(o >= Len(p)), Parsing(p, f, o).ok
  PROVE  Whole(p, o) /\ f[After(p, o)].ok
<1>1. ~Refused.ok
  BY DEF Refused
<1> QED
  BY <1>1, Zenon DEF Parsing

\* What is parsed from an offset on has the bytes from there to the end.
LEMMA ParseSound ==
  ASSUME NEW p \in Seq(Byte)
  PROVE  \A o \in 0..Len(p) : Parsed(p)[o].ok =>
            /\ Parsed(p)[o].messages \in Seq(Coded)
            /\ Encoded(Parsed(p)[o].messages) = SubSeq(p, o + 1, Len(p))
<1> DEFINE N == Len(p)
           f == Parsed(p)
           Good(o) == f[o].ok => /\ f[o].messages \in Seq(Coded)
                                 /\ Encoded(f[o].messages) = SubSeq(p, o + 1, N)
           H == {o \in 0..N : Good(o)}
<1>1. N \in Nat
  OBVIOUS
<1>2. \A o \in Nat : f[o] = Parsing(p, f, o)
  BY ParseStep
<1> HIDE DEF f
<1>3. N \in H
  <2>1. f[N].messages = <<>>
    <3>1. f[N] = Parsing(p, f, N) /\ N >= Len(p)
      BY <1>1, <1>2
    <3>2. f[N] = [ok |-> TRUE, messages |-> <<>>]
      BY <3>1, ParsingEnd
    <3> QED
      BY <3>2
  <2>2. SubSeq(p, N + 1, N) = <<>>
    BY <1>1, SubSeqEmpty
  <2>3. <<>> \in Seq(Coded)
    OBVIOUS
  <2> HIDE DEF N
  <2>4. Good(N)
    BY <2>1, <2>2, <2>3, EncodedNone
  <2> QED
    BY <1>1, <2>4
<1>4. ASSUME NEW n \in 0..(N - 1), \A k \in (n + 1)..N : k \in H PROVE n \in H
  <2> DEFINE a == After(p, n)
  <2>1. n \in Nat /\ ~(n >= N) /\ n \in 0..N
    BY <1>1
  <2> SUFFICES ASSUME f[n].ok PROVE Good(n)
    BY <2>1
  <2>2. Whole(p, n) /\ f[a].ok /\ f[n].messages = <<MessageAt(p, n)>> \o f[a].messages
    <3>1. f[n] = Parsing(p, f, n) /\ ~(n >= Len(p))
      BY <1>2, <2>1
    <3>2. Whole(p, n) /\ f[a].ok
      BY <3>1, ParsingOn
    <3>3. f[n] = [ok |-> TRUE, messages |-> <<MessageAt(p, n)>> \o f[a].messages]
      BY <3>1, <3>2, ParsingMore
    <3>4. f[n].messages = <<MessageAt(p, n)>> \o f[a].messages
      BY <3>3
    <3> QED
      BY <3>2, <3>4, Zenon
  <2>3. a \in Nat /\ n + 6 <= a /\ a <= N
    BY <2>1, <2>2, Onward
  <2>4. f[a].messages \in Seq(Coded) /\ Encoded(f[a].messages) = SubSeq(p, a + 1, N)
    <3>1. a \in (n + 1)..N
      BY <1>1, <2>1, <2>3
    <3> QED
      BY <1>4, <2>2, <3>1
  <2>5. /\ MessageAt(p, n) \in Coded
        /\ BuildInnerMessage(MessageAt(p, n)) = SubSeq(p, n + 1, a)
    BY <2>1, <2>2, MessageBack, MessageCoded
  <2> HIDE DEF a
  <2>6. Encoded(f[n].messages) = SubSeq(p, n + 1, a) \o SubSeq(p, a + 1, N)
    BY <2>2, <2>4, <2>5, EncodedFirst
  <2>7. SubSeq(p, n + 1, a) \o SubSeq(p, a + 1, N) = SubSeq(p, n + 1, N)
    <3>1. n \in Nat /\ n <= a
      BY <2>1, <2>3
    <3> QED
      BY <2>3, <3>1, Adjacent
  <2>8. f[n].messages \in Seq(Coded)
    <3>1. \A m \in Coded, ms \in Seq(Coded) : <<m>> \o ms \in Seq(Coded)
      OBVIOUS
    <3> QED
      BY <2>2, <2>4, <2>5, <3>1, Zenon
  <2> QED
    BY <2>6, <2>7, <2>8
<1>5. 0..N \subseteq H
  <2> HIDE DEF H
  <2> QED
    BY <1>1, <1>3, <1>4, Downwards
<1> QED
  BY <1>5 DEF f

\* What is accepted is the messages' bytes.
LEMMA AcceptedBytes ==
  ASSUME NEW p \in Seq(Byte), ParseInnerMessages(p).ok
  PROVE  /\ ParseInnerMessages(p).messages \in Seq(Coded)
         /\ Encoded(ParseInnerMessages(p).messages) = p
<1>1. 0 \in 0..Len(p) /\ 0 + 1 = 1
  OBVIOUS
<1>2. SubSeq(p, 1, Len(p)) = p
  BY SubSeqFull
<1> QED
  BY <1>1, <1>2, ParseSound, ParseStep

\* A whole message is the same when bytes are appended to the payload.
LEMMA MessageOfLonger ==
  ASSUME NEW p \in Seq(Byte), NEW b \in Seq(Byte), NEW o \in Nat, Whole(p, o)
  PROVE  /\ Whole(p \o b, o) /\ After(p \o b, o) = After(p, o)
         /\ MessageAt(p \o b, o) = MessageAt(p, o)
<1> DEFINE q == p \o b
           n == p[o + 1]
<1>1. /\ n \in Nat /\ 6 <= n /\ o + n <= Len(p) /\ After(p, o) = o + n
      /\ Len(p) \in Nat /\ Len(b) \in Nat
  BY Onward DEF After
<1>2. /\ q \in Seq(Byte) /\ Len(q) = Len(p) + Len(b)
      /\ \A k \in 1..(Len(p) + Len(b)) : q[k] = IF k <= Len(p) THEN p[k] ELSE b[k - Len(p)]
  BY ConcatAt, ConcatProperties
<1>3. q[o + 1] = n /\ q[o + 2] = p[o + 2]
  <2>1. \A k \in 1..Len(p) : q[k] = p[k]
    BY <1>1, <1>2
  <2>2. o + 1 \in 1..Len(p) /\ o + 2 \in 1..Len(p)
    BY <1>1
  <2> QED
    BY <2>1, <2>2
<1>4. /\ SubSeq(q, o + 3, o + 4) = SubSeq(p, o + 3, o + 4)
      /\ SubSeq(q, o + 5, o + 6) = SubSeq(p, o + 5, o + 6)
      /\ SubSeq(q, o + 7, o + n) = SubSeq(p, o + 7, o + n)
  <2>1. /\ o + 2 \in Nat /\ o + 4 \in Nat /\ o + 6 \in Nat /\ o + n \in Nat
        /\ o + 2 <= o + 4 /\ o + 4 <= o + 6 /\ o + 6 <= o + n
        /\ o + 4 <= Len(p) /\ o + 6 <= Len(p)
        /\ (o + 2) + 1 = o + 3 /\ (o + 4) + 1 = o + 5 /\ (o + 6) + 1 = o + 7
    BY <1>1
  <2>2. SubSeq(q, (o + 2) + 1, o + 4) = SubSeq(p, (o + 2) + 1, o + 4)
    BY <2>1, FieldOfLonger
  <2>3. SubSeq(q, (o + 4) + 1, o + 6) = SubSeq(p, (o + 4) + 1, o + 6)
    BY <2>1, FieldOfLonger
  <2>4. SubSeq(q, (o + 6) + 1, o + n) = SubSeq(p, (o + 6) + 1, o + n)
    BY <1>1, <2>1, FieldOfLonger
  <2> QED
    BY <2>1, <2>2, <2>3, <2>4
<1> HIDE DEF q, n
<1>5. Whole(q, o)
  <2>1. Len(q) - o >= 6 /\ o + n <= Len(q)
    BY <1>1, <1>2
  <2> QED
    BY <1>1, <1>3, <2>1 DEF Whole, InnerHeaderLen, InnerMsgMinLen
<1>6. Slice(q, o + 7, o + n) = Slice(p, o + 7, o + n)
  <2>1. ~(o + n > Len(q)) /\ ~(o + n > Len(p))
    BY <1>1, <1>2
  <2> QED
    BY <1>4, <2>1 DEF Slice
<1>7. MessageAt(q, o) = MessageAt(p, o)
  <2>1. o + InnerHeaderLen + 1 = o + 7
    BY DEF InnerHeaderLen
  <2> QED
    BY <1>3, <1>4, <1>6, <2>1 DEF MessageAt, n
<1>8. After(q, o) = After(p, o)
  BY <1>3 DEF After, n
<1> QED
  BY <1>5, <1>7, <1>8 DEF q

\* Concatenation of messages is associative.
LEMMA CodedTriple ==
  ASSUME NEW r \in Seq(Coded), NEW s \in Seq(Coded), NEW t \in Seq(Coded)
  PROVE  (r \o s) \o t = r \o (s \o t)
<1> DEFINE S == Coded
<1>1. r \in Seq(S) /\ s \in Seq(S) /\ t \in Seq(S)
  OBVIOUS
<1> HIDE DEF S
<1> QED
  BY <1>1, ConcatAssociative

\* A message appended to a payload that parses is the last one parsed.
LEMMA ParseAppend ==
  ASSUME NEW p \in Seq(Byte), NEW m \in InnerMessage, Buildable(m),
         ParseInnerMessages(p).ok
  PROVE  ParseInnerMessages(p \o BuildInnerMessage(m)) =
            [ok |-> TRUE, messages |-> Append(ParseInnerMessages(p).messages, m)]
<1> DEFINE b == BuildInnerMessage(m)
           q == p \o b
           N == Len(p)
           f == Parsed(p)
           g == Parsed(q)
           Longer(o) == f[o].ok => g[o] = [ok |-> TRUE, messages |-> Append(f[o].messages, m)]
           H == {o \in 0..N : Longer(o)}
<1>1. N \in Nat /\ b \in Seq(Byte) /\ Len(b) \in Nat /\ 6 <= Len(b)
  <2>1. b \in Seq(Byte) /\ Len(b) = 6 + Len(m.data)
    BY BuildBytes, BuildableSize
  <2>2. Len(m.data) \in Nat
    BY DEF InnerMessage
  <2> HIDE DEF b
  <2> QED
    BY <2>1, <2>2
<1>2. m \in Coded
  BY <1>1 DEF Coded
<1> HIDE DEF b
<1>3. /\ q \in Seq(Byte) /\ Len(q) = N + Len(b)
      /\ \A k \in 1..(N + Len(b)) : q[k] = IF k <= N THEN p[k] ELSE b[k - N]
  BY <1>1, ConcatAt, ConcatProperties
<1>4. \A o \in Nat : f[o] = Parsing(p, f, o) /\ g[o] = Parsing(q, g, o)
  BY <1>3, ParseStep
<1>5. \A o \in 0..N : f[o].ok => f[o].messages \in Seq(Coded)
  BY ParseSound
<1>6. \A o \in Nat : Whole(p, o) =>
          /\ Whole(q, o) /\ After(q, o) = After(p, o) /\ MessageAt(q, o) = MessageAt(p, o)
  BY <1>1, MessageOfLonger
<1>7. Held(q, N, b)
  <2>1. ASSUME NEW j \in 1..Len(b) PROVE q[N + j] = b[j]
    <3>1. N + j \in 1..(N + Len(b)) /\ ~(N + j <= N) /\ (N + j) - N = j
      BY <1>1
    <3> HIDE DEF q
    <3> QED
      BY <1>3, <3>1
  <2>2. N + Len(b) <= Len(q)
    BY <1>1, <1>3
  <2> HIDE DEF q
  <2> QED
    BY <1>1, <2>1, <2>2 DEF Held
<1> HIDE DEF f, g, q
<1>8. N \in H
  <2>1. Whole(q, N) /\ MessageAt(q, N) = m /\ After(q, N) = Len(q)
    BY <1>1, <1>3, <1>7, MessageThere DEF b, After
  <2>2. f[N] = [ok |-> TRUE, messages |-> <<>>]
    <3>1. N >= Len(p)
      BY <1>1
    <3> QED
      BY <1>1, <1>4, <3>1, ParsingEnd
  <2>3. g[Len(q)] = [ok |-> TRUE, messages |-> <<>>]
    <3>1. Len(q) \in Nat /\ Len(q) >= Len(q)
      BY <1>1, <1>3
    <3> QED
      BY <1>4, <3>1, ParsingEnd
  <2>4. g[N] = [ok |-> TRUE, messages |-> <<m>> \o <<>>]
    <3>1. ~(N >= Len(q)) /\ g[N] = Parsing(q, g, N)
      BY <1>1, <1>3, <1>4
    <3>2. g[After(q, N)].ok /\ g[After(q, N)].messages = <<>>
      BY <2>1, <2>3
    <3> QED
      BY <2>1, <3>1, <3>2, ParsingMore
  <2>5. <<m>> \o <<>> = Append(<<>>, m)
    OBVIOUS
  <2>6. Longer(N)
    BY <2>2, <2>4, <2>5
  <2>7. N \in 0..N
    BY <1>1
  <2> QED
    BY <2>6, <2>7
<1>9. ASSUME NEW n \in 0..(N - 1), \A k \in (n + 1)..N : k \in H PROVE n \in H
  <2> DEFINE a == After(p, n)
             x == MessageAt(p, n)
  <2>1. n \in Nat /\ ~(n >= N) /\ ~(n >= Len(q)) /\ n \in 0..N
    BY <1>1, <1>3
  <2> SUFFICES ASSUME f[n].ok PROVE Longer(n)
    BY <2>1
  <2>2. Whole(p, n) /\ f[a].ok /\ f[n] = [ok |-> TRUE, messages |-> <<x>> \o f[a].messages]
    <3>1. f[n] = Parsing(p, f, n) /\ ~(n >= Len(p))
      BY <1>4, <2>1
    <3>2. Whole(p, n) /\ f[a].ok
      BY <3>1, ParsingOn
    <3> QED
      BY <3>1, <3>2, ParsingMore
  <2>3. a \in Nat /\ n + 6 <= a /\ a <= N
    BY <2>1, <2>2, Onward
  <2>4. g[a] = [ok |-> TRUE, messages |-> Append(f[a].messages, m)]
    <3>1. a \in (n + 1)..N
      BY <1>1, <2>1, <2>3
    <3> QED
      BY <1>9, <2>2, <3>1
  <2>5. f[a].messages \in Seq(Coded) /\ x \in Coded
    <3>1. a \in 0..N
      BY <1>1, <2>3
    <3> QED
      BY <1>5, <2>1, <2>2, <3>1, MessageCoded
  <2>6. g[n] = [ok |-> TRUE, messages |-> <<x>> \o Append(f[a].messages, m)]
    <3>1. Whole(q, n) /\ After(q, n) = a /\ MessageAt(q, n) = x
      BY <1>6, <2>1, <2>2
    <3>2. g[a].ok /\ g[a].messages = Append(f[a].messages, m)
      BY <2>4
    <3> HIDE DEF a, x
    <3> QED
      BY <1>4, <2>1, <3>1, <3>2, ParsingMore
  <2> HIDE DEF a, x
  <2>7. <<x>> \o Append(f[a].messages, m) = Append(<<x>> \o f[a].messages, m)
    <3>1. <<x>> \in Seq(Coded) /\ <<m>> \in Seq(Coded)
      BY <1>2, <2>5
    <3>2. Append(f[a].messages, m) = f[a].messages \o <<m>>
      BY <1>2, <2>5, AppendIsConcat
    <3>3. <<x>> \o f[a].messages \in Seq(Coded)
      BY <2>5, <3>1, ConcatProperties
    <3>4. Append(<<x>> \o f[a].messages, m) = (<<x>> \o f[a].messages) \o <<m>>
      BY <1>2, <3>3, AppendIsConcat
    <3>5. (<<x>> \o f[a].messages) \o <<m>> = <<x>> \o (f[a].messages \o <<m>>)
      BY <2>5, <3>1, CodedTriple
    <3> QED
      BY <3>2, <3>4, <3>5, Zenon
  <2>8. Append(f[n].messages, m) = <<x>> \o Append(f[a].messages, m)
    <3>1. f[n].messages = <<x>> \o f[a].messages
      BY <2>2
    <3> QED
      BY <2>7, <3>1, Zenon
  <2> QED
    BY <2>6, <2>8
<1>10. 0 \in H
  <2>1. 0 \in 0..N
    BY <1>1
  <2> HIDE DEF H
  <2> QED
    BY <1>1, <1>8, <1>9, <2>1, Downwards
<1>11. ParseInnerMessages(p) = f[0] /\ ParseInnerMessages(q) = g[0]
  BY <1>3, ParseStep DEF f, g
<1>12. g[0] = [ok |-> TRUE, messages |-> Append(f[0].messages, m)]
  BY <1>10, <1>11
<1> QED
  BY <1>11, <1>12 DEF q, b

\* An empty payload has no messages.
LEMMA ParseEmpty == ParseInnerMessages(<<>>) = [ok |-> TRUE, messages |-> <<>>]
<1> DEFINE p == <<>>
<1>1. p \in Seq(Byte) /\ 0 >= Len(p) /\ 0 \in Nat
  OBVIOUS
<1> HIDE DEF p
<1>2. Parsed(p)[0] = Parsing(p, Parsed(p), 0) /\ ParseInnerMessages(p) = Parsed(p)[0]
  BY <1>1, ParseStep
<1> QED
  BY <1>1, <1>2, ParsingEnd DEF p

-----------------------------------------------------------------------------
(* The status struct.                                                      *)

\* The struct has 23 fields.
LEMMA FormatLength == DOMAIN StatusFormat = 1..23 /\ Len(StatusFormat) = 23
  BY SMT DEF StatusFormat

\* Fields are one, two or four bytes wide; a signed one has two, a flag one.
LEMMA FormatWidths ==
  \A i \in 1..23 :
      /\ StatusFormat[i].width \in {1, 2, 4}
      /\ StatusFormat[i].signed => StatusFormat[i].width = 2
      /\ StatusFormat[i].name \in Flags => StatusFormat[i].width = 1 /\ ~StatusFormat[i].signed
<1>1. \A i \in 1..23 : StatusFormat[i].width \in {1, 2, 4}
  BY SMT DEF StatusFormat, Field, Temperature, Reserved
<1>2. \A i \in 1..23 : StatusFormat[i].signed => StatusFormat[i].width = 2
  BY SMT DEF StatusFormat, Field, Temperature, Reserved
<1>3. \A i \in 1..23 : StatusFormat[i].name \in Flags =>
          StatusFormat[i].width = 1 /\ ~StatusFormat[i].signed
  BY SMT DEF StatusFormat, Field, Temperature, Reserved, Flags
<1> QED
  BY <1>1, <1>2, <1>3

\* The width of a field is a number.
LEMMA WidthOf ==
  ASSUME NEW i \in 1..23
  PROVE  StatusFormat[i].width \in {1, 2, 4} /\ StatusFormat[i].width \in Nat
<1>1. StatusFormat[i].width \in {1, 2, 4}
  BY FormatWidths, Zenon
<1>2. \A x \in {1, 2, 4} : x \in Nat
  OBVIOUS
<1> QED
  BY <1>1, <1>2, Zenon

\* A field begins where the one before it ends.
LEMMA StatusOffsets ==
  /\ StatusOffset \in [0..23 -> Nat] /\ StatusOffset[0] = 0
  /\ \A i \in 1..23 : StatusOffset[i] = StatusOffset[i - 1] + StatusFormat[i].width
  /\ ThermostatStatusLen = StatusOffset[23]
<1> DEFINE w == [i \in DOMAIN StatusFormat |-> StatusFormat[i].width]
<1>1. w = [i \in 1..23 |-> StatusFormat[i].width]
  BY FormatLength
<1>2. \A i \in 1..23 : w[i] = StatusFormat[i].width /\ w[i] \in Nat
  BY <1>1, WidthOf
<1>3. w \in [1..23 -> Nat]
  BY <1>1, <1>2
<1>4. StatusOffset = Sums(w)
  BY DEF StatusOffset
<1> HIDE DEF w
<1>5. w \in Seq(Nat) /\ Len(w) = 23
  BY <1>3, AsSeq
<1> QED
  <2>1. /\ StatusOffset \in [0..23 -> Nat] /\ StatusOffset[0] = 0
        /\ \A i \in 1..23 : StatusOffset[i] = StatusOffset[i - 1] + w[i]
    BY <1>4, <1>5, SumsStep
  <2>2. ThermostatStatusLen = StatusOffset[23]
    BY FormatLength DEF ThermostatStatusLen
  <2> QED
    BY <1>2, <2>1, <2>2

\* What pack_thermostat_status puts in the i-th field.
Value(s, i) == IF i \in NamedFields THEN s[StatusFormat[i].name] ELSE 0

\* The bytes of each field of a struct that was packed, whatever comes after it.
LEMMA PackedStatus ==
  ASSUME NEW s \in ThermostatStatusFields, NEW tail \in Seq(Byte)
  PROVE  LET d == PackThermostatStatus(s) \o tail
         IN /\ d \in Seq(Byte) /\ ~(Len(d) < ThermostatStatusLen)
            /\ \A i \in 1..23 : SubSeq(d, StatusOffset[i - 1] + 1, StatusOffset[i])
                                    = Bytes(Value(s, i), StatusFormat[i].width)
<1> DEFINE parts == [i \in DOMAIN StatusFormat |-> Bytes(Value(s, i), StatusFormat[i].width)]
           x == PackThermostatStatus(s)
<1>1. \A i \in 1..23 : Value(s, i) \in Int
  <2>1. s \in [StatusNames -> Int]
    BY DEF ThermostatStatusFields
  <2>2. \A i \in NamedFields : StatusFormat[i].name \in StatusNames
    BY DEF StatusNames
  <2> QED
    BY <2>1, <2>2 DEF Value
<1>2. ASSUME NEW i \in 1..23
      PROVE  /\ Bytes(Value(s, i), StatusFormat[i].width) \in Seq(Byte)
             /\ Len(Bytes(Value(s, i), StatusFormat[i].width)) = StatusFormat[i].width
  <2>1. StatusFormat[i].width \in {1, 2, 4} /\ StatusFormat[i].width \in Nat
    BY WidthOf
  <2>2. Bytes(Value(s, i), StatusFormat[i].width) \in [1..StatusFormat[i].width -> Byte]
    BY <1>1, <2>1, BytesOf
  <2> QED
    BY <2>1, <2>2, AsSeq
<1>3. parts = [i \in 1..23 |-> Bytes(Value(s, i), StatusFormat[i].width)]
  BY FormatLength
<1>4. x = FlattenSeq(parts)
  BY DEF PackThermostatStatus, Value
<1> HIDE DEF parts
<1>5. \A i \in 1..23 : /\ parts[i] = Bytes(Value(s, i), StatusFormat[i].width)
                      /\ Len(parts[i]) = StatusFormat[i].width
  BY <1>2, <1>3
<1>6. parts \in Rows(Byte) /\ Len(parts) = 23
  <2>1. parts \in [1..23 -> Seq(Byte)]
    BY <1>2, <1>3
  <2> QED
    BY <2>1, AsSeq DEF Rows
<1>7. Offsets(parts, StatusOffset)
  BY <1>5, <1>6, StatusOffsets DEF Offsets
<1>8. /\ x \in Seq(Byte) /\ Len(x) = StatusOffset[23] /\ Len(x) \in Nat
      /\ \A i \in 1..23 : /\ StatusOffset[i] <= Len(x)
                         /\ SubSeq(x, StatusOffset[i - 1] + 1, StatusOffset[i]) = parts[i]
  <2> DEFINE y == FlattenSeq(parts)
  <2>1. /\ y \in Seq(Byte) /\ Len(y) = StatusOffset[Len(parts)]
        /\ \A i \in 1..Len(parts) :
              /\ StatusOffset[i] <= Len(y)
              /\ SubSeq(y, StatusOffset[i - 1] + 1, StatusOffset[i]) = parts[i]
    BY <1>6, <1>7, FlattenParts, Zenon
  <2> HIDE DEF x, y
  <2>2. x = y
    BY <1>4 DEF y
  <2>3. Len(y) \in Nat
    BY <2>1
  <2> QED
    BY <1>6, <2>1, <2>2, <2>3
<1> HIDE DEF x
<1>9. x \o tail \in Seq(Byte) /\ ~(Len(x \o tail) < ThermostatStatusLen)
  <2>1. Len(x \o tail) = Len(x) + Len(tail) /\ Len(x) \in Nat /\ Len(tail) \in Nat
    BY <1>8, LongerLen
  <2>2. x \o tail \in Seq(Byte)
    BY <1>8, ConcatProperties
  <2> QED
    <3>1. ThermostatStatusLen = Len(x)
      BY <1>8, StatusOffsets
    <3> QED
      BY <2>1, <2>2, <3>1
<1>10. ASSUME NEW i \in 1..23
       PROVE  SubSeq(x \o tail, StatusOffset[i - 1] + 1, StatusOffset[i]) = parts[i]
  <2>1. /\ StatusOffset[i - 1] \in Nat /\ StatusOffset[i] \in Nat
        /\ StatusOffset[i - 1] <= StatusOffset[i]
    <3>1. i \in 0..23 /\ i - 1 \in 0..23
      OBVIOUS
    <3>2. StatusOffset[i - 1] \in Nat /\ StatusOffset[i] \in Nat
      BY <3>1, StatusOffsets
    <3>3. StatusFormat[i].width \in Nat
      BY WidthOf
    <3>4. StatusOffset[i] = StatusOffset[i - 1] + StatusFormat[i].width
      BY StatusOffsets
    <3> QED
      BY <3>2, <3>3, <3>4
  <2>2. StatusOffset[i] <= Len(x) /\ x \in Seq(Byte)
    BY <1>8, Zenon
  <2>3. SubSeq(x \o tail, StatusOffset[i - 1] + 1, StatusOffset[i])
            = SubSeq(x, StatusOffset[i - 1] + 1, StatusOffset[i])
    BY <2>1, <2>2, FieldOfLonger, Zenon
  <2> QED
    BY <1>8, <2>3, Zenon
<1> QED
  BY <1>5, <1>9, <1>10 DEF x

\* What unpack_thermostat_status reads in the i-th field.
Reading(d, i) ==
    IF StatusFormat[i].signed
    THEN Signed(SubSeq(d, StatusOffset[i - 1] + 1, StatusOffset[i]))
    ELSE Unsigned(SubSeq(d, StatusOffset[i - 1] + 1, StatusOffset[i]))

\* A flag fits in a byte.
LEMMA FlagFits == \A v \in {0, 1} : v \div Place(1) \in Byte
<1>1. \A v \in {0, 1} : v \div 1 = v
  BY SMT
<1>2. \A v \in {0, 1} : v \in Byte
  BY DEF Byte
<1>3. Place(1) = 1
  BY Places
<1> QED
  BY <1>1, <1>2, <1>3, Zenon

\* A named field is read as it was packed.
LEMMA FieldRoundTrip ==
  ASSUME NEW s \in ThermostatStatusFields, NEW i \in NamedFields, NEW d,
         SubSeq(d, StatusOffset[i - 1] + 1, StatusOffset[i])
             = Bytes(s[StatusFormat[i].name], StatusFormat[i].width)
  PROVE  /\ Reading(d, i) = s[StatusFormat[i].name]
         /\ StatusFormat[i].name \in Flags => s[StatusFormat[i].name] \in {0, 1}
<1> DEFINE v == s[StatusFormat[i].name]
           field == StatusFormat[i]
<1>1. i \in 1..23 /\ field.name \in StatusNames
  BY FormatLength DEF NamedFields, StatusNames
<1>2. v \in Int /\ Fits(v, field)
  <2>1. /\ s \in [StatusNames -> Int]
        /\ \A j \in NamedFields : Fits(s[StatusFormat[j].name], StatusFormat[j])
    BY DEF ThermostatStatusFields
  <2> QED
    BY <1>1, <2>1
<1>3. /\ field.width \in {1, 2, 4}
      /\ field.signed => field.width = 2
      /\ field.name \in Flags => field.width = 1 /\ ~field.signed
  BY <1>1, FormatWidths
<1>4. Reading(d, i) = IF field.signed THEN Signed(Bytes(v, field.width))
                      ELSE Unsigned(Bytes(v, field.width))
  BY DEF Reading
<1> HIDE DEF v, field
<1>5. CASE field.name \in Flags
  <2>1. v \in {0, 1} /\ field.width = 1 /\ ~field.signed
    BY <1>2, <1>3, <1>5, Zenon DEF Fits
  <2>2. v \div Place(1) \in Byte
    BY <2>1, FlagFits
  <2>3. Unsigned(Bytes(v, 1)) = v
    BY <1>2, <2>2, UnsignedRoundTrip
  <2> QED
    BY <1>4, <2>1, <2>3, Zenon DEF v, field
<1>6. CASE field.name \notin Flags /\ field.signed
  <2>1. field.width = 2
    BY <1>3, <1>6, Zenon
  <2>2. v \div Place(field.width) \in -128..127
    BY <1>2, <1>6, Zenon DEF Fits
  <2>3. v \div Place(2) \in -128..127
    BY <2>1, <2>2, Zenon
  <2>4. Signed(Bytes(v, 2)) = v
    BY <1>2, <2>3, SignedRoundTrip, Zenon
  <2> QED
    BY <1>4, <1>6, <2>1, <2>4, Zenon DEF v, field
<1>7. CASE field.name \notin Flags /\ ~field.signed
  <2>1. v \div Place(field.width) \in Byte
    BY <1>2, <1>7, Zenon DEF Fits
  <2>2. Unsigned(Bytes(v, field.width)) = v
    BY <1>2, <1>3, <2>1, UnsignedRoundTrip, Zenon
  <2> QED
    BY <1>4, <1>7, <2>2, Zenon DEF v, field
<1> QED
  BY <1>5, <1>6, <1>7, Zenon

\* A status is unpacked as it was packed, whatever a newer firmware appends.
LEMMA StatusRoundTrip ==
  ASSUME NEW s \in ThermostatStatusFields, NEW tail \in Seq(Byte)
  PROVE  UnpackThermostatStatus(PackThermostatStatus(s) \o tail) = [ok |-> TRUE, status |-> s]
<1> DEFINE d == PackThermostatStatus(s) \o tail
           at(name) == CHOOSE i \in NamedFields : StatusFormat[i].name = name
           read(name) == IF name \in Flags THEN (IF Reading(d, at(name)) = 0 THEN 0 ELSE 1)
                         ELSE Reading(d, at(name))
<1>1. /\ ~(Len(d) < ThermostatStatusLen)
      /\ \A i \in 1..23 : SubSeq(d, StatusOffset[i - 1] + 1, StatusOffset[i])
                              = Bytes(Value(s, i), StatusFormat[i].width)
  BY PackedStatus
<1>2. UnpackThermostatStatus(d) = IF Len(d) < ThermostatStatusLen THEN Refused
                                  ELSE [ok |-> TRUE, status |-> [name \in StatusNames |-> read(name)]]
  BY Zenon DEF UnpackThermostatStatus, Reading
<1> HIDE DEF d
<1>3. ASSUME NEW name \in StatusNames PROVE read(name) = s[name]
  <2>1. at(name) \in NamedFields /\ StatusFormat[at(name)].name = name
    <3>1. \E i \in NamedFields : StatusFormat[i].name = name
      BY DEF StatusNames
    <3> QED
      BY <3>1, Zenon
  <2> DEFINE i == at(name)
  <2> HIDE DEF at
  <2>2. SubSeq(d, StatusOffset[i - 1] + 1, StatusOffset[i])
            = Bytes(s[StatusFormat[i].name], StatusFormat[i].width)
    <3>1. i \in 1..23
      BY <2>1, FormatLength DEF NamedFields
    <3> QED
      BY <1>1, <2>1, <3>1, Zenon DEF Value
  <2>3. /\ Reading(d, i) = s[name]
        /\ name \in Flags => s[name] \in {0, 1}
    BY <2>1, <2>2, FieldRoundTrip
  <2> HIDE DEF i
  <2>4. read(name) = IF name \in Flags THEN (IF Reading(d, i) = 0 THEN 0 ELSE 1)
                     ELSE Reading(d, i)
    BY DEF i
  <2> QED
    BY <2>3, <2>4
<1>4. [name \in StatusNames |-> read(name)] = s
  <2>1. s = [name \in StatusNames |-> s[name]]
    BY DEF ThermostatStatusFields
  <2> HIDE DEF read
  <2> QED
    BY <1>3, <2>1
<1> QED
  BY <1>1, <1>2, <1>4, Zenon DEF d

-----------------------------------------------------------------------------
(* A frame.                                                                *)

\* A message with a status in it has the status's bytes.
CarriesStatus(i) ==
    /\ pushed[i] \in Statuses
    /\ \E tail \in Tails : batch[i].data = PackThermostatStatus(pushed[i]) \o tail

\* What is pushed in a message: a status, or nothing.
MayBePushed == Statuses \cup {<<>>}

\* The values of the variables.
FrameTypes ==
    /\ payload \in Seq(Byte) /\ batch \in Seq(InnerMessage)
    /\ pushed \in Seq(MayBePushed) /\ Len(pushed) = Len(batch)
    /\ damage \in {"none", "cut", "altered"}

\* An undamaged payload parses to the batch; a status in it is in its message's bytes.
FrameInv ==
    /\ FrameTypes
    /\ damage = "none" =>
          ParseInnerMessages(payload) = [ok |-> TRUE, messages |-> batch]
    /\ \A i \in DOMAIN pushed : pushed[i] # <<>> => CarriesStatus(i)

\* An empty frame satisfies the invariant.
LEMMA FrameInitially == FrameInit => FrameInv
<1> SUFFICES ASSUME FrameInit PROVE FrameInv
  OBVIOUS
<1>1. payload = <<>> /\ batch = <<>> /\ pushed = <<>> /\ damage = "none"
  BY DEF FrameInit
<1>2. /\ <<>> \in Seq(Byte) /\ <<>> \in Seq(InnerMessage) /\ <<>> \in Seq(MayBePushed)
      /\ DOMAIN <<>> = {}
  OBVIOUS
<1>4. FrameTypes
  BY <1>1, <1>2 DEF FrameTypes
<1> QED
  BY <1>1, <1>2, <1>4, ParseEmpty DEF FrameInv

\* A message that is added is the last one parsed; the others stay.
LEMMA AddKeepsInv ==
  ASSUME FrameInv, NEW msg \in InnerMessage, NEW sent \in MayBePushed, Add(msg, sent),
         sent # <<>> => /\ sent \in Statuses
                          /\ \E tail \in Tails : msg.data = PackThermostatStatus(sent) \o tail
  PROVE  FrameInv'
<1> DEFINE b == BuildInnerMessage(msg)
           N == Len(batch)
<1>1. /\ damage = "none" /\ damage' = "none" /\ Buildable(msg)
      /\ payload' = payload \o b
      /\ batch' = Append(batch, msg) /\ pushed' = Append(pushed, sent)
  BY DEF Add
<1>2. /\ payload \in Seq(Byte) /\ batch \in Seq(InnerMessage)
      /\ N \in Nat /\ DOMAIN batch = 1..N
      /\ pushed \in Seq(MayBePushed) /\ Len(pushed) = N /\ DOMAIN pushed = 1..N
  BY DEF FrameInv, FrameTypes
<1>3. b \in Seq(Byte)
  BY <1>1, BuildBytes, BuildableSize
<1> HIDE DEF b, N
<1>4. payload' \in Seq(Byte)
  BY <1>1, <1>2, <1>3, ConcatProperties
<1>5. /\ batch' \in Seq(InnerMessage) /\ Len(batch') = N + 1 /\ DOMAIN batch' = 1..(N + 1)
      /\ batch'[N + 1] = msg /\ \A i \in 1..N : batch'[i] = batch[i]
  BY <1>1, <1>2, AppendProperties DEF N
<1>6. /\ pushed' \in Seq(MayBePushed) /\ Len(pushed') = N + 1
      /\ DOMAIN pushed' = 1..(N + 1) /\ pushed'[N + 1] = sent
      /\ \A i \in 1..N : pushed'[i] = pushed[i]
  BY <1>1, <1>2, AppendProperties
<1>7. FrameTypes'
  BY <1>1, <1>4, <1>5, <1>6 DEF FrameTypes
<1>8. ParseInnerMessages(payload') = [ok |-> TRUE, messages |-> batch']
  <2>1. ParseInnerMessages(payload) = [ok |-> TRUE, messages |-> batch]
    BY <1>1 DEF FrameInv
  <2>2. ParseInnerMessages(payload).ok /\ ParseInnerMessages(payload).messages = batch
    BY <2>1
  <2>3. ParseInnerMessages(payload \o b)
            = [ok |-> TRUE, messages |-> Append(ParseInnerMessages(payload).messages, msg)]
    BY <1>1, <1>2, <2>2, ParseAppend DEF b
  <2> QED
    BY <1>1, <2>2, <2>3
<1>9. ASSUME NEW i \in DOMAIN pushed', pushed'[i] # <<>> PROVE CarriesStatus(i)'
  <2>1. CASE i \in 1..N
    <3>1. pushed'[i] = pushed[i] /\ batch'[i] = batch[i] /\ i \in DOMAIN pushed
      BY <1>2, <1>5, <1>6, <2>1
    <3>2. CarriesStatus(i)
      BY <1>9, <3>1 DEF FrameInv
    <3> QED
      BY <3>1, <3>2 DEF CarriesStatus
  <2>2. CASE i \notin 1..N
    <3>1. i = N + 1
      BY <1>2, <1>6, <2>2
    <3> QED
      BY <1>5, <1>6, <1>9, <3>1 DEF CarriesStatus
  <2> QED
    BY <2>1, <2>2
<1> QED
  BY <1>7, <1>8, <1>9 DEF FrameInv

\* A message of a caller is a message.
LEMMA BatchKeepsInv == ASSUME FrameInv, Batch PROVE FrameInv'
<1>1. PICK msg \in Samples : Add(msg, <<>>)
  BY DEF Batch
<1>2. msg \in InnerMessage
  BY SamplesAssumption
<1> QED
  BY <1>1, <1>2, AddKeepsInv DEF MayBePushed

\* A status that is pushed is in the message's bytes.
LEMMA PushKeepsInv == ASSUME FrameInv, Push PROVE FrameInv'
<1>1. PICK sent \in Statuses, tail \in Tails :
          Add([error |-> 0, operation |-> DataOperation, counter |-> 0,
               pid |-> ThermostatStatusPid, data |-> PackThermostatStatus(sent) \o tail],
              sent)
  BY DEF Push
<1> DEFINE msg == [error |-> 0, operation |-> DataOperation, counter |-> 0,
                   pid |-> ThermostatStatusPid,
                   data |-> PackThermostatStatus(sent) \o tail]
<1>2. msg.data = PackThermostatStatus(sent) \o tail
  OBVIOUS
<1>3. msg \in InnerMessage
  <2>1. PackThermostatStatus(sent) \o tail \in Seq(Byte)
    BY PackedStatus, StatusesAssumption, FrameBoundsAssumption
  <2>2. 0 \in 0..15 /\ DataOperation \in 0..15 /\ 0 \in Nat
    BY DEF DataOperation
  <2>3. ThermostatStatusPid \in UShort
    BY SMT DEF ThermostatStatusPid, UShort
  <2> QED
    BY <2>1, <2>2, <2>3 DEF InnerMessage
<1> HIDE DEF msg
<1>4. Add(msg, sent)
  BY <1>1 DEF msg
<1> QED
  BY <1>2, <1>3, <1>4, AddKeepsInv DEF MayBePushed

\* What was sent is damaged on the way, and no longer claimed to arrive.
LEMMA DamageKeepsInv ==
  ASSUME FrameInv, payload' \in Seq(Byte), damage' \in {"cut", "altered"},
         UNCHANGED <<batch, pushed>>
  PROVE  FrameInv'
<1>1. batch' = batch /\ pushed' = pushed
  OBVIOUS
<1>2. FrameTypes'
  BY <1>1 DEF FrameInv, FrameTypes
<1>3. \A i : CarriesStatus(i) => CarriesStatus(i)'
  BY <1>1 DEF CarriesStatus
<1> QED
  BY <1>1, <1>2, <1>3 DEF FrameInv

\* Every step keeps the invariant.
LEMMA FrameStep == FrameInv /\ [FrameNext]_frameVars => FrameInv'
<1> SUFFICES ASSUME FrameInv, [FrameNext]_frameVars PROVE FrameInv'
  OBVIOUS
<1>1. payload \in Seq(Byte)
  BY DEF FrameInv, FrameTypes
<1>2. CASE Batch
  BY <1>2, BatchKeepsInv
<1>3. CASE Push
  BY <1>3, PushKeepsInv
<1>4. CASE Cut
  <2>1. SubSeq(payload, 1, Len(payload) - 1) \in Seq(Byte)
    <3>1. Len(payload) \in Nat /\ Len(payload) - 1 \in Int
      BY <1>1
    <3>2. \A i \in 1..(Len(payload) - 1) : payload[i] \in Byte
      BY <1>1, <3>1
    <3> QED
      BY <1>1, <3>1, <3>2, SubSeqProperties
  <2>2. damage' \in {"cut", "altered"} /\ UNCHANGED <<batch, pushed>>
    BY <1>4 DEF Cut
  <2> QED
    BY <1>4, <2>1, <2>2, DamageKeepsInv DEF Cut
<1>5. CASE Alter
  <2>1. PICK i \in DOMAIN payload : \E byte \in WrongBytes : payload' = [payload EXCEPT ![i] = byte]
    BY <1>5 DEF Alter
  <2>2. PICK byte \in WrongBytes : payload' = [payload EXCEPT ![i] = byte]
    BY <2>1
  <2>3. byte \in Byte
    BY FrameBoundsAssumption
  <2>4. payload' \in Seq(Byte)
    BY <1>1, <2>2, <2>3, ExceptSeq
  <2>5. damage' \in {"cut", "altered"} /\ UNCHANGED <<batch, pushed>>
    BY <1>5 DEF Alter
  <2> QED
    BY <2>4, <2>5, DamageKeepsInv
<1>6. CASE UNCHANGED frameVars
  BY <1>6 DEF frameVars, FrameInv, FrameTypes, CarriesStatus
<1> QED
  BY <1>2, <1>3, <1>4, <1>5, <1>6 DEF FrameNext

\* A frame satisfies the invariant at every moment, for any messages, statuses, tails,
\* damage and batch size.
THEOREM FrameSafety == FrameSpec => []FrameInv
  BY FrameInitially, FrameStep, PTL DEF FrameSpec

\* What parse_inner_messages accepts is what build_inner_message would have written
\* for the messages it returns: no byte of a payload is skipped, read twice or made up.
THEOREM AcceptedIsEncodedHolds == FrameSpec => []AcceptedIsEncoded
<1>1. FrameInv => AcceptedIsEncoded
  BY AcceptedBytes DEF FrameInv, FrameTypes, AcceptedIsEncoded, Received
<1> QED
  BY <1>1, FrameSafety, PTL

\* A frame's header byte and payload come out as they went in.
LEMMA OuterRoundTrip ==
  ASSUME NEW p \in Seq(Byte)
  PROVE  ParseOuter(BuildOuter(4, p, 4)) = [ok |-> TRUE, header |-> <<4, 4>>, payload |-> p]
<1> DEFINE h == OuterHeader(4, 4)
           d == <<h>> \o p
<1>1. h = 68
  BY DEF OuterHeader
<1>2. SplitOuterHeader(68) = <<4, 4>>
  BY DEF SplitOuterHeader
<1> HIDE DEF h
<1>3. d # <<>> /\ d[1] = h /\ Tail(d) = p
  <2>1. h \in Int /\ p \in Seq(Int)
    <3>1. \A x \in Byte : x \in Int
      BY DEF Byte
    <3> QED
      BY <1>1, <3>1
  <2> QED
    BY <2>1, HeadAndTail
<1> QED
  BY <1>1, <1>2, <1>3, Zenon DEF BuildOuter, ParseOuter, h

\* What the messages that carry a status are read as.
LEMMA ReadStatus ==
  ASSUME FrameInv, NEW i \in DOMAIN pushed, pushed[i] # <<>>, damage = "none"
  PROVE  /\ Received.messages[i] = batch[i]
         /\ pushed[i] \in ThermostatStatusFields
         /\ UnpackThermostatStatus(Received.messages[i].data)
                = [ok |-> TRUE, status |-> pushed[i]]
<1>1. Received = [ok |-> TRUE, messages |-> batch]
  BY DEF FrameInv, Received
<1>2. CarriesStatus(i)
  BY DEF FrameInv
<1>3. PICK tail \in Tails : batch[i].data = PackThermostatStatus(pushed[i]) \o tail
  BY <1>2 DEF CarriesStatus
<1>4. pushed[i] \in ThermostatStatusFields /\ tail \in Seq(Byte)
  BY <1>2, StatusesAssumption, FrameBoundsAssumption DEF CarriesStatus
<1>5. UnpackThermostatStatus(batch[i].data) = [ok |-> TRUE, status |-> pushed[i]]
  BY <1>3, <1>4, StatusRoundTrip
<1> QED
  BY <1>1, <1>4, <1>5

\* Every message of an undamaged frame comes out in order and unchanged, and every
\* status as the device sent it, with a newer firmware's additions or without.
THEOREM FrameArrivesHolds == FrameSpec => []FrameArrives
<1>1. ASSUME FrameInv, damage = "none"
      PROVE  /\ Received.ok /\ Received.messages = batch
             /\ LET outer == ParseOuter(BuildOuter(4, payload, 4))
                IN outer.ok /\ outer.header = <<4, 4>> /\ outer.payload = payload
             /\ \A i \in DOMAIN pushed : pushed[i] # <<>> =>
                    UnpackThermostatStatus(Received.messages[i].data)
                        = [ok |-> TRUE, status |-> pushed[i]]
  <2>1. Received = [ok |-> TRUE, messages |-> batch]
    BY <1>1 DEF FrameInv, Received
  <2>2. Received.ok /\ Received.messages = batch
    BY <2>1
  <2>3. payload \in Seq(Byte)
    BY <1>1 DEF FrameInv, FrameTypes
  <2>4. LET outer == ParseOuter(BuildOuter(4, payload, 4))
        IN outer.ok /\ outer.header = <<4, 4>> /\ outer.payload = payload
    BY <2>3, OuterRoundTrip
  <2> QED
    BY <1>1, <2>2, <2>4, ReadStatus
<1>2. FrameInv => FrameArrives
  BY <1>1 DEF FrameArrives
<1> QED
  BY <1>2, FrameSafety, PTL

\* A reading of one value is not unknown.
LEMMA KnownReading == ASSUME NEW value PROVE <<value>> # <<>>
  OBVIOUS

\* What EntitiesAgree says of a status, as it was read and sent.
Agree(read, sent) ==
    LET sensors == Sensors(read)
        flags == BinarySensors(read)
        floor == IF sent.floor_sensor_error = 0 THEN <<sent.floor_temperature>> ELSE <<>>
        room == IF sent.room_sensor_error = 0 THEN <<sent.room_temperature>> ELSE <<>>
        edit == <<sent.current_set_temperature + 5>>
    IN /\ sensors.floor_temperature = floor /\ sensors.room_temperature = room
       /\ flags.floor_sensor_fault <=> floor = <<>>
       /\ flags.room_sensor_fault <=> room = <<>>
       /\ sensors.target_temperature = <<sent.current_set_temperature>>
       /\ \A followsRoom \in BOOLEAN, waiting \in {<<>>, edit} :
             LET card == Climate(read, followsRoom, waiting)
             IN /\ card.current_temperature = IF followsRoom THEN room ELSE floor
                /\ card.target_temperature =
                      IF waiting = edit THEN edit ELSE sensors.target_temperature
                /\ card.hvac_action = "heating" <=> flags.heating /\ flags.power
                /\ card.hvac_mode = "off" <=> ~flags.power
       /\ DerivedSensors(read, 1).power = <<1>> <=> flags.heating

\* The entities show any status that is read as it was sent.
LEMMA ReadAsSent ==
  ASSUME NEW s
  PROVE  Agree(s, s)
<1> DEFINE floor == IF s.floor_sensor_error = 0 THEN <<s.floor_temperature>> ELSE <<>>
           room == IF s.room_sensor_error = 0 THEN <<s.room_temperature>> ELSE <<>>
           edit == <<s.current_set_temperature + 5>>
<1>1. /\ Sensors(s).floor_temperature = floor /\ Sensors(s).room_temperature = room
      /\ Sensors(s).target_temperature = <<s.current_set_temperature>>
  BY DEF Sensors, FloorTemperature, RoomTemperature
<1>2. /\ BinarySensors(s).floor_sensor_fault <=> s.floor_sensor_error # 0
      /\ BinarySensors(s).room_sensor_fault <=> s.room_sensor_error # 0
      /\ BinarySensors(s).heating <=> s.relay_on # 0
      /\ BinarySensors(s).power <=> s.power_off = 0
  BY DEF BinarySensors
<1>3. /\ s.floor_sensor_error # 0 <=> floor = <<>>
      /\ s.room_sensor_error # 0 <=> room = <<>>
  BY KnownReading, Zenon
<1>4. /\ BinarySensors(s).floor_sensor_fault <=> floor = <<>>
      /\ BinarySensors(s).room_sensor_fault <=> room = <<>>
  <2> HIDE DEF floor, room
  <2> QED
    BY <1>2, <1>3, Zenon
<1>5. DerivedSensors(s, 1).power = <<1>> <=> s.relay_on # 0
  BY DEF DerivedSensors
<1>6. ASSUME NEW followsRoom \in BOOLEAN, NEW waiting \in {<<>>, edit}
      PROVE  LET card == Climate(s, followsRoom, waiting)
             IN /\ card.current_temperature = IF followsRoom THEN room ELSE floor
                /\ card.target_temperature =
                      IF waiting = edit THEN edit ELSE Sensors(s).target_temperature
                /\ card.hvac_action = "heating" <=>
                      BinarySensors(s).heating /\ BinarySensors(s).power
                /\ card.hvac_mode = "off" <=> ~BinarySensors(s).power
  <2>1. /\ Climate(s, followsRoom, waiting).current_temperature =
              CurrentTemperature(s, followsRoom)
        /\ Climate(s, followsRoom, waiting).target_temperature = TargetTemperature(s, waiting)
        /\ Climate(s, followsRoom, waiting).hvac_action = "heating" <=>
              s.relay_on # 0 /\ s.power_off = 0
        /\ Climate(s, followsRoom, waiting).hvac_mode = "off" <=> s.power_off # 0
    BY DEF Climate
  <2>2. CurrentTemperature(s, followsRoom) = IF followsRoom THEN room ELSE floor
    BY DEF CurrentTemperature
  <2>3. TargetTemperature(s, waiting) =
            IF waiting = edit THEN edit ELSE <<s.current_set_temperature>>
    BY <1>6, KnownReading, Zenon DEF TargetTemperature
  <2> HIDE DEF floor, room, edit
  <2> QED
    BY <1>1, <1>2, <2>1, <2>2, <2>3, Zenon
<1> QED
  BY <1>1, <1>2, <1>4, <1>5, <1>6, Zenon DEF Agree

\* The entities show a status that has arrived as the device sent it, and agree.
THEOREM EntitiesAgreeHolds == FrameSpec => []EntitiesAgree
<1>1. ASSUME FrameInv, damage = "none", NEW i \in DOMAIN pushed, pushed[i] # <<>>
      PROVE  Agree(UnpackThermostatStatus(Received.messages[i].data).status, pushed[i])
  <2>1. UnpackThermostatStatus(Received.messages[i].data) = [ok |-> TRUE, status |-> pushed[i]]
    BY <1>1, ReadStatus, Zenon
  <2>2. UnpackThermostatStatus(Received.messages[i].data).status = pushed[i]
    BY <2>1
  <2> QED
    BY <2>2, ReadAsSent, Zenon
<1>2. FrameInv => EntitiesAgree
  BY <1>1, Zenon DEF EntitiesAgree, Agree
<1> QED
  BY <1>2, FrameSafety, PTL
=============================================================================
