--------------------------- MODULE ConnectionGate ---------------------------
(***************************************************************************)
(* How every Bluetooth operation of the process gets its connection:       *)
(* async_with_retries and async_run_once of coordinator.py around the      *)
(* process-global _CONNECTION_SEMAPHORE.  An operation is a task: a        *)
(* scheduled poll, a settle poll, a write, a service call, or the config   *)
(* flow's key validation, of any thermostat.                               *)
(*                                                                         *)
(* One step is what a task runs between two suspensions.  So releasing the *)
(* semaphore, deciding to retry and asking for the semaphore again is one  *)
(* step, and so is a teardown that has no link to await.                   *)
(*                                                                         *)
(* pc[o], the place o is suspended at:                                     *)
(*   "idle"              no task                                           *)
(*   "queued"            in the semaphore's deque, its future pending      *)
(*   "granted"           its future has a result, the task has not resumed *)
(*   "queuedCancelled"   cancelled while its future was pending            *)
(*   "grantedCancelled"  cancelled after its future got the permit         *)
(*   "connecting"        in establish_connection                           *)
(*   "handshaking"       link up: start_notify and the 4-step handshake    *)
(*   "running"           in op(client)                                     *)
(*   "closing"           in the finally: await client.disconnect()         *)
(***************************************************************************)
EXTENDS Naturals, Sequences, SequencesExt

CONSTANTS Ops,          \* the tasks
          Cancellable,  \* those a newer edit may cancel: setpoint writes
          MaxAttempts   \* CONNECT_RETRY_ATTEMPTS

ASSUME CancellableAssumption == Cancellable \subseteq Ops
ASSUME MaxAttemptsAssumption == MaxAttempts \in Nat \ {0}

VARIABLES value,        \* Semaphore._value
          waiters,      \* Semaphore._waiters, whose futures are in pc
          pc,
          attempt,      \* the attempt of async_with_retries under way
          ending,       \* what the attempt, and at last the task, ends with
          link          \* whether the link the task opened is up

vars == <<value, waiters, pc, attempt, ending, link>>

InitialPermits == 1

Waiting == {"queued", "granted", "queuedCancelled", "grantedCancelled"}
Timed   == {"connecting", "handshaking", "running"}
Holding == Timed \cup {"closing"}

\* "failed": an EB300Error or TimeoutError; "rejected": the device refused the
\* key; "raised": any other exception.
Endings == {"none", "ok", "failed", "rejected", "raised", "cancelled"}

Init ==
    /\ value = InitialPermits
    /\ waiters = <<>>
    /\ pc = [o \in Ops |-> "idle"]
    /\ attempt = [o \in Ops |-> 0]
    /\ ending = [o \in Ops |-> "none"]
    /\ link = [o \in Ops |-> FALSE]

-----------------------------------------------------------------------------
(* asyncio.Semaphore.                                                      *)

\* w is the first waiter whose future is not done: the next to be woken.
NextInLine(w) ==
    \E i \in DOMAIN waiters :
        /\ waiters[i] = w
        /\ pc[w] = "queued"
        /\ \A j \in 1..(i - 1) : pc[waiters[j]] # "queued"

AllWaitersCancelled ==
    \A i \in DOMAIN waiters : pc[waiters[i]] = "queuedCancelled"

\* Mutant: release() wakes nobody.
ReleaseSilently(o, next) ==
    /\ pc' = [pc EXCEPT ![o] = next]
    /\ value' = value + 1

\* release(): the permit passes to the next in line, or back to the counter.
\* The task that releases goes on to `next`.
Release(o, next) ==
    \/ \E w \in Ops :
        /\ NextInLine(w)
        /\ pc' = [pc EXCEPT ![o] = next, ![w] = "granted"]
        /\ UNCHANGED value
    \/ /\ \A w \in Ops : ~NextInLine(w)
       /\ pc' = [pc EXCEPT ![o] = next]
       /\ value' = value + 1

\* Mutant: acquire() looks at the queue and not at the counter.
AcquireUncounted(o, free) ==
    \/ /\ AllWaitersCancelled
       /\ value' = free - 1
       /\ pc' = [pc EXCEPT ![o] = "connecting"]
       /\ UNCHANGED waiters
    \/ /\ ~AllWaitersCancelled
       /\ value' = free
       /\ pc' = [pc EXCEPT ![o] = "queued"]
       /\ waiters' = Append(waiters, o)

\* acquire(), with the counter at `free`: at once, or behind the others.
Acquire(o, free) ==
    LET locked == free = 0 \/ ~AllWaitersCancelled IN
    \/ /\ ~locked
       /\ value' = free - 1
       /\ pc' = [pc EXCEPT ![o] = "connecting"]
       /\ UNCHANGED waiters
    \/ /\ locked
       /\ value' = free
       /\ pc' = [pc EXCEPT ![o] = "queued"]
       /\ waiters' = Append(waiters, o)

\* Mutant: the attempts are made inside the semaphore's block.
RetryInside(o) ==
    /\ pc' = [pc EXCEPT ![o] = "connecting"]
    /\ UNCHANGED <<value, waiters>>

\* release() by an attempt that failed, then acquire() for the next one.
ReleaseAndAcquire(o) ==
    \/ /\ \E w \in Ops : NextInLine(w)
       /\ Release(o, "queued")
       /\ waiters' = Append(waiters, o)
    \/ /\ \A w \in Ops : ~NextInLine(w)
       /\ Acquire(o, value + 1)

\* The deque loses the future of o.
Dequeue(o) ==
    \E i \in DOMAIN waiters :
        waiters[i] = o /\ waiters' = RemoveAt(waiters, i)

-----------------------------------------------------------------------------
(* One attempt, and the loop around it.                                    *)

\* Mutant: the attempts are not counted.
ConcludeUncounted(o, e) ==
    \/ /\ e = "failed"
       /\ UNCHANGED attempt
       /\ ending' = [ending EXCEPT ![o] = "none"]
       /\ ReleaseAndAcquire(o)
    \/ /\ e # "failed"
       /\ UNCHANGED attempt
       /\ ending' = [ending EXCEPT ![o] = e]
       /\ Release(o, "idle")
       /\ UNCHANGED waiters

\* Mutant: acquire() and release() by hand, and a cancelled task skips the latter.
ConcludeCancelledKeeping(o, e) ==
    \/ /\ e = "failed" /\ attempt[o] < MaxAttempts
       /\ attempt' = [attempt EXCEPT ![o] = @ + 1]
       /\ ending' = [ending EXCEPT ![o] = "none"]
       /\ ReleaseAndAcquire(o)
    \/ /\ attempt' = [attempt EXCEPT ![o] = IF e = "failed" THEN MaxAttempts ELSE @]
       /\ ending' = [ending EXCEPT ![o] = e]
       /\ IF e = "cancelled" THEN pc' = [pc EXCEPT ![o] = "idle"] /\ UNCHANGED value
          ELSE Release(o, "idle")
       /\ UNCHANGED waiters

\* async_run_once leaves the semaphore's block with e, and async_with_retries
\* goes round again only after an error that is not a refused key.  Every
\* attempt starts by looking the device up: while no scanner sees it each
\* attempt left fails on the spot, the semaphore untouched.
Conclude(o, e) ==
    \/ /\ e = "failed" /\ attempt[o] < MaxAttempts
       /\ attempt' = [attempt EXCEPT ![o] = @ + 1]
       /\ ending' = [ending EXCEPT ![o] = "none"]
       /\ ReleaseAndAcquire(o)
    \/ /\ attempt' = [attempt EXCEPT ![o] = IF e = "failed" THEN MaxAttempts ELSE @]
       /\ ending' = [ending EXCEPT ![o] = e]
       /\ Release(o, "idle")
       /\ UNCHANGED waiters

\* Mutant: the disconnect follows the operation, not in a finally.
LeaveScopeNoFinally(o, e) ==
    /\ UNCHANGED link
    /\ \/ /\ link[o] /\ e = "ok"
          /\ pc' = [pc EXCEPT ![o] = "closing"]
          /\ ending' = [ending EXCEPT ![o] = e]
          /\ UNCHANGED <<value, waiters, attempt>>
       \/ /\ ~(link[o] /\ e = "ok")
          /\ Conclude(o, e)

\* The timeout scope is left with e.  With the link up the teardown has a
\* disconnect to await; without it, client.disconnect() does not suspend.
LeaveScope(o, e) ==
    /\ UNCHANGED link
    /\ \/ /\ link[o]
          /\ pc' = [pc EXCEPT ![o] = "closing"]
          /\ ending' = [ending EXCEPT ![o] = e]
          /\ UNCHANGED <<value, waiters, attempt>>
       \/ /\ ~link[o]
          /\ Conclude(o, e)

-----------------------------------------------------------------------------
(* The steps of a task.                                                    *)

\* Bound: a task's name is used again only once its last link is down.
Start(o) ==
    /\ pc[o] = "idle" /\ ~link[o]
    /\ UNCHANGED link
    /\ \/ /\ attempt' = [attempt EXCEPT ![o] = 1]
          /\ ending' = [ending EXCEPT ![o] = "none"]
          /\ Acquire(o, value)
       \/ /\ attempt' = [attempt EXCEPT ![o] = MaxAttempts]
          /\ ending' = [ending EXCEPT ![o] = "failed"]
          /\ UNCHANGED <<value, waiters, pc>>

\* The task whose future has the permit resumes.
ResumeGranted(o) ==
    /\ pc[o] = "granted"
    /\ pc' = [pc EXCEPT ![o] = "connecting"]
    /\ Dequeue(o)
    /\ UNCHANGED <<value, attempt, ending, link>>

\* A task cancelled in the queue resumes; a permit it was granted is released.
ResumeCancelled(o) ==
    /\ \/ /\ pc[o] = "queuedCancelled"
          /\ pc' = [pc EXCEPT ![o] = "idle"]
          /\ UNCHANGED value
       \/ /\ pc[o] = "grantedCancelled"
          /\ Release(o, "idle")
    /\ Dequeue(o)
    /\ ending' = [ending EXCEPT ![o] = "cancelled"]
    /\ UNCHANGED <<attempt, link>>

\* establish_connection returns a client.
LinkUp(o) ==
    /\ pc[o] = "connecting"
    /\ pc' = [pc EXCEPT ![o] = "handshaking"]
    /\ link' = [link EXCEPT ![o] = TRUE]
    /\ UNCHANGED <<value, waiters, attempt, ending>>

HandshakeDone(o) ==
    /\ pc[o] = "handshaking" /\ link[o]
    /\ pc' = [pc EXCEPT ![o] = "running"]
    /\ UNCHANGED <<value, waiters, attempt, ending, link>>

\* The device refuses the key.
KeyRejected(o) ==
    /\ pc[o] = "handshaking"
    /\ LeaveScope(o, "rejected")

\* op returns, or raises something that is neither EB300Error nor TimeoutError.
OpReturns(o) ==
    /\ pc[o] = "running"
    /\ \E e \in {"ok", "raised"} : LeaveScope(o, e)

\* An EB300Error, or BLE_OPERATION_TIMEOUT expires: the timer always does.
AttemptFails(o) ==
    /\ pc[o] \in Timed
    /\ LeaveScope(o, "failed")

\* The disconnect returns, failed or not: either way the link is gone.
DisconnectReturns(o) ==
    /\ pc[o] = "closing"
    /\ link' = [link EXCEPT ![o] = FALSE]
    /\ Conclude(o, ending[o])

\* A newer edit cancels the task, at most once.  A cancelled disconnect is not
\* awaited any more: the exception leaves the finally with the link as it is.
Cancel(o) ==
    /\ o \in Cancellable
    /\ \/ /\ pc[o] = "queued"
          /\ pc' = [pc EXCEPT ![o] = "queuedCancelled"]
          /\ UNCHANGED <<value, waiters, attempt, ending, link>>
       \/ /\ pc[o] = "granted"
          /\ pc' = [pc EXCEPT ![o] = "grantedCancelled"]
          /\ UNCHANGED <<value, waiters, attempt, ending, link>>
       \/ /\ pc[o] \in Timed
          /\ LeaveScope(o, "cancelled")
       \/ /\ pc[o] = "closing" /\ ending[o] # "cancelled"
          /\ Conclude(o, "cancelled")
          /\ UNCHANGED link

\* The link drops: out of range, closed by the device, or, for one that was
\* abandoned, the disconnect still under way below completes.
LinkLost(o) ==
    /\ link[o]
    /\ link' = [link EXCEPT ![o] = FALSE]
    /\ UNCHANGED <<value, waiters, pc, attempt, ending>>

Next ==
    \E o \in Ops :
        \/ Start(o)         \/ ResumeGranted(o) \/ ResumeCancelled(o)
        \/ LinkUp(o)        \/ HandshakeDone(o) \/ KeyRejected(o)
        \/ OpReturns(o)     \/ AttemptFails(o)  \/ DisconnectReturns(o)
        \/ Cancel(o)        \/ LinkLost(o)

\* The event loop resumes what is ready, the operation timer fires, and the
\* Bluetooth stack ends a disconnect.  Nothing else is owed: a connection, a
\* handshake and the device's answers may never come.
Fairness ==
    \A o \in Ops : /\ WF_vars(ResumeGranted(o))
                   /\ WF_vars(ResumeCancelled(o))
                   /\ WF_vars(AttemptFails(o))
                   /\ WF_vars(DisconnectReturns(o))

Safety == Init /\ [][Next]_vars
Spec == Safety /\ Fairness

-----------------------------------------------------------------------------
(* Properties.                                                             *)

\* Every variable has its type.
TypeOK ==
    /\ value \in Nat
    /\ waiters \in Seq(Ops)
    /\ pc \in [Ops -> {"idle"} \cup Waiting \cup Holding]
    /\ attempt \in [Ops -> 0..MaxAttempts]
    /\ ending \in [Ops -> Endings]
    /\ link \in [Ops -> BOOLEAN]

HasPermit(o) == pc[o] \in Holding \cup {"granted", "grantedCancelled"}

\* One task at a time has the permit, from the step that grants it to the end
\* of the teardown, whatever fails and whoever is cancelled in between.
SlotExclusive == \A o, p \in Ops : HasPermit(o) /\ HasPermit(p) => o = p

\* The permit is never lost and never duplicated: the counter is 1 exactly
\* when no task has the permit.
PermitConserved == value = IF \E o \in Ops : HasPermit(o) THEN 0 ELSE 1

\* No task sleeps in the queue while the permit is free, in particular not
\* after the waiter that had been granted it was cancelled.
NoLostWakeup == value > 0 => \A o \in Ops : pc[o] # "queued"

\* The deque holds each waiting task once, and nobody else.
QueueMatchesTasks ==
    /\ \A o \in Ops : pc[o] \in Waiting <=> \E i \in DOMAIN waiters : waiters[i] = o
    /\ \A i, j \in DOMAIN waiters : waiters[i] = waiters[j] => i = j

\* A link is open only for a task that has the permit, or was left behind by
\* one that was cancelled: no error, timeout, refused key or unexpected
\* exception lets go of the permit before the link.
LinkNeedsPermit ==
    \A o \in Ops : link[o] => pc[o] \in Holding \/ ending[o] = "cancelled"

\* The claim of coordinator.py:55-56 and docs/HARDWARE_NOTES.md:203-204: two
\* links of this integration are never up at the same time.
OneLinkAtATime == \A o, p \in Ops : link[o] /\ link[p] => o = p

Enters(o) == pc'[o] = "connecting" /\ pc[o] # "connecting"

\* First come, first served: nobody, a retry of the current holder included,
\* starts connecting ahead of a live waiter that was there before.
NoOvertaking ==
    [][\A o, w \in Ops :
         Enters(o) /\ pc[w] = "queued" =>
            \E i, j \in DOMAIN waiters : waiters[i] = o /\ waiters[j] = w /\ i < j]_vars

Slot == INSTANCE ConnectionSlot WITH
            asking  <- {o \in Ops : pc[o] \in Waiting},
            holding <- {o \in Ops : pc[o] \in Holding}

\* The semaphore with its retries and teardown is the one-slot service of
\* ConnectionSlot, serving everybody.
ImplementsSlot == Slot!SlotSpec
=============================================================================
