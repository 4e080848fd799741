--------------------------- MODULE ConnectionSlot ---------------------------
(***************************************************************************)
(* What the integration promises about Bluetooth connections, without      *)
(* saying how: an operation asks for the one connection slot, at most one  *)
(* operation holds it, and everyone who asks is served or gives up.  A     *)
(* failed attempt may line up again.  ConnectionGate implements this.      *)
(***************************************************************************)
CONSTANT Ops                \* every BLE operation of the Home Assistant process

VARIABLES asking,           \* the operations waiting for the slot
          holding           \* the operations that have it

slotVars == <<asking, holding>>

SlotInit == asking = {} /\ holding = {}

\* An operation starts waiting for the slot.
Ask(o) ==
    /\ o \notin asking \cup holding
    /\ asking' = asking \cup {o}
    /\ UNCHANGED holding

\* The free slot goes to an operation, one that waited or one that just came.
Enter(o) ==
    /\ holding = {}
    /\ holding' = {o}
    /\ asking' = asking \ {o}

\* A waiting operation is cancelled.
Withdraw(o) ==
    /\ o \in asking
    /\ asking' = asking \ {o}
    /\ UNCHANGED holding

\* The holder is done with the slot ...
Leave(o) ==
    /\ o \in holding
    /\ holding' = holding \ {o}
    /\ UNCHANGED asking

\* ... or gives it up between two attempts, and waits behind the others.
LineUpAgain(o) ==
    /\ o \in holding
    /\ holding' = holding \ {o}
    /\ asking' = asking \cup {o}

SlotNext ==
    \E o \in Ops : \/ Ask(o) \/ Enter(o) \/ Withdraw(o)
                   \/ Leave(o) \/ LineUpAgain(o)

Served(o) == o \in asking /\ (Enter(o) \/ Withdraw(o))

SlotFairness ==
    \A o \in Ops : /\ SF_slotVars(Served(o))
                   /\ WF_slotVars(Leave(o) \/ LineUpAgain(o))

SlotSafety == SlotInit /\ [][SlotNext]_slotVars

SlotSpec == SlotSafety /\ SlotFairness
=============================================================================
