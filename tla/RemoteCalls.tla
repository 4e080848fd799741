---------------------------- MODULE RemoteCalls ----------------------------
(***************************************************************************)
(* What a session with the thermostat promises the code that calls it,     *)
(* without saying how: a call that succeeds was carried out by the device, *)
(* a call that fails may have been, no call is carried out twice, and every *)
(* call comes to an end.  EB300Session implements this.                    *)
(***************************************************************************)
CONSTANT Callers          \* the tasks that call

VARIABLES calling,        \* the callers with a call under way
          executed,       \* those whose call the device has carried out
          succeeded       \* the callers whose last call returned normally

callVars == <<calling, executed, succeeded>>

CallsInit == calling = {} /\ executed = {} /\ succeeded = {}

Ask(c) ==
    /\ c \notin calling
    /\ calling' = calling \cup {c}
    /\ succeeded' = succeeded \ {c}
    /\ UNCHANGED executed

\* The call fails on the spot: nothing is sent.
Refuse(c) ==
    /\ c \notin calling
    /\ succeeded' = succeeded \ {c}
    /\ UNCHANGED <<calling, executed>>

Execute(c) ==
    /\ c \in calling \ executed
    /\ executed' = executed \cup {c}
    /\ UNCHANGED <<calling, succeeded>>

Succeed(c) ==
    /\ c \in calling \cap executed
    /\ calling' = calling \ {c}
    /\ executed' = executed \ {c}
    /\ succeeded' = succeeded \cup {c}

Fail(c) ==
    /\ c \in calling
    /\ calling' = calling \ {c}
    /\ executed' = executed \ {c}
    /\ UNCHANGED succeeded

CallsNext ==
    \E c \in Callers :
        Ask(c) \/ Refuse(c) \/ Execute(c) \/ Succeed(c) \/ Fail(c)

CallsFairness == \A c \in Callers : WF_callVars(Succeed(c) \/ Fail(c))

CallsSafety == CallsInit /\ [][CallsNext]_callVars

CallsSpec == CallsSafety /\ CallsFairness
=============================================================================
