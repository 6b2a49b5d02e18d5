---------------------------- MODULE InFlightSet ----------------------------
(***************************************************************************)
(* What the in-flight tracking of a consumer promises (Consumer.h, the     *)
(* comment on _inFlightHead): a message that was received and not yet      *)
(* acknowledged is in flight at one consumer; acknowledging it there takes *)
(* it out; recover() and the destructor hand back everything that is left, *)
(* oldest receipt first.                                                   *)
(***************************************************************************)
EXTENDS Integers

CONSTANTS Consumers, Messages

VARIABLES
    flight,    \* the messages in flight at each consumer
    stamp,     \* when each message was received last
    draining   \* the consumers that are handing back what they have

Init ==
    /\ flight = [c \in Consumers |-> {}]
    /\ stamp = [m \in Messages |-> 0]
    /\ draining = {}

Receive(c, m) ==
    /\ c \notin draining
    /\ \A d \in Consumers : m \notin flight[d]
    /\ flight' = [flight EXCEPT ![c] = @ \cup {m}]
    /\ stamp' = [stamp EXCEPT ![m] = stamp'[m]]
    /\ stamp'[m] \in Nat /\ \A o \in flight[c] : stamp[o] < stamp'[m]
    /\ UNCHANGED draining

Acknowledge(c, m) ==
    /\ c \notin draining /\ m \in flight[c]
    /\ flight' = [flight EXCEPT ![c] = @ \ {m}]
    /\ UNCHANGED <<stamp, draining>>

BeginDrain(c) ==
    /\ c \notin draining
    /\ draining' = draining \cup {c}
    /\ UNCHANGED <<flight, stamp>>

\* The oldest message in flight is handed back.
HandBack(c, m) ==
    /\ c \in draining /\ m \in flight[c]
    /\ \A o \in flight[c] : stamp[m] <= stamp[o]
    /\ flight' = [flight EXCEPT ![c] = @ \ {m}]
    /\ UNCHANGED <<stamp, draining>>

\* Only a consumer with nothing in flight is done.
EndDrain(c) ==
    /\ c \in draining /\ flight[c] = {}
    /\ draining' = draining \ {c}
    /\ UNCHANGED <<flight, stamp>>

Next == \E c \in Consumers :
    \/ BeginDrain(c)
    \/ EndDrain(c)
    \/ \E m \in Messages : Receive(c, m) \/ Acknowledge(c, m) \/ HandBack(c, m)

Spec == Init /\ [][Next]_<<flight, stamp, draining>>
=============================================================================
