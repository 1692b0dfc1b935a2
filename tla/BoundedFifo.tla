---------------------------- MODULE BoundedFifo ----------------------------
(***************************************************************************)
(* What a Limbo channel promises its users, with the ring buffer, the      *)
(* condition variables and the threads' control left out: a first-in       *)
(* first-out queue of at most Capacity messages.  A call of cogdiod_send   *)
(* is pending from the moment it is made until its message is appended,    *)
(* and it cannot return without appending it.                              *)
(***************************************************************************)
EXTENDS Naturals, Sequences

CONSTANTS
    Message,    \* the messages (CogMessage)
    NoMessage,  \* "no call in progress", "nothing received yet"
    Senders,    \* threads that call cogdiod_send
    Takers,     \* threads that remove messages
    Capacity    \* messages the channel holds at most

VARIABLES
    queue,      \* the messages sent and not yet received, oldest first
    pending,    \* pending[s]: the message of s's call in progress
    got         \* got[t]: the last message t received

vars == <<queue, pending, got>>

Init ==
    /\ queue = <<>>
    /\ pending = [s \in Senders |-> NoMessage]
    /\ got = [t \in Takers |-> NoMessage]

\* A thread calls cogdiod_send.
Call(s, m) ==
    /\ pending[s] = NoMessage
    /\ pending' = [pending EXCEPT ![s] = m]
    /\ UNCHANGED <<queue, got>>

\* The call takes effect and returns.
Put(s) ==
    /\ pending[s] # NoMessage
    /\ Len(queue) < Capacity
    /\ queue' = Append(queue, pending[s])
    /\ pending' = [pending EXCEPT ![s] = NoMessage]
    /\ UNCHANGED got

\* The collector's send, which gives up when the channel is full.
Offer(m) ==
    /\ Len(queue) < Capacity
    /\ queue' = Append(queue, m)
    /\ UNCHANGED <<pending, got>>

\* A thread receives the oldest message.
Take(t) ==
    /\ queue # <<>>
    /\ got' = [got EXCEPT ![t] = Head(queue)]
    /\ queue' = Tail(queue)
    /\ UNCHANGED pending

Next ==
    \/ \E s \in Senders : Put(s) \/ \E m \in Message : Call(s, m)
    \/ \E m \in Message : Offer(m)
    \/ \E t \in Takers : Take(t)

Spec == Init /\ [][Next]_vars

\* A channel with room takes the pending message, a channel with a message
\* gives it to somebody.
Fairness ==
    /\ \A s \in Senders : WF_vars(Put(s))
    /\ WF_vars(\E t \in Takers : Take(t))

FairSpec == Spec /\ Fairness
=============================================================================
