----------------------------- MODULE LineServer -----------------------------
(***************************************************************************)
(* The line transport that src/p9/distyx.c (distyx_tcp_client_thread) and  *)
(* cogdiod-lang/bridge/cogdiod_bridge.c (client_thread) share: one thread  *)
(* per connection, which receives what has arrived, handles the first line *)
(* of it, answers, and receives again.  What came behind that line in the  *)
(* same recv is lost.                                                      *)
(*                                                                         *)
(* A request is known by its number among those of its client; what it     *)
(* asks for is chosen when it is handled.  A client in Patient waits for   *)
(* each answer before it asks again; the others ask ahead.  A line arrives *)
(* whole: requests are far shorter than a segment.  Connections stay open. *)
(***************************************************************************)
EXTENDS Naturals, Sequences

CONSTANTS
    Client,
    Patient,        \* the clients that wait for an answer
    MaxRequests     \* bound: the requests of one client

ASSUME ClientsAssumption == Patient \subseteq Client /\ MaxRequests \in Nat

VARIABLES
    asked,      \* asked[c]: how many requests c has sent
    received,   \* received[c]: how many of them recv has taken in
    line,       \* line[c]: the one that c's thread is handling, or 0
    answers,    \* answers[c]: the request that each answer to c was to
    reply       \* reply[c]: what the last of them said

lineVars == <<asked, received, line, answers, reply>>

LineInit ==
    /\ asked = [c \in Client |-> 0]
    /\ received = [c \in Client |-> 0]
    /\ line = [c \in Client |-> 0]
    /\ answers = [c \in Client |-> <<>>]
    /\ reply = [c \in Client |-> "none"]

LineTypeOK ==
    /\ \A v \in {asked, received, line} : v \in [Client -> 0 .. MaxRequests]
    /\ \A c \in Client : answers[c] \in Seq(1 .. MaxRequests)

Ask(c) ==
    /\ asked[c] < MaxRequests
    /\ c \in Patient => Len(answers[c]) = asked[c]
    /\ asked' = [asked EXCEPT ![c] = @ + 1]
    /\ UNCHANGED <<received, line, answers, reply>>

\* Mutant: what came behind the line is looked at again, and so is the line.
ReceiveAgain(c) ==
    /\ line[c] = 0
    /\ received[c] < asked[c]
    /\ line' = [line EXCEPT ![c] = received[c] + 1]
    /\ UNCHANGED <<asked, received, answers, reply>>
\* recv returns any number of the lines that have arrived; strchr ends the
\* string at the first of them.
Receive(c) ==
    /\ line[c] = 0
    /\ \E upto \in received[c] + 1 .. asked[c] :
        received' = [received EXCEPT ![c] = upto]
    /\ line' = [line EXCEPT ![c] = received[c] + 1]
    /\ UNCHANGED <<asked, answers, reply>>

\* The answer is sent and the thread goes back to recv.
Answer(c, said) ==
    /\ line[c] # 0
    /\ answers' = [answers EXCEPT ![c] = Append(@, line[c])]
    /\ reply' = [reply EXCEPT ![c] = said]
    /\ line' = [line EXCEPT ![c] = 0]
    /\ UNCHANGED <<asked, received>>

\* An empty line, or one of DisTyx's of fewer than two words, is passed over
\* without an answer.  Patient clients send no such line.
PassOver(c) ==
    /\ line[c] # 0
    /\ c \notin Patient
    /\ line' = [line EXCEPT ![c] = 0]
    /\ UNCHANGED <<asked, received, answers, reply>>

\* Never two answers to one request, never one before the answer to an earlier
\* request, never one to a request that was not made: a client that asks ahead
\* loses requests, and can only tell which from what the answers say.
AnswersInOrder == \A c \in Client :
    /\ \A i, j \in DOMAIN answers[c] : i < j => answers[c][i] < answers[c][j]
    /\ \A i \in DOMAIN answers[c] : answers[c][i] \in 1 .. asked[c]

\* A client that waits for its answers gets every one of them, whatever the
\* other clients of the server ask for and lose.
PatientAreAnswered == \A c \in Patient :
    Len(answers[c]) < asked[c] ~> Len(answers[c]) = asked[c]
=============================================================================
