------------------------------- MODULE MCClient -------------------------------
(***************************************************************************)
(* Instances of Client for TLC.                                            *)
(***************************************************************************)
EXTENDS Client

P(send, timer, destroys, polls, recvs) ==
    [async_send |-> send, async_timer |-> timer, destroys |-> destroys, polls |-> polls, recvs |-> recvs]

\* Clients that run timers themselves are destroyed and handle requests in
\* any way, except that replies through the buffer of the client need
\* asynchronous sends.  With asynchronous timers they do neither.
MCPrograms ==
    {P(send, FALSE, TRUE, TRUE, send) : send \in BOOLEAN} \cup {P(send, TRUE, FALSE, FALSE, send) : send \in BOOLEAN}

\* Asynchronous timers handle requests.
MCPollPrograms == {P(send, TRUE, FALSE, TRUE, FALSE) : send \in BOOLEAN}

=============================================================================
