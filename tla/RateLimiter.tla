----------------------------- MODULE RateLimiter -----------------------------
(***************************************************************************)
(* The rate limiter of RequestContextMiddleware (main.py): one deque of    *)
(* admission times per client.  dispatch does not await anything between   *)
(* reading the clock and appending to the deque, so that the whole of it   *)
(* is one step; the clock is monotonic and may stand still between two     *)
(* requests.                                                               *)
(***************************************************************************)
EXTENDS Integers, Sequences

CONSTANTS
    Clients, \* client addresses
    Limit,   \* request_rate_limit_per_minute
    Window,  \* 60 seconds
    MaxTime, \* bound on the clock
    MaxCalls \* bound on the requests of one client

ASSUME LimiterAssumption ==
    /\ Limit \in Nat \ {0} /\ Window \in Nat
    /\ MaxTime \in Nat /\ MaxCalls \in Nat

VARIABLES
    now,      \* time.monotonic()
    queue,    \* requests[client]
    admitted, \* admitted[c]: the times of all admitted requests
    refused   \* refused[c]: of each 429 the time, and how many were admitted before

limiterVars == <<now, queue, admitted, refused>>

-----------------------------------------------------------------------------

\* (mutant) An entry leaves the window at its end already.
StaleAtEnd(t) == now - t >= Window

Stale(t) == now - t > Window

\* The while loop pops the k leading entries: those before the first one that
\* is not stale.
Popped(c, k) ==
    /\ k \in 0..Len(queue[c])
    /\ \A i \in 1..k : Stale(queue[c][i])
    /\ k < Len(queue[c]) => ~Stale(queue[c][k + 1])

Rest(c, k) == SubSeq(queue[c], k + 1, Len(queue[c]))

Full(q) == Len(q) >= Limit

Calls(c) == Len(admitted[c]) + Len(refused[c])

\* dispatch goes on with the request.
Admit(c) == \E k \in 0..Len(queue[c]) :
    /\ Calls(c) < MaxCalls
    /\ Popped(c, k) /\ ~Full(Rest(c, k))
    /\ queue' = [queue EXCEPT ![c] = Append(Rest(c, k), now)]
    /\ admitted' = [admitted EXCEPT ![c] = Append(@, now)]
    /\ UNCHANGED <<now, refused>>

\* dispatch answers 429.
Refuse(c) == \E k \in 0..Len(queue[c]) :
    /\ Calls(c) < MaxCalls
    /\ Popped(c, k) /\ Full(Rest(c, k))
    /\ queue' = [queue EXCEPT ![c] = Rest(c, k)]
    /\ refused' = [refused EXCEPT ![c] =
            Append(@, [time |-> now, before |-> Len(admitted[c])])]
    /\ UNCHANGED <<now, admitted>>

Tick ==
    /\ now < MaxTime
    /\ now' = now + 1
    /\ UNCHANGED <<queue, admitted, refused>>

LimiterInit ==
    /\ now = 0
    /\ queue = [c \in Clients |-> <<>>]
    /\ admitted = [c \in Clients |-> <<>>]
    /\ refused = [c \in Clients |-> <<>>]

LimiterNext == Tick \/ \E c \in Clients : Admit(c) \/ Refuse(c)

LimiterSpec == LimiterInit /\ [][LimiterNext]_limiterVars

-----------------------------------------------------------------------------
(* Properties. *)

\* Windows, calls and the clock are well typed.
LimiterTypeOK ==
    /\ now \in Nat
    /\ queue \in [Clients -> Seq(Nat)]
    /\ admitted \in [Clients -> Seq(Nat)]
    /\ refused \in [Clients -> Seq([time : Nat, before : Nat])]

\* Wherever a window of 60 seconds is laid, at most Limit requests of a client
\* are admitted in it: the Limit-th request after one comes more than a window
\* later.
AtMostLimitInAWindow ==
    \A c \in Clients : \A i \in DOMAIN admitted[c] :
        i + Limit <= Len(admitted[c])
        => admitted[c][i + Limit] - admitted[c][i] > Window

\* A request is refused only if Limit requests have been admitted in the last
\* 60 seconds: refused ones do not count, and nothing is remembered for longer.
RefusalIsJustified ==
    \A c \in Clients : \A r \in DOMAIN refused[c] :
        LET n == refused[c][r].before IN
        /\ n >= Limit
        /\ refused[c][r].time - admitted[c][n - Limit + 1] <= Window

\* The limit is exact: neither can a client exceed it, nor is one refused that
\* has kept to it.
LimitIsExact == AtMostLimitInAWindow /\ RefusalIsJustified

=============================================================================
