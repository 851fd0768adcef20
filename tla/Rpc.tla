---- MODULE Rpc ----
(* The rendezvous between the tasks that ask (one per HTTP connection, and   *)
(* the broker session) and the state task that answers: a semaphore of one   *)
(* permit, a signal that holds at most one request and a signal that holds   *)
(* at most one reply. Nothing in either signal says whose it is; the order   *)
(* of the statements in call is all that pairs an answer with its question.  *)
(* One executor runs every task, so what lies between two awaits is atomic.  *)
EXTENDS Integers, FiniteSets

CONSTANTS Callers,       \* tasks that may be inside Rpc::call at once
          GATE_WAITERS,  \* callers the semaphore can queue
          MAX_CALLS      \* bound on the calls of one caller

ASSUME RpcAssumption == GATE_WAITERS \in Nat /\ MAX_CALLS \in Nat

VARIABLES calls,     \* calls each caller has begun; <<c, n>> names one
          phase,     \* where each caller is in Rpc::call
          ticket,    \* each caller's place in the semaphore's queue
          issued,    \* tickets handed out
          permits,   \* of the semaphore
          request,   \* the request signal: empty or the call raised last
          reply,     \* the reply signal: empty or the call answered last
          got,       \* what each caller's last finished call returned
          served     \* the calls the state task has carried out

vars == <<calls, phase, ticket, issued, permits, request, reply, got, served>>

Named == Callers \X (1..MAX_CALLS)
Mine(c) == <<c, calls[c]>>
Waiting == {c \in Callers : phase[c] = "waiting"}
First(c) == c \in Waiting /\ \A d \in Waiting : ticket[c] <= ticket[d]

Init == /\ calls = [c \in Callers |-> 0]
        /\ phase = [c \in Callers |-> "idle"]
        /\ ticket = [c \in Callers |-> 0]
        /\ issued = 0
        /\ permits = 1
        /\ request = {}
        /\ reply = {}
        /\ got = [c \in Callers |-> {}]
        /\ served = {}

Begin(c) == /\ phase[c] = "idle"
            /\ calls[c] < MAX_CALLS
            /\ calls' = [calls EXCEPT ![c] = @ + 1]
            /\ got' = [got EXCEPT ![c] = {}]

\* Mutant: an answer nobody read is left for the next caller.
ExchangeNoReset(c, call) == /\ permits' = permits - 1
                            /\ phase' = [phase EXCEPT ![c] = "asking"]
                            /\ reply' = reply
                            /\ request' = {call}

(* With the permit in hand: an answer nobody read is cleared, the request is *)
(* raised over whatever the signal held, and the caller waits.               *)
Exchange(c, call) == /\ permits' = permits - 1
                     /\ phase' = [phase EXCEPT ![c] = "asking"]
                     /\ reply' = {}
                     /\ request' = {call}

AskAtOnce(c) == /\ Begin(c)
                /\ permits > 0
                /\ Waiting = {}
                /\ Exchange(c, <<c, calls[c] + 1>>)
                /\ UNCHANGED <<ticket, issued, served>>

AskAndQueue(c) == /\ Begin(c)
                  /\ permits = 0 \/ Waiting # {}
                  /\ Cardinality(Waiting) < GATE_WAITERS
                  /\ phase' = [phase EXCEPT ![c] = "waiting"]
                  /\ ticket' = [ticket EXCEPT ![c] = issued]
                  /\ issued' = issued + 1
                  /\ UNCHANGED <<permits, request, reply, served>>

(* The queue is full: the call returns None and has asked nothing.           *)
AskRefused(c) == /\ Begin(c)
                 /\ permits = 0 \/ Waiting # {}
                 /\ Cardinality(Waiting) >= GATE_WAITERS
                 /\ UNCHANGED <<phase, ticket, issued, permits, request, reply, served>>

Acquire(c) == /\ First(c)
              /\ permits > 0
              /\ Exchange(c, Mine(c))
              /\ UNCHANGED <<calls, ticket, issued, got, served>>

(* The state task takes the request, carries it out and answers, all between *)
(* two awaits. The call may have ended meanwhile; nothing tells it so.       *)
Serve == /\ request # {}
         /\ request' = {}
         /\ reply' = request
         /\ served' = served \cup request
         /\ UNCHANGED <<calls, phase, ticket, issued, permits, got>>

\* Mutant: a call that is given up keeps its permit.
LeaveHolding(c) == /\ phase' = [phase EXCEPT ![c] = "idle"]
                   /\ permits' = permits

Leave(c) == /\ phase' = [phase EXCEPT ![c] = "idle"]
            /\ permits' = IF phase[c] = "asking" THEN permits + 1 ELSE permits

Receive(c) == /\ phase[c] = "asking"
              /\ reply # {}
              /\ got' = [got EXCEPT ![c] = reply]
              /\ reply' = {}
              /\ Leave(c)
              /\ UNCHANGED <<calls, ticket, issued, request, served>>

(* REPLY_TIMEOUT_S is over and no answer is there. The request stays raised. *)
Timeout(c) == /\ phase[c] = "asking"
              /\ reply = {}
              /\ Leave(c)
              /\ UNCHANGED <<calls, ticket, issued, request, reply, got, served>>

(* The caller's future is dropped, in the queue or in the exchange: an HTTP  *)
(* task whose socket died.                                                   *)
Drop(c) == /\ phase[c] # "idle"
           /\ Leave(c)
           /\ UNCHANGED <<calls, ticket, issued, request, reply, got, served>>

End(c) == Receive(c) \/ Timeout(c)

Next == \/ Serve
        \/ \E c \in Callers : \/ AskAtOnce(c) \/ AskAndQueue(c) \/ AskRefused(c)
                              \/ Acquire(c) \/ Receive(c) \/ Timeout(c) \/ Drop(c)

Spec == Init /\ [][Next]_vars

(* The timer runs and a waiting task is polled, whatever the state task does: *)
(* no fairness is asked of Serve.                                             *)
FairSpec == Spec /\ \A c \in Callers : WF_vars(Acquire(c)) /\ WF_vars(End(c))

----
(* Every variable is of its type, and there is never a second permit.        *)
TypeOK == /\ calls \in [Callers -> 0..MAX_CALLS]
          /\ phase \in [Callers -> {"idle", "waiting", "asking"}]
          /\ ticket \in [Callers -> Nat]
          /\ issued \in Nat
          /\ permits \in 0..1
          /\ request \in SUBSET Named
          /\ reply \in SUBSET Named
          /\ got \in [Callers -> SUBSET Named]
          /\ served \in SUBSET Named

(* What a call returns is the answer to that call, never one left behind by  *)
(* a caller that gave up, whoever gave up and whenever the state task caught *)
(* up with it.                                                               *)
AnswerIsMine == \A c \in Callers : got[c] \subseteq {Mine(c)}

(* No request is carried out twice: what is still raised has not been done,  *)
(* so neither a timeout nor an abandoned call makes a shade move twice.      *)
ServedOnce == request \cap served = {}

(* What a caller may rely on, whatever the other callers do.                 *)
SeamSafe == TypeOK /\ AnswerIsMine /\ ServedOnce

(* Every call ends, even if the state task never answers anything again.     *)
EveryCallEnds == \A c \in Callers : phase[c] # "idle" ~> phase[c] = "idle"
====
