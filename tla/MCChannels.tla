------------------------------ MODULE MCChannels ------------------------------
(***************************************************************************)
(* The two ends the state task talks through, side by side for TLC: the    *)
(* radio task between its channels and the seam the callers meet at.       *)
(* Nothing passes between them here, so a behaviour is of one part, chosen *)
(* at the start, and the other stays as it begins.                         *)
(***************************************************************************)
EXTENDS Rpc, RadioLoop

CONSTANT Parts   \* which of the parts are run

VARIABLE part

allVars == <<part, vars, radioVars>>

\* Frames of four and six bits; the first four of the longer check as well.
SomePayloads == {<<0, 0, 1, 1>>, <<0, 0, 1, 1, 1, 0>>}

SomeRequests == {[encodable |-> TRUE, repeats |-> 1], [encodable |-> FALSE, repeats |-> 0]}

OfRpc(A) == part = "rpc" /\ A /\ UNCHANGED <<part, radioVars>>
OfRadio(A) == part = "radio" /\ A /\ UNCHANGED <<part, vars>>

MCInit == part \in Parts /\ Init /\ RadioInit

MCNext ==
    \/ /\ part = "rpc"
       /\ Next
       /\ UNCHANGED <<part, radioVars>>
    \/ /\ part = "radio"
       /\ RadioNext
       /\ UNCHANGED <<part, vars>>

\* The fairness of FairSpec and of RadioFairSpec, each of its part.
MCFairSpec ==
    /\ MCInit /\ [][MCNext]_allVars
    /\ \A c \in Callers : WF_allVars(OfRpc(Acquire(c))) /\ WF_allVars(OfRpc(End(c)))
    /\ WF_allVars(OfRadio(RadioWork))
===============================================================================
