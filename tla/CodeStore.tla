------------------------------ MODULE CodeStore ------------------------------
(***************************************************************************)
(* What the rolling-code store promises its callers (the trait             *)
(* RollingCodeStore and its documentation, somfy-store/src/store.rs): the  *)
(* next-to-send code of every address is one atomic map.  A commit either  *)
(* lands whole or not at all; answering "ok" means it has landed; a        *)
(* failure or a power cut in the middle may leave either, and never        *)
(* touches the code of another address.                                    *)
(***************************************************************************)
EXTENDS Integers

CONSTANTS Addrs,    \* remote addresses
          Codes     \* values of a rolling code

VARIABLES durable,  \* the next-to-send code of every address, or NoCode
          call,     \* the commit under way, or NoCall
          reply     \* what the last commit returned

storeVars == <<durable, call, reply>>

NoCode == -1
NoCall == [addr |-> "none"]
Replies == {"none", "ok", "error"}

\* The map with the commit under way applied.
Landed == [durable EXCEPT ![call.addr] = call.code]

StoreTypeOK ==
    /\ durable \in [Addrs -> Codes \cup {NoCode}]
    /\ call \in {NoCall} \cup [addr : Addrs, code : Codes]
    /\ reply \in Replies

StoreInit ==
    /\ durable = [a \in Addrs |-> NoCode]
    /\ call = NoCall
    /\ reply = "none"

\* A caller asks for address a to carry code c.
Begin(a, c) ==
    /\ call = NoCall
    /\ call' = [addr |-> a, code |-> c]
    /\ reply' = "none"
    /\ UNCHANGED durable

\* The new value becomes the one a load reads.
Land ==
    /\ call # NoCall
    /\ durable' = Landed
    /\ UNCHANGED <<call, reply>>

\* commit returns Ok: only once the value can be read back.
Succeed ==
    /\ call # NoCall
    /\ durable[call.addr] = call.code
    /\ call' = NoCall /\ reply' = "ok"
    /\ UNCHANGED durable

\* commit returns Err, before or after the value landed.
Fail ==
    /\ call # NoCall
    /\ durable' \in {durable, Landed}
    /\ call' = NoCall /\ reply' = "error"

\* commit returns Err without having touched the medium.
Refuse ==
    /\ call = NoCall
    /\ reply' = "error"
    /\ UNCHANGED <<durable, call>>

PowerCut ==
    /\ durable' \in IF call = NoCall THEN {durable} ELSE {durable, Landed}
    /\ call' = NoCall /\ reply' = "none"

StoreNext ==
    \/ \E a \in Addrs, c \in Codes : Begin(a, c)
    \/ Land \/ Succeed \/ Fail \/ Refuse \/ PowerCut

StoreSpec == StoreInit /\ [][StoreNext]_storeVars
=============================================================================
