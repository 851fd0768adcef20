------------------------------ MODULE SeedStore ------------------------------
(***************************************************************************)
(* Who writes to the rolling-code store, and when: boots, which survey the *)
(* region and give every provisioned shade its first code                  *)
(* (firmware/src/main.rs, provision_shades and seed); transmissions, which *)
(* advance a code (somfy-store/src/transmit.rs); and the running           *)
(* controller's add and remove of a shade (firmware/src/tasks.rs).         *)
(*                                                                         *)
(* The flash below may lose a completed record while the power is off,     *)
(* which store.rs names as the thing this store does not protect against:  *)
(* the question is what the seeding rules make of it.                      *)
(***************************************************************************)
EXTENDS FlashStore

CONSTANTS MaxCode,  \* bound: codes are 0..MaxCode, presses stop there
          MaxRot,   \* bound: completed records lost over the whole run
          FirstCode \* the code a new shade starts from

ASSUME SeedAssumption ==
    /\ MaxCode \in Nat /\ Codes = 0..MaxCode
    /\ MaxRot \in Nat
    /\ FirstCode \in Codes

VARIABLES shades,   \* addresses of the shades in the shade table
          boot,     \* "off", "up", or the shades this boot still has to seed
          damaged,  \* whether this boot's survey counted damaged slots
          rot,      \* completed records lost so far
          high      \* the highest code each address ever had in the store

seedVars == <<vars, shades, boot, damaged, rot, high>>
control == <<shades, boot, damaged, rot>>

Up == [is |-> "up"]
Off == [is |-> "off"]
Seeding(todo) == [is |-> "seeding", todo |-> todo]

\* Types, of the store and of the boot that seeds it.
SeedTypeOK ==
    /\ TypeOK
    /\ shades \subseteq Addrs
    /\ boot \in {Up, Off} \cup {Seeding(todo) : todo \in SUBSET Addrs}
    /\ damaged \in BOOLEAN
    /\ rot \in 0..MaxRot
    /\ high \in Tables

SeedInit ==
    /\ Init
    /\ shades \in SUBSET Addrs
    /\ boot = Off
    /\ damaged = FALSE
    /\ rot = 0
    /\ high = EmptyTable

\* Every step of the store also moves the history variable.
Higher == [a \in Addrs |-> IF Table'[a] > high[a] THEN Table'[a] ELSE high[a]]

-----------------------------------------------------------------------------
(* The boot                                                                *)

\* FlashStore::survey, then provision_shades over the shade table.
Survey ==
    /\ boot = Off
    /\ damaged' = (Damaged # {})
    /\ boot' = Seeding(shades)
    /\ UNCHANGED <<vars, shades, rot, high>>

(***************************************************************************)
(* seed_if_absent: a stored code is kept; with a damaged region a missing  *)
(* one is refused; otherwise it is committed.  A store error is logged and *)
(* the next shade is seeded.                                               *)
(***************************************************************************)
\* Mutant: the seed is planted whether or not a code is stored.
MissingOrNot(a) == ~Unreadable

Kept(a) == ~Unreadable /\ Load(a) # NoCode
Missing(a) == ~Unreadable /\ Load(a) = NoCode

Plant(a) == Aim(a, FirstCode) \/ Refuse(a) \/ ReadFails

SeedNext(a) ==
    /\ boot.is = "seeding" /\ a \in boot.todo
    /\ op = Idle
    /\ boot' = Seeding(boot.todo \ {a})
    /\ \/ /\ Kept(a) \/ Unreadable
          /\ UNCHANGED vars
       \/ /\ Missing(a) /\ damaged
          /\ UNCHANGED vars
       \/ /\ Missing(a) /\ ~damaged
          /\ Plant(a)
    /\ UNCHANGED <<shades, damaged, rot, high>>

Booted ==
    /\ boot = Seeding({}) /\ op = Idle
    /\ boot' = Up
    /\ UNCHANGED <<vars, shades, damaged, rot, high>>

-----------------------------------------------------------------------------
(* The running controller                                                  *)

\* transmit: load the next-to-send code, commit its successor.
Press(a) ==
    /\ boot = Up /\ a \in shades
    /\ op = Idle
    /\ Kept(a)
    /\ Load(a) < MaxCode
    /\ \/ Aim(a, Load(a) + 1) \/ Refuse(a) \/ ReadFails
    /\ UNCHANGED <<control, high>>

\* ShadeEdit::Add: the address is new, so the region is taken to be intact.
AddShade(a) ==
    /\ boot = Up /\ a \notin shades
    /\ op = Idle
    /\ shades' = shades \cup {a}
    /\ \/ /\ Kept(a) \/ Unreadable
          /\ UNCHANGED vars
       \/ /\ Missing(a)
          /\ Plant(a)
    /\ UNCHANGED <<boot, damaged, rot, high>>

\* ShadeEdit::Remove: the store keeps the code of a removed shade.
RemoveShade(a) ==
    /\ boot = Up /\ a \in shades
    /\ op = Idle
    /\ shades' = shades \ {a}
    /\ UNCHANGED <<vars, boot, damaged, rot, high>>

\* The remaining steps of the commit under way.
CommitStep ==
    /\ Erase \/ Program \/ Verify \/ StepFails
    /\ high' = Higher
    /\ UNCHANGED control

-----------------------------------------------------------------------------
(* Power                                                                   *)

Cut ==
    /\ boot # Off
    /\ PowerCut
    /\ boot' = Off
    /\ high' = Higher
    /\ UNCHANGED <<shades, damaged, rot>>

\* A completed record is destroyed: a failing sector, bit rot, a stray write.
Rot(s) ==
    /\ boot = Off
    /\ rot < MaxRot
    /\ Readable(s)
    /\ flash' = [flash EXCEPT ![s] = Damage]
    /\ rot' = rot + 1
    /\ UNCHANGED <<op, reply, shades, boot, damaged, high>>

SeedNextState ==
    \/ Survey \/ Booted
    \/ \E a \in Addrs : SeedNext(a) \/ Press(a) \/ AddShade(a) \/ RemoveShade(a)
    \/ CommitStep \/ Cut
    \/ \E s \in Slots : Rot(s)

SeedSpec == SeedInit /\ [][SeedNextState]_seedVars

-----------------------------------------------------------------------------
(* Properties                                                              *)

(***************************************************************************)
(* While no completed record is lost, what the store answers is the        *)
(* highest code it ever held: no seed, removal, re-adding, power cut or    *)
(* flash error ever takes an address back to a code its motor has heard.   *)
(***************************************************************************)
NoCodeGoesBack == rot = 0 => Table = high

(***************************************************************************)
(* Scan::newest_or_refuse: a region that ever held a code is never taken   *)
(* for an empty one, whatever it has lost since.                           *)
(***************************************************************************)
NeverTakenForEmpty == high # EmptyTable => Newest # NoSlot \/ Damaged # {}

\* What seeding may rely on after any boots, presses and losses.
SeedSafe == SeedTypeOK /\ NeverTakenForEmpty

(***************************************************************************)
(* (Violated.)                                                             *)
(* somfy-store/src/seed.rs: "With damage present a missing code is         *)
(* Refused ... planting a low code over a lost high one is not             *)
(* [recoverable]."  Adding a shade never gives its address a code lower    *)
(* than one the store has held for it.                                     *)
(***************************************************************************)
Planting(a) == op = Idle /\ op' # Idle /\ op'.addr = a

AddNeverReplants ==
    [][\A a \in Addrs : AddShade(a) /\ Planting(a) => high[a] <= FirstCode]_seedVars
=============================================================================
