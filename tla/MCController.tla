---------------------------- MODULE MCController ----------------------------
(* Small instances of Controller. *)
EXTENDS Controller

K(k) == [kind |-> k]
At(k, p) == [kind |-> k, pos |-> p]
Errors == [factory |-> FULL, operator |-> 1, measured |-> 0]

\* Every command, with a favourite in the middle.
AllCommands ==
    {K(k) : k \in {"Up", "Down", "Vent", "My", "StepUp", "StepDown", "Pair"}}
    \cup {At("GoTo", p) : p \in Positions}
    \cup {At("SetMy", 1), At("SetMy", NoFav)}
    \cup {[kind |-> "Calibrate", leg |-> l] : l \in Legs}

SomeCommands == {K("Vent"), K("StepUp"), K("Down")}

Profile(time, lag, vent, narrow) ==
    [up |-> time, down |-> time, lag |-> lag, vent |-> vent, close |-> 0,
     upSource |-> "operator", downSource |-> "operator", narrow |-> narrow]

OneConfig == {Profile(3, 1, 1, FALSE)}
TwoConfigs == {Profile(2, 0, 1, FALSE), Profile(2, 0, 0, TRUE)}
=============================================================================
