------------------------------- MODULE MCParts -------------------------------
(***************************************************************************)
(* The parts of which only safety is asked, side by side for TLC: the      *)
(* limit on commands, the table and its records, the log, the trip of a    *)
(* frame, the deduplication of what is heard and the form over the broker. *)
(* Nothing passes between them here, so a behaviour is of one part, chosen *)
(* at the start, and the others stay as they begin.                        *)
(***************************************************************************)
EXTENDS CommandLimiter, Provision, DiagLog, AirTrip, RxDeduper, SetupForm

CONSTANT Parts   \* which of the parts are run

VARIABLE part

allVars == <<part, vars, provisionVars, diagVars, trip, dedupeVars, formVars>>

-----------------------------------------------------------------------------
(* Every command of a remote, and the codes and addresses at the ends; two *)
(* lines and two panics, one of them of two lines.                         *)

SomeFrames ==
    {[key |-> 164, command |-> c, rolling_code |-> 4660, address |-> 11259375] :
        c \in RadioCommands}
    \cup {[key |-> 160, command |-> c, rolling_code |-> 65535, address |-> 1] :
        c \in {"Up", "Stop", "StepUp"}}

SomeLines == {<<"a">>, <<"b", "c">>}
SomePanics == {<<"p">>, <<"q", Newline, "r">>}

-----------------------------------------------------------------------------
(* Tables in every layout and backups that each try one thing the import   *)
(* decides.                                                                *)

SomeTimes == {5, 6}
SomeBands == {3, 4}
SomeElapsed == {0, 4, 6}
SomeRemotes == {1, 33}

Config(address, up, lag, source, confirmed) ==
    [NewConfig(address) EXCEPT !.up = up, !.lag = lag, !.upFrom = source,
                               !.confirmed = confirmed]
Table(version, rows, links, bits) ==
    [version |-> version, rows |-> rows, links |-> links, announced |-> bits]
LinkOf(row, address) == [row |-> row, address |-> address]

SomeTables ==
    {None,
     Table(1, <<Row(Config(2, 6, 1, "measured", FALSE), 3)>>, <<>>, {}),
     Table(2, <<Row(Config(32, 5, 1, "measured", FALSE), 3)>>, <<LinkOf(0, 1)>>, {0}),
     Table(3, <<Row(Config(32, 5, 0, "factory", FALSE), 3)>>,
             <<LinkOf(0, 1), LinkOf(0, 2), LinkOf(0, 3)>>, {0}),
     Table(4, <<Row(Config(32, 6, 1, "measured", TRUE), 3), Row(Config(2, 5, 0, "factory", TRUE), 5)>>,
             <<LinkOf(1, 1)>>, {0, 1}),
     Table(4, <<Row(Config(32, 2, 1, "measured", TRUE), 3)>>, <<>>, {0})}

SomeEstates ==
    {NoEstate,
     [rooms |-> 1, roomOf |-> [r \in 0..1 |-> IF r = 1 THEN 0 ELSE None],
      groups |-> <<Group(4, {0, 1}, TRUE)>>]}

\* A shade and a group of a backup, and the file they are in.
S(id, address, kind, up, links, room) ==
    [id |-> id, address |-> address, kind |-> kind,
     protocol |-> IF kind = "k9" THEN "rtv" ELSE "rts", up |-> up, down |-> 5,
     links |-> links, room |-> room, last |-> 7]
G(id, address, members) == [id |-> id, address |-> address, members |-> members]
File(version, rooms, rows, groups) ==
    [version |-> version, rooms |-> rooms, shades |-> rows, groups |-> groups]

One == S(1, 2, "awning", 6, <<1, 0>>, 3)
Two == S(2, 3, "roller", 5, <<>>, 255)

SomeBackups ==
    {File(24, <<3, 0, 9>>, <<One, Two>>, <<G(1, 4, <<2, 0>>), G(255, 4, <<1>>)>>)}
    \cup {File(22, <<3>>, <<One, S(255, 9, "roller", 5, <<>>, 0), s>>, <<G(1, 5, <<1, 8>>)>>) :
            s \in {S(1, 3, "k9", 5, <<1>>, 9), S(2, 2, "roller", 5, <<>>, 0),
                  S(2, 63, "roller", 5, <<>>, 0), S(2, 33, "roller", 0, <<>>, 0),
                  S(2, 33, "roller", 5, <<33>>, 0), S(2, 33, "roller", 5, <<1, 1>>, 0),
                  S(2, 5, "roller", 5, <<>>, 0), S(2, 33, "roller", 5, <<5>>, 0),
                  S(2, 33, "roller", 5, <<1, 7>>, 0)}}
    \cup {File(18, <<>>, <<One>>, <<>>), File(24, <<3, 3>>, <<One>>, <<>>),
          File(24, <<>>, <<>>, <<>>), File(24, <<>>, <<One>>, <<G(1, 63, <<1>>)>>)}
-----------------------------------------------------------------------------

MCInit ==
    /\ part \in Parts
    /\ Init
    /\ ProvisionInit /\ (part # "provision" => flash = None /\ estate = NoEstate)
    /\ DiagInit
    /\ TripInit /\ (part # "trip" => trip.of = CHOOSE d \in Departures : TRUE)
    /\ DedupeInit /\ (part # "dedupe" => now_ms = 0)
    /\ FormInit /\ (part # "form" => ~joined)

MCNext ==
    \/ /\ part = "limiter"
       /\ Next
       /\ UNCHANGED <<part, provisionVars, diagVars, trip, dedupeVars, formVars>>
    \/ /\ part = "provision"
       /\ ProvisionNext
       /\ UNCHANGED <<part, vars, diagVars, trip, dedupeVars, formVars>>
    \/ /\ part = "log"
       /\ DiagNext
       /\ UNCHANGED <<part, vars, provisionVars, trip, dedupeVars, formVars>>
    \/ /\ part = "trip"
       /\ TripNext
       /\ UNCHANGED <<part, vars, provisionVars, diagVars, dedupeVars, formVars>>
    \/ /\ part = "dedupe"
       /\ DedupeNext
       /\ UNCHANGED <<part, vars, provisionVars, diagVars, trip, formVars>>
    \/ /\ part = "form"
       /\ FormNext
       /\ UNCHANGED <<part, vars, provisionVars, diagVars, trip, dedupeVars>>

MCSpec == MCInit /\ [][MCNext]_allVars
===============================================================================
