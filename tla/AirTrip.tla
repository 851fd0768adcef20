---- MODULE AirTrip ----
(* One frame from the sender's bytes to the receiver's: encoded, rendered,   *)
(* merged, packed, played, measured by a receiver whose clock is not the     *)
(* sender's, decoded. Every part of it is at its real width.                 *)
EXTENDS RtsFrame, RtsSignal

CONSTANTS Frames,    \* frames of a remote
          Repeats,   \* which frame of the press
          Clocks     \* the receiver's clock, in hundredths of the sender's

(* A repeat is counted in a byte, and a clock is off by a fifth at the most. *)
ASSUME TripAssumption ==
    Frames \subseteq RadioFrames /\ Repeats \subseteq Byte /\ Clocks \subseteq 80..120

VARIABLE trip

Departures == [frame : Frames, wide : BOOLEAN, repeat : Repeats, clock : Clocks]

TripInit == \E d \in Departures : trip = [stage |-> "sent", of |-> d, got |-> {}]

Encoded(d) == IF d.wide THEN {Encode80(d.frame, d.repeat)} ELSE Encode56(d.frame)

Played(d) ==
    UNION {BuildSymbols(BitsOf(bytes), IF d.repeat = 0 THEN "First" ELSE "Repeat") :
           bytes \in Encoded(d)}

Slower(pulses, clock) ==
    [i \in DOMAIN pulses |-> [pulses[i] EXCEPT !.micros = (@ * clock) \div 100]]

DecodedBits(bits) == IF Len(bits) = 80 THEN Decode80(BytesOf(bits)) ELSE Decode56(BytesOf(bits))

Heard(d) ==
    UNION {UNION {DecodedBits(bits) : bits \in r.bits} :
           r \in UNION {Pump(NewDecoder, Slower(FromPulseCode(symbols), d.clock)) :
                        symbols \in Played(d)}}

Fly ==
    /\ trip.stage = "sent"
    /\ \E got \in {Heard(trip.of)} : trip' = [trip EXCEPT !.stage = "heard", !.got = got]

TripNext == Fly

TripSpec == TripInit /\ [][TripNext]_trip

(* What is heard is the frame that was sent, command, code and address, the  *)
(* whole of it within what the peripheral holds, for every command, both     *)
(* widths, every frame of a press and a clock a fifth off either way; only   *)
(* an extended command in a 56-bit frame is never sent.                      *)
HeardIsSent ==
    trip.stage = "heard" =>
        trip.got = IF ~trip.of.wide /\ Extended(trip.of.frame.command) THEN {}
                   ELSE {trip.of.frame}
====
