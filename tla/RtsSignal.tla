---- MODULE RtsSignal ----
(* The signal of a frame, both ways: the pulses the transmitter plays for    *)
(* its bits (somfy-rts pulse.rs), the symbols the RMT peripheral is given    *)
(* for them (somfy-rmt), and the decoder that makes bits of the edges a      *)
(* receiver measures (rx.rs). The two widths are parameters: 56 and 80 in    *)
(* the field, less where many signals are to be explored. Everything that    *)
(* is decided here is decided by levels, durations and counts.               *)
EXTENDS Integers, SequencesExt

CONSTANTS Narrow,   \* bits of the shorter frame: 56
          Wide      \* bits of the longer one: 80

ASSUME WidthAssumption == Narrow \in Nat \ {0} /\ Wide \in Nat /\ Narrow < Wide

(* Microseconds. *)
WAKEUP_HIGH == 10920
WAKEUP_LOW == 7357
HW_SYNC_HALF == 2560
SW_SYNC_HIGH == 4850
HALF_SYMBOL == 640
INTER_FRAME_GAP == 27434

MAX_TICKS == 32767        \* of one entry of a symbol
MAX_SYMBOLS == 96         \* of a frame, and of a reception

Pulse(high, micros) == [high |-> high, micros |-> micros]
High(micros) == Pulse(TRUE, micros)
Low(micros) == Pulse(FALSE, micros)

FrameKinds == {"First", "Repeat"}

(* What a sequence makes of a starting point, one element after the other:   *)
(* the one element of a set, so that each is worked out once.                *)
Only(S) == CHOOSE x \in S : TRUE

Through(step(_, _), start, seq) ==
    LET at[i \in 0..Len(seq)] ==
            IF i = 0 THEN {start} ELSE {step(x, p) : x \in at[i - 1], p \in {seq[i]}}
    IN at[Len(seq)]

Syncs(wide, kind) == CASE kind = "First" /\ ~wide -> 2
                       [] kind = "First" /\ wide -> 12
                       [] kind = "Repeat" /\ ~wide -> 7
                       [] OTHER -> 6

SyncTrain(n) == [i \in 1..(2 * n) |-> Pulse(i % 2 = 1, HW_SYNC_HALF)]

(* Manchester: a one is low then high, a zero high then low. *)
Halves(bit) == <<Pulse(bit = 0, HALF_SYMBOL), Pulse(bit = 1, HALF_SYMBOL)>>

Manchester(bits) ==
    [i \in 1..(2 * Len(bits)) |-> Halves(bits[(i + 1) \div 2])[2 - (i % 2)]]

Render(bits, kind) ==
    LET wide == Len(bits) = Wide
    IN (IF kind = "First" THEN <<High(WAKEUP_HIGH), Low(WAKEUP_LOW)>> ELSE <<>>)
       \o SyncTrain(Syncs(wide, kind))
       \o <<High(SW_SYNC_HIGH), Low(HALF_SYMBOL)>>
       \o Manchester(bits)
       \o (IF wide THEN <<>> ELSE <<Low(INTER_FRAME_GAP)>>)

(* Neighbours of one level become one segment, as an edge detector sees them. *)
Joined(merged, p) ==
    IF merged # <<>> /\ Last(merged).high = p.high
    THEN [merged EXCEPT ![Len(merged)].micros = @ + p.micros]
    ELSE Append(merged, p)

Merge(pulses) == Only(Through(Joined, <<>>, pulses))

(* Two pulses a symbol. An entry of length nought is where the peripheral    *)
(* stops: the unused half of the last symbol, or a symbol of its own.        *)
EndMarker == Low(0)

Pack(merged) ==
    [i \in 1..((Len(merged) + 1) \div 2) |->
        <<merged[2 * i - 1], IF 2 * i \in DOMAIN merged THEN merged[2 * i] ELSE EndMarker>>]

Marked(merged) ==
    IF Len(merged) % 2 = 0 THEN Append(Pack(merged), <<EndMarker, EndMarker>>) ELSE Pack(merged)

Fits(merged) == \A i \in DOMAIN merged : merged[i].micros <= MAX_TICKS

(* None when the peripheral could not hold the frame. *)
BuildSymbols(bits, kind) ==
    {symbols \in {Marked(merged) : merged \in {m \in {Merge(Render(bits, kind))} : Fits(m)}} :
        Len(symbols) \in 0..MAX_SYMBOLS}

(* The entries up to the first of length nought. *)
Unpack(symbols) ==
    LET count == 2 * Len(symbols)
        entries == [i \in 1..count |-> symbols[(i + 1) \div 2][2 - (i % 2)]]
        ends == {i \in 1..count : entries[i].micros = 0}
    IN SubSeq(entries, 1, IF ends = {} THEN count ELSE Min(ends) - 1)

(* What a receiver in range measures of it. The silence after the last edge  *)
(* is what ends the reception: it is not part of what was measured.          *)
FromPulseCode(symbols) ==
    LET played == Unpack(symbols)
    IN IF Last(played).high THEN played ELSE Front(played)

(* ---- The decoder. ------------------------------------------------------- *)

MIN_HW_SYNCS == 4
HW_SYNCS_MAX == 18   \* the byte saturates at 255; nothing tells the counts past 17 apart

Within(actual, expected) ==
    actual >= expected - expected \div 4 /\ actual <= expected + expected \div 4

NewDecoder == [state |-> "waiting", syncs |-> 0, length |-> Narrow,
               payload |-> <<>>, half |-> FALSE]

DetectBitLength(syncs) == IF syncs \in {12, 13} \/ syncs > 17 THEN Wide ELSE Narrow

\* Mutant: a pulse that is no sync does not start the count again.
WaitingSyncKeepsCount(d, p) ==
    IF Within(p.micros, HW_SYNC_HALF)
    THEN [d EXCEPT !.syncs = Min({@ + 1, HW_SYNCS_MAX})]
    ELSE IF d.syncs >= MIN_HW_SYNCS /\ p.high /\ Within(p.micros, SW_SYNC_HIGH)
    THEN [d EXCEPT !.state = "data", !.length = DetectBitLength(d.syncs), !.syncs = 0,
                   !.payload = <<>>, !.half = FALSE]
    ELSE d

(* Syncs are counted half by half; anything else breaks the run of them.     *)
WaitingSync(d, p) ==
    IF Within(p.micros, HW_SYNC_HALF)
    THEN [d EXCEPT !.syncs = Min({@ + 1, HW_SYNCS_MAX})]
    ELSE IF d.syncs >= MIN_HW_SYNCS /\ p.high /\ Within(p.micros, SW_SYNC_HIGH)
    THEN [d EXCEPT !.state = "data", !.length = DetectBitLength(d.syncs), !.syncs = 0,
                   !.payload = <<>>, !.half = FALSE]
    ELSE [d EXCEPT !.syncs = 0]

(* The level of a bit's first half is the opposite of the bit.               *)
StoreBit(d, p) ==
    [d EXCEPT !.payload = Append(@, IF p.high THEN 0 ELSE 1), !.half = FALSE]

ReceivingData(d, p) ==
    IF ~d.half /\ Within(p.micros, 2 * HALF_SYMBOL) THEN StoreBit(d, p)
    ELSE IF ~Within(p.micros, HALF_SYMBOL) THEN NewDecoder
    ELSE IF d.half THEN StoreBit(d, p)
    ELSE [d EXCEPT !.half = TRUE]

PushPulse(d, p) == IF d.state = "waiting" THEN WaitingSync(d, p) ELSE ReceivingData(d, p)

(* The decoder, the bits of a frame it completed, if any, and the pulses     *)
(* that were not looked at. A completed frame leaves a new decoder.          *)
Complete(d, left) ==
    IF d.state = "data" /\ Len(d.payload) = d.length
    THEN [decoder |-> NewDecoder, bits |-> {d.payload}, left |-> left]
    ELSE [decoder |-> d, bits |-> {}, left |-> left]

(* Pulses are taken until one completes a frame, or there are no more.       *)
Pumped(s, p) ==
    IF s.bits # {} THEN s
    ELSE Only({Complete(d, Tail(s.left)) : d \in {PushPulse(s.decoder, p)}})

Pump(d, pulses) == Through(Pumped, Complete(d, pulses), pulses)
====
