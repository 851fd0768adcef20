---- MODULE RadioLoop ----
(* The radio task (somfy-tasks radio.rs) between its two channels: it plays  *)
(* the requests of the state task and publishes the frames it hears, one     *)
(* transceiver doing both, never at once. Receptions are whole bursts of     *)
(* measured pulses, short of their beginning where the receiver came back    *)
(* late and of their end where the signal faded, and the decoder is one for  *)
(* the life of the task. Every strobe on the bus to the transceiver may fail.*)
EXTENDS RtsSignal

CONSTANTS TXN,        \* places for requests
          RXN,        \* places for frames
          Payloads,   \* the bits of the frames that check
          Requests,   \* what the state task asks for
          MAX_REQUESTS, MAX_FAULTS   \* bounds of the model

ASSUME RadioAssumption ==
    /\ TXN \in Nat /\ RXN \in Nat
    /\ \A r \in Requests : r.repeats \in Nat
    /\ \A bits \in Payloads : bits \in Seq({0, 1}) /\ Len(bits) \in {Narrow, Wide}

VARIABLES queue,     \* the requests of the state task
          chip,      \* the transceiver: "idle", "rx" or "tx"
          parked,    \* whether the last parking of it went through
          sending,   \* the request on the air and the frames of it sent, if any
          decoder,
          burst,     \* pulses of the last reception not looked at yet
          frames,    \* published, for the state task
          finished,  \* the source of pulses is gone for good
          event,     \* what the last step of the task came to
          asked, failures

radioVars == <<queue, chip, parked, sending, decoder, burst, frames, finished, event,
               asked, failures>>

Quiet == [tag |-> "quiet"]

(* What the strobes put the transceiver in. *)
Modes == {"idle", "rx", "tx"}

Tags == {"Received", "Undecodable", "ReceiveQueueFull", "SourceFinished", "Transmitted",
         "TransmitFailed", "Unencodable"}

RadioInit ==
    /\ queue = <<>>
    /\ chip = "rx"
    /\ parked = TRUE
    /\ sending = {}
    /\ decoder = NewDecoder
    /\ burst = <<>>
    /\ frames = <<>>
    /\ finished = FALSE
    /\ event = Quiet
    /\ asked = 0
    /\ failures = 0

(* The state task, which plans no request without a place for it.            *)
Enqueue(r) ==
    /\ Len(queue) < TXN
    /\ asked < MAX_REQUESTS
    /\ queue' = Append(queue, r)
    /\ asked' = asked + 1
    /\ event' = Quiet
    /\ UNCHANGED <<chip, parked, sending, decoder, burst, frames, finished, failures>>

TakeFrame ==
    /\ frames # <<>>
    /\ frames' = Tail(frames)
    /\ event' = Quiet
    /\ UNCHANGED <<queue, chip, parked, sending, decoder, burst, finished, asked, failures>>

(* ---- Transmitting. ------------------------------------------------------ *)

(* Back to receive by way of idle: a strobe that fails leaves the            *)
(* transceiver where it had got to, and counts with the failure before it.   *)
KeyOff(from, before) ==
    \E off \in {[chip |-> from, ok |-> FALSE], [chip |-> "idle", ok |-> FALSE],
                [chip |-> "rx", ok |-> TRUE]} :
        LET count == failures + before + IF off.ok THEN 0 ELSE 1
        IN /\ count <= MAX_FAULTS
           /\ chip' = off.chip
           /\ parked' = off.ok
           /\ failures' = count

Ended(outcome) == sending' = {} /\ event' = outcome

(* A keying that failed on the way is followed by a parking all the same.    *)
NotKeyed(from) ==
    /\ KeyOff(from, 1)
    /\ Ended([tag |-> "TransmitFailed"])

Keyed(r) ==
    /\ chip' = "tx"
    /\ sending' = {[request |-> r, sent |-> 0]}
    /\ event' = Quiet
    /\ UNCHANGED <<parked, failures>>

(* What cannot be encoded is told from what can before anything is keyed.    *)
Transmit(r) ==
    \/ /\ ~r.encodable
       /\ Ended([tag |-> "Unencodable"])
       /\ UNCHANGED <<chip, parked, failures>>
    \/ /\ r.encodable
       /\ Keyed(r) \/ \E from \in {chip, "idle"} : NotKeyed(from)

\* Mutant: a frame that cannot be encoded stays at the head of the queue.
TakeRequestAgain ==
    /\ sending = {}
    /\ queue # <<>>
    /\ queue' = IF Head(queue).encodable THEN Tail(queue) ELSE queue
    /\ Transmit(Head(queue))
    /\ UNCHANGED <<decoder, burst, frames, finished, asked>>

(* A request is looked for before a pulse is: it wins over a reception.      *)
TakeRequest ==
    /\ sending = {}
    /\ queue # <<>>
    /\ queue' = Tail(queue)
    /\ Transmit(Head(queue))
    /\ UNCHANGED <<decoder, burst, frames, finished, asked>>

Sent(now) ==
    IF now.sent < now.request.repeats
    THEN /\ sending' = {[now EXCEPT !.sent = @ + 1]}
         /\ UNCHANGED <<chip, parked, event, failures>>
    ELSE /\ KeyOff(chip, 0)
         /\ Ended([tag |-> IF parked' THEN "Transmitted" ELSE "TransmitFailed"])

SendFrame ==
    /\ \E now \in sending :
         \/ Sent(now)
         \/ KeyOff(chip, 1) /\ Ended([tag |-> "TransmitFailed"])
    /\ UNCHANGED <<queue, decoder, burst, frames, finished, asked>>

(* ---- Receiving. --------------------------------------------------------- *)

(* The frame is published if there is a place for it: the radio task never   *)
(* waits for the state task.                                                 *)
Outcome(bits) ==
    IF bits \notin Payloads THEN "Undecodable"
    ELSE IF Len(frames) < RXN THEN "Received" ELSE "ReceiveQueueFull"

Publish(bits, heard) ==
    LET tag == Outcome(bits)
    IN /\ frames' = IF tag = "Received" THEN Append(frames, bits) ELSE frames
       /\ event' = [tag |-> tag, bits |-> bits, heard |-> heard]

(* Nothing is awaited while there are pulses in hand, so a burst is pumped   *)
(* at once, up to the frame it completes.                                    *)
PumpBurst(pulses, heard) ==
    \E r \in Pump(decoder, pulses) :
        /\ decoder' = r.decoder
        /\ burst' = r.left
        /\ \/ \E bits \in r.bits : Publish(bits, heard)
           \/ /\ r.bits = {}
              /\ event' = [tag |-> "quiet", heard |-> heard]
              /\ UNCHANGED frames

Listening == sending = {} /\ queue = <<>> /\ ~finished

(* What a reception left in the buffer outlives a request.                   *)
ReceiveLeft ==
    /\ Listening
    /\ burst # <<>>
    /\ PumpBurst(burst, [kind |-> "left"])
    /\ UNCHANGED <<queue, chip, parked, sending, finished, asked, failures>>

(* What another remote's frames look like to a receiver in range.            *)
Signals ==
    UNION {{[bits |-> bits, kind |-> kind, pulses |-> FromPulseCode(symbols)] :
                symbols \in BuildSymbols(bits, kind)} :
           bits \in Payloads, kind \in FrameKinds}

Hear(s, from, to) ==
    /\ Listening
    /\ burst = <<>>
    /\ chip = "rx"
    /\ PumpBurst(SubSeq(s.pulses, from, to),
               [bits |-> s.bits, kind |-> s.kind, begun |-> from = 1,
                whole |-> from = 1 /\ to = Len(s.pulses)])
    /\ UNCHANGED <<queue, chip, parked, sending, finished, asked, failures>>

HearSome ==
    \E s \in Signals, cut \in 1..(2 * MAX_SYMBOLS) :
        /\ cut \in DOMAIN s.pulses
        /\ Hear(s, 1, cut) \/ Hear(s, cut, Len(s.pulses))

(* The receiver cannot hold what it is asked to, ever: transmission goes on. *)
SourceEnds ==
    /\ Listening
    /\ burst = <<>>
    /\ finished' = TRUE
    /\ event' = [tag |-> "SourceFinished"]
    /\ UNCHANGED <<queue, chip, parked, sending, decoder, burst, frames, asked, failures>>

RadioTask == TakeRequest \/ SendFrame \/ ReceiveLeft \/ HearSome \/ SourceEnds

RadioNext == RadioTask \/ TakeFrame \/ \E r \in Requests : Enqueue(r)

RadioSpec == RadioInit /\ [][RadioNext]_radioVars

(* The task is stepped whenever it has something to do, and it looks for a   *)
(* request first; whether another remote transmits is nobody's promise.      *)
RadioWork == TakeRequest \/ SendFrame \/ ReceiveLeft

RadioFairSpec == RadioSpec /\ WF_radioVars(RadioWork)

(* ---- Properties. -------------------------------------------------------- *)

(* The values of the variables: a decoder inside a frame has fewer bits than *)
(* the frame, and neither channel holds more than its places.                *)
RadioTypeOK ==
    /\ Len(queue) <= TXN /\ Len(frames) <= RXN
    /\ ToSet(queue) \subseteq Requests /\ ToSet(frames) \subseteq Payloads
    /\ chip \in Modes /\ event.tag \in Tags \cup {Quiet.tag}
    /\ \A now \in sending : chip = "tx" /\ now.sent <= now.request.repeats
    /\ decoder.length \in {Narrow, Wide} /\ decoder.syncs \in 0..HW_SYNCS_MAX
    /\ decoder.state = "data" => Len(decoder.payload) < decoder.length
    /\ decoder.state = "waiting" => ~decoder.half

(* A controller that waits listens, unless the bus failed at the very        *)
(* strobes that park it: not a request that cannot be encoded, nor a keying  *)
(* that fails half way, nor a frame that fails between its repeats leaves    *)
(* the transceiver keyed or idle (radio.rs, transmit).                       *)
NeverDeaf == sending = {} /\ parked => chip = "rx"

(* The first frame of a press, measured from its first edge, is published as *)
(* it was sent if all of it was measured, and as nothing else if not,        *)
(* whatever an earlier reception, cut anywhere, left in the decoder.         *)
FirstIsHeard ==
    "heard" \in DOMAIN event /\ event.heard.kind = "First" =>
        /\ event.heard.whole => event.tag \in {"Received", "ReceiveQueueFull"}
        /\ event.heard.begun /\ "bits" \in DOMAIN event => event.bits = event.heard.bits

(* What the task keeps through failing strobes and receptions cut anywhere.  *)
RadioSafe == RadioTypeOK /\ NeverDeaf /\ FirstIsHeard

(* However much there is to hear, what the state task asked for goes out:    *)
(* every request leaves the queue and the transceiver comes to rest.         *)
RequestsServed == []<>(queue = <<>> /\ sending = {})

(* (Violated.)                                                               *)
(* As for a first frame, of a repeat that was measured whole: "whatever      *)
(* state a truncated burst leaves it in, the next burst opens with the       *)
(* hardware-sync preamble" (somfy-rmt source.rs).                            *)
RepeatIsHeard ==
    "heard" \in DOMAIN event /\ event.heard.kind = "Repeat" =>
        (event.heard.whole /\ Len(event.heard.bits) = Narrow =>
            event.tag \in {"Received", "ReceiveQueueFull"})
====
