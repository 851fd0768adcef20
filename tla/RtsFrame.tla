---- MODULE RtsFrame ----
(* The frame of a button press and its bytes (somfy-rts frame.rs and         *)
(* command.rs): seven bytes for a 56-bit frame, ten for an 80-bit one, a     *)
(* checksum over the nibbles, and an obfuscation that gives every byte but   *)
(* the first the exclusive or of those before it.                            *)
EXTENDS Integers, Sequences

Byte == 0..255
Codes16 == {n \in Nat : n < 65536}
Addresses24 == {n \in Nat : n < 16777216}

Value ==
    [My |-> 1, Up |-> 2, MyUp |-> 3, Down |-> 4, MyDown |-> 5, UpDown |-> 6,
     MyUpDown |-> 7, Prog |-> 8, SunFlag |-> 9, Flag |-> 10, StepDown |-> 11,
     Toggle |-> 12, Sensor |-> 14, RtwProto |-> 15,
     StepUp |-> 139, Favorite |-> 193, Stop |-> 241]

RadioCommands == DOMAIN Value
Nibble(command) == Value[command] % 16
Extended(command) == Value[command] > 15

(* What a press may say: the struct of frame.rs. *)
RadioFrames == [key : Byte, command : RadioCommands, rolling_code : Codes16, address : Addresses24]

(* The command a value stands for, if it stands for one. *)
CommandOf(value) == {c \in RadioCommands : Value[c] = value}

(* The eight bits of a byte, the highest first, and the byte of eight bits. *)
Weight == <<128, 64, 32, 16, 8, 4, 2, 1>>
Bit(byte, k) == (byte \div Weight[k]) % 2
ByteOf(bit) == 128 * bit[1] + 64 * bit[2] + 32 * bit[3] + 16 * bit[4]
                 + 8 * bit[5] + 4 * bit[6] + 2 * bit[7] + bit[8]

XorOf(a, b) == ByteOf([k \in 1..8 |-> (Bit(a, k) + Bit(b, k)) % 2])

(* The exclusive or of both nibbles of each of the first seven bytes. *)
Checksum(bytes) ==
    LET sum[i \in 0..7] ==
            IF i = 0 THEN 0
            ELSE XorOf(XorOf(sum[i - 1], bytes[i] \div 16), bytes[i] % 16)
    IN sum[7]

Obfuscate(bytes) ==
    LET hidden[i \in 1..7] == IF i = 1 THEN bytes[1] ELSE XorOf(bytes[i], hidden[i - 1])
    IN [i \in DOMAIN bytes |-> IF i <= 7 THEN hidden[i] ELSE bytes[i]]

Deobfuscate(bytes) ==
    [i \in DOMAIN bytes |-> IF i \in 2..7 THEN XorOf(bytes[i], bytes[i - 1]) ELSE bytes[i]]

Head7(f) ==
    <<f.key, Nibble(f.command) * 16, f.rolling_code \div 256, f.rolling_code % 256,
      f.address \div 65536, (f.address \div 256) % 256, f.address % 256>>

Sealed(bytes) == Obfuscate([bytes EXCEPT ![2] = @ + Checksum(bytes)])

(* A 56-bit frame has no place for an extended command. *)
Encode56(f) == IF Extended(f.command) THEN {} ELSE {Sealed(Head7(f))}

\* Mutant: the byte does not fall back.
Byte7Climbs(start, repeat) == start + 4 * repeat

(* The first of the three bytes of the tail, of most commands: it climbs by  *)
(* four a repeat and falls back before it passes 255.                        *)
Byte7(start, repeat) ==
    LET over == start + 4 * repeat - 255
    IN start + 4 * (repeat - IF over > 0 THEN 15 * ((over + 59) \div 60) ELSE 0)

TailOf(command, repeat) ==
    CASE command = "StepUp" -> <<132, 56, 16>>
      [] command = "StepDown" -> <<132, 48, 16>>
      [] command = "Favorite" -> <<IF repeat > 0 THEN 132 ELSE 196, 44, 144>>
      [] command = "Stop" -> <<IF repeat > 0 THEN 132 ELSE 196, 47, 240>>
      [] command = "Up" -> <<Byte7(196, repeat), 32, 0>>
      [] command = "Down" -> <<Byte7(196, repeat), 44, 128>>
      [] command \in {"SunFlag", "Flag", "Sensor", "RtwProto"} -> <<0, 0, 0>>
      [] OTHER -> <<Byte7(196, repeat), 0, 16>>

TailChecksum(a, b, c) ==
    XorOf(XorOf(XorOf(XorOf(a \div 16, b \div 16), c \div 16), a % 16), b % 16)

(* Only the first frame of a press differs in its head, and by a nibble that *)
(* is the command's own already: StepUp's is StepDown's, and the others'     *)
(* My's. So the head is the same whatever the repeat.                        *)
Encode80(f, repeat) ==
    LET t == TailOf(f.command, repeat)
    IN Sealed(Head7(f) \o <<t[1], t[2], t[3] + TailChecksum(t[1], t[2], t[3])>>)

FrameOf(b, command) ==
    [key |-> b[1], command |-> command, rolling_code |-> b[3] * 256 + b[4],
     address |-> (b[5] * 256 + b[6]) * 256 + b[7]]

Decode56(bytes) ==
    LET b == Deobfuscate(bytes)
    IN IF Checksum(b) # 0 THEN {}
       ELSE {FrameOf(b, c) : c \in CommandOf(b[2] \div 16)}

(* What the tail makes of the nibble of the head. *)
ExtendedValue(base, b8) ==
    CASE base = 1 -> base + 16 * (b8 % 16)
      [] base = 11 -> base + 16 * ((b8 % 16) - (b8 % 8))
      [] OTHER -> base

Decode80(bytes) ==
    LET b == Deobfuscate(bytes)
    IN IF Checksum(b) # 0 \/ b[10] % 16 # TailChecksum(b[8], b[9], b[10]) THEN {}
       ELSE {FrameOf(b, c) : c \in CommandOf(ExtendedValue(b[2] \div 16, b[9]))}

BitsOf(bytes) == [i \in 1..(8 * Len(bytes)) |-> Bit(bytes[(i + 7) \div 8], ((i - 1) % 8) + 1)]

BytesOf(bits) ==
    [i \in 1..(Len(bits) \div 8) |-> ByteOf([k \in 1..8 |-> bits[8 * (i - 1) + k]])]
====
