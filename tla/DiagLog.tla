------------------------------ MODULE DiagLog ------------------------------
(***************************************************************************)
(* What the device remembers of its own past (firmware/src/diag.rs): a     *)
(* ring of log lines and the record of the last panic, both in memory that *)
(* a reset keeps and a power cut clears. Everything below runs in critical *)
(* sections, so the only thing that comes between two stores is a reset.   *)
(*                                                                         *)
(* A checksum is modelled as what it was taken over, so it matches exactly *)
(* when that has not changed since. A character is a string; Newline ends  *)
(* a line.                                                                 *)
(***************************************************************************)
EXTENDS Integers, Sequences, FiniteSetsExt

CONSTANTS Lines,      \* what may be logged, without the newline that ends it
          PanicTexts, \* messages of panics
          Newline,
          RING_BYTES, \* characters of the ring
          TEXT,       \* characters of a panic record
          CHUNK,      \* characters one read takes
          Empty,      \* nothing
          MaxLogged,  \* bound: lines logged
          MaxResets,  \* bound: resets and power cuts
          MaxReads    \* bound: fetches of the log

VARIABLES ring,    \* the ring's header and its characters
          record,  \* the panic record
          job,     \* the stores still to make, or Empty while the program runs
          written, \* the lines logged in full since the ring was last emptied, end to end
          kept,    \* the panic last recorded in full, and the boots since
          torn,    \* a reset fell between the stores of a record of a panic
          fetch,   \* what an HTTP task has read of the log so far, or Empty
          uses     \* lines, resets and fetches so far

diagVars == <<ring, record, job, written, kept, torn, fetch, uses>>

\* The stores of record_panic, in order: the text, then the header, then the
\* checksum over both.
Stores == <<"text", "magic", "boots", "len", "truncated", "crc">>
PanicFields == {"text", "magic", "boots", "len", "truncated", "crc"}
Resetting == [is |-> "reset"]

\* What lines are made of, "-" the line a boot adds and "." what a report has for a newline.
Characters ==
    {Newline, "-", "."} \cup UNION {{line[i] : i \in DOMAIN line} : line \in Lines \cup PanicTexts}

LineJobs == [is : {"log"}, left : Seq(Characters), line : Seq(Characters), then : {"run", "reset"}]
PanicJobs == [is : {"panic"}, left : Seq(PanicFields), panic : PanicTexts]
Jobs == LineJobs \cup PanicJobs \cup {Resetting}
Reports == [text : Seq(Characters), truncated : BOOLEAN, boots : Nat]

\* A line and its newline fit the ring, the separator of a boot among them.
ASSUME DiagAssumption ==
    /\ Lines \cup PanicTexts \subseteq Seq(Characters)
    /\ RING_BYTES \in Nat /\ 1 < RING_BYTES
    /\ \A line \in Lines \cup PanicTexts : Len(line) < RING_BYTES
    /\ TEXT \in Nat /\ CHUNK \in Nat
    /\ MaxLogged \in Nat /\ MaxResets \in Nat /\ MaxReads \in Nat
    /\ Empty \notin Jobs /\ Empty \notin Reports

Zero == [magic |-> FALSE, head |-> 0, len |-> 0, lines |-> 0, dropped |-> 0, crc |-> Empty,
         bytes |-> [i \in 0..RING_BYTES - 1 |-> Empty]]
NoPanic == [magic |-> FALSE, boots |-> 0, len |-> 0, truncated |-> FALSE, crc |-> Empty,
            text |-> [i \in 1..TEXT |-> Empty]]

Use(what, most) == uses[what] < most /\ uses' = [uses EXCEPT ![what] = @ + 1]

-----------------------------------------------------------------------------
(* The ring                                                                *)

RingCrc(r) == <<r.magic, r.head, r.len, r.lines, r.dropped>>
RingInRange(r) == r.magic /\ r.head < RING_BYTES /\ r.len <= RING_BYTES
RingValid(r) == RingInRange(r) /\ r.crc = RingCrc(r)
RingSigned(r) == [r EXCEPT !.crc = RingCrc(r)]
RingReset(r) == RingSigned([Zero EXCEPT !.magic = TRUE, !.bytes = r.bytes])

At(r, i) == r.bytes[(r.head + i) % RING_BYTES]
TextOf(r) == [i \in 1..r.len |-> At(r, i - 1)]

\* How many characters the oldest line takes, its newline included, or all of
\* them if it has none.
OldestLength(r) ==
    LET ends == {i \in 1..r.len : At(r, i - 1) = Newline}
    IN IF ends = {} THEN r.len ELSE Min(ends)

\* The count goes down with every line evicted.
Dropped(r, n) == [r EXCEPT !.head = (@ + n) % RING_BYTES, !.len = @ - n,
                           !.lines = IF @ = 0 THEN 0 ELSE @ - 1, !.dropped = @ + 1]

\* Mutant: room is made byte by byte.
DropOldestByte(r) == Dropped(r, 1)
DropOldestLine(r) == Dropped(r, OldestLength(r))

\* A line always fits after one eviction, the ring being full when it happens.
PushByte(r, c) ==
    LET room == IF r.len >= RING_BYTES THEN DropOldestLine(r) ELSE r
    IN [room EXCEPT !.bytes[(room.head + room.len) % RING_BYTES] = c, !.len = @ + 1]

-----------------------------------------------------------------------------
(* The panic record                                                        *)

PanicCrc(p) == <<p.magic, p.boots, p.len, p.truncated, SubSeq(p.text, 1, p.len)>>

\* push_sanitised: what is not printable becomes a dot.
Plain(c) == IF c = Newline THEN "." ELSE c
Took(panic) == IF Len(panic) <= TEXT THEN Len(panic) ELSE TEXT

\* last_panic: what the screen shows.
LastPanic == IF record.magic /\ record.len <= TEXT /\ record.crc = PanicCrc(record)
             THEN [text |-> SubSeq(record.text, 1, record.len), truncated |-> record.truncated,
                   boots |-> record.boots]
             ELSE Empty

Report(panic, boots) == [text |-> [i \in 1..Took(panic) |-> Plain(panic[i])],
                         truncated |-> Len(panic) > TEXT, boots |-> boots]

StoredPanic(field, panic) ==
    CASE field = "text" -> [record EXCEPT !.text = [i \in 1..TEXT |->
                               IF i <= Took(panic) THEN Plain(panic[i]) ELSE @[i]]]
      [] field = "magic" -> [record EXCEPT !.magic = TRUE]
      [] field = "boots" -> [record EXCEPT !.boots = 0]
      [] field = "len" -> [record EXCEPT !.len = Took(panic)]
      [] field = "truncated" -> [record EXCEPT !.truncated = Len(panic) > TEXT]
      [] field = "crc" -> [record EXCEPT !.crc = PanicCrc(record)]

\* The boot ages the record, and signs it again.
Aged(p) == IF p.magic
           THEN LET older == [p EXCEPT !.boots = @ + 1]
                IN [older EXCEPT !.crc = PanicCrc(older)]
           ELSE p

-----------------------------------------------------------------------------
(* The program                                                             *)

Running == job = Empty
Log(line, then) == [is |-> "log", left |-> Append(line, Newline), line |-> Append(line, Newline),
                    then |-> then]

\* record: a ring that does not check out is started again.
Started(r) == IF RingValid(r) THEN r ELSE RingReset(r)

StartLine(line, then) ==
    /\ job' = Log(line, then)
    /\ ring' = Started(ring)
    /\ written' = IF RingValid(ring) THEN written ELSE <<>>

LogLine(line) ==
    /\ Running
    /\ Use("logged", MaxLogged)
    /\ StartLine(line, "run")
    /\ UNCHANGED <<record, kept, torn, fetch>>

Push ==
    /\ ~Running /\ job.is = "log" /\ job.left # <<>>
    /\ ring' = PushByte(ring, Head(job.left))
    /\ job' = [job EXCEPT !.left = Tail(@)]
    /\ UNCHANGED <<record, written, kept, torn, fetch, uses>>

\* The counter and the checksum come last.
FinishLine ==
    /\ ~Running /\ job.is = "log" /\ job.left = <<>>
    /\ ring' = RingSigned([ring EXCEPT !.lines = @ + 1])
    /\ written' = written \o job.line
    /\ job' = IF job.then = "run" THEN Empty ELSE Resetting
    /\ UNCHANGED <<record, kept, torn, fetch, uses>>

\* In the middle of a log line or not.
Panic(panic) ==
    /\ ~Running => job.is = "log" /\ job.then = "run"
    /\ uses.resets < MaxResets
    /\ job' = [is |-> "panic", left |-> Stores, panic |-> panic]
    /\ UNCHANGED <<ring, record, written, kept, torn, fetch, uses>>

Store ==
    /\ ~Running /\ job.is = "panic" /\ job.left # <<>>
    /\ record' = StoredPanic(Head(job.left), job.panic)
    /\ job' = [job EXCEPT !.left = Tail(@)]
    /\ kept' = IF Head(job.left) = "crc" THEN Report(job.panic, 0) ELSE kept
    /\ torn' = (torn /\ Head(job.left) # "crc")
    /\ UNCHANGED <<ring, written, fetch, uses>>

\* The same message then goes to the log, and the board resets.
PanicLine ==
    /\ ~Running /\ job.is = "panic" /\ job.left = <<>>
    /\ StartLine(job.panic, "reset")
    /\ UNCHANGED <<record, kept, torn, fetch, uses>>

\* boot: the record is aged, and a log carried over gets a separator.
StartUp(r, p) ==
    /\ record' = Aged(p)
    /\ ring' = r
    /\ fetch' = Empty
    /\ job' = IF RingValid(r) /\ r.len > 0 THEN Log(<<"-">>, "run") ELSE Empty

\* Between any two stores: a watchdog, or the reset a panic ends in.
Reset ==
    /\ Use("resets", MaxResets)
    /\ StartUp(ring, record)
    /\ LET midway == ~Running /\ job.is = "panic" /\ Len(job.left) \in 1..Len(Stores) - 1
       IN /\ torn' = (torn \/ midway)
          /\ kept' = IF midway THEN Empty
                     ELSE IF kept = Empty THEN Empty ELSE [kept EXCEPT !.boots = @ + 1]
    /\ UNCHANGED written

PowerCut ==
    /\ Use("resets", MaxResets)
    /\ StartUp(Zero, NoPanic)
    /\ written' = <<>> /\ kept' = Empty /\ torn' = FALSE

\* DELETE /api/v1/system.
Forget ==
    /\ Running
    /\ record' = [record EXCEPT !.magic = FALSE]
    /\ ring' = RingReset(ring)
    /\ written' = <<>> /\ kept' = Empty /\ torn' = FALSE
    /\ UNCHANGED <<job, fetch, uses>>

-----------------------------------------------------------------------------
(* The fetch of the log                                                    *)

BeginFetch ==
    /\ Running /\ fetch = Empty
    /\ Use("reads", MaxReads)
    /\ fetch' = <<>>
    /\ UNCHANGED <<ring, record, job, written, kept, torn>>

\* log_read, from as far as the reader has come.
Copied(from) == SubSeq(TextOf(ring), from + 1, Min({from + CHUNK, ring.len}))
Taken(from) == IF RingValid(ring) THEN Copied(from) ELSE <<>>

Fetch ==
    /\ Running /\ fetch # Empty
    /\ LET more == Taken(Len(fetch))
       IN fetch' = IF more = <<>> THEN Empty ELSE fetch \o more
    /\ UNCHANGED <<ring, record, job, written, kept, torn, uses>>

DiagInit ==
    /\ ring = Zero /\ record = NoPanic /\ job = Empty
    /\ written = <<>> /\ kept = Empty /\ torn = FALSE
    /\ fetch = Empty
    /\ uses = [logged |-> 0, resets |-> 0, reads |-> 0]

Stride == Push \/ FinishLine \/ Store \/ PanicLine
DiagNext ==
    \/ \E line \in Lines : LogLine(line)
    \/ Stride
    \/ \E panic \in PanicTexts : Panic(panic)
    \/ Reset \/ PowerCut \/ Forget
    \/ BeginFetch \/ Fetch
DiagSpec == DiagInit /\ [][DiagNext]_diagVars

-----------------------------------------------------------------------------
(* Properties                                                              *)

\* Every variable is of its type, the counters among them in range, and a
\* fetch never yields more than the ring holds.
DiagTypeOK ==
    /\ ring.head \in 0..RING_BYTES - 1 /\ ring.len \in 0..RING_BYTES
    /\ ring.lines \in Nat /\ ring.dropped \in Nat
    /\ record.len \in 0..TEXT /\ record.boots \in 0..MaxResets
    /\ record.magic \in BOOLEAN /\ ring.magic \in BOOLEAN
    /\ torn \in BOOLEAN
    /\ fetch = Empty \/ Len(fetch) <= RING_BYTES

\* The log a reader gets is the newest of what was logged, in order and from the
\* start of a line, however often the ring wrapped and wherever a reset fell; a
\* ring a reset caught in the middle of a line is not shown.
LogIsWholeLines ==
    Running /\ RingValid(ring) =>
        LET from == Len(written) - ring.len
        IN /\ from >= 0
           /\ TextOf(ring) = SubSeq(written, from + 1, Len(written))
           /\ from > 0 => written[from] = Newline

\* The diagnostics screen never counts more lines than the ring holds. It may
\* count fewer: a message of several lines counts as one.
NoLineIsInvented ==
    Running /\ RingValid(ring) =>
        ring.lines <= Cardinality({i \in 1..ring.len : At(ring, i - 1) = Newline})

\* A panic recorded in full is shown after every reset, with the boots since,
\* until it is dismissed, replaced or lost to a power cut.
PanicIsKept == Running /\ ~torn => LastPanic = kept

\* What a reset leaves of the log and of the panic is what was written.
LogSafe == DiagTypeOK /\ LogIsWholeLines /\ NoLineIsInvented /\ PanicIsKept

\* (Violated.)  What is shown as the last panic is a panic that was recorded: a record that
\* a reset interrupted does not check out, and is discarded.
PanicIsGenuine ==
    Running /\ LastPanic # Empty =>
        \E panic \in PanicTexts, boots \in 0..MaxResets : LastPanic = Report(panic, boots)
=============================================================================
