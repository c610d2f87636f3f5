------------------------------- MODULE OneWire -------------------------------
(***************************************************************************)
(* dev_w1: two masters of a 1-wire bus, one bit-banged on SPI              *)
(* (dev_spi_w1bb) and one behind I2C (dev_i2c_ds2482), how they find the   *)
(* devices on it, and fibers that poll temperature sensors (ds18x20) which *)
(* may draw their power from the bus.                                      *)
(*                                                                         *)
(* External: the devices.  All that are selected answer at once, and a 0   *)
(* wins.  Payloads and their slots are left out but for the search.        *)
(***************************************************************************)
EXTENDS Integers, FiniteSets, SequencesExt

CONSTANTS Sensors,     \* the fibers, and the sensor each polls
          Parasitic,   \* those powered by the bus
          Conversion,  \* how long a measurement takes
          MaxTime,     \* bound: the clock
          Bits,        \* of a uuid
          CrcData      \* what to check the checksum with, as sequences of bits

VARIABLES kind,         \* of the master
          now,
          pause_until,
          strong,       \* the strong pull-up is on: strong_pull_state
          configuration,\* whether the chip was last known to be told so
          owner,        \* of TDS2482Bus::mutex
          pc, wake,     \* of each fiber, and when its sleep is over
          measuring,    \* external: when the sensor has measured, or Never
          read          \* what the last Fetch found

wireVars == <<kind, now, pause_until, strong, configuration, owner, pc, wake, measuring, read>>
NoFiber == "nobody"
Never == -1

-----------------------------------------------------------------------------
(* Finding the devices *)

UUIDs == [1..Bits -> {0, 1}]
\* External: what the devices that are still selected say of bit i.
Selected(present, uuid, i) == {d \in present : \A j \in 1..(i - 1) : d[j] = uuid[j]}
HasZero(present, uuid, i) == \E d \in Selected(present, uuid, i) : d[i] = 0
HasOne(present, uuid, i) == \E d \in Selected(present, uuid, i) : d[i] = 1

\* ComputeMatchingBits(), without forks: up to a fork or where no device has
\* the bit.
MatchingBits(present, uuid, first) ==
    LET stops == {i \in first..Len(uuid) : \/ HasZero(present, uuid, i) /\ HasOne(present, uuid, i)
                                           \/ uuid[i] = 1 /\ ~HasOne(present, uuid, i)
                                           \/ uuid[i] = 0 /\ ~HasZero(present, uuid, i)}
    IN IF stops = {} THEN Len(uuid) + 1 ELSE Min(stops)
\* TW1BbBus::Scan(): what is found from bit i on, where the bits of uuid are 0;
\* the zeros of the bit, then the ones.
FromBit(present, found, i, uuid) ==
    LET last == i = Bits
        match == MatchingBits(present, uuid, i + 1)
        zeros == IF ~HasZero(present, uuid, i) THEN <<>>
                 ELSE IF last \/ match = Bits + 1 THEN <<uuid>> ELSE found[match][uuid]
        one == [uuid EXCEPT ![i] = 1]
        ones == IF ~HasOne(present, uuid, i) THEN <<>> ELSE IF last THEN <<one>> ELSE found[i + 1][one]
    IN zeros \o ones
ScanBit(present) ==
    LET found[i \in 1..Bits] == [uuid \in UUIDs |-> FromBit(present, found, i, uuid)] IN found
NullValue == [i \in 1..Bits |-> 0]
Scan(present) == ScanBit(present)[1][NullValue]

\* TDS2482Bus::Scan(): one walk over all bits finds one rom; last_discrepancy is
\* where the next one leaves its path.
Triplet(present, rom, i, wanted) ==  \* the chip takes the only way there is
    [ok |-> HasZero(present, rom, i) \/ HasOne(present, rom, i),
     fork |-> HasZero(present, rom, i) /\ HasOne(present, rom, i),
     direction |-> IF HasZero(present, rom, i) /\ HasOne(present, rom, i) THEN wanted
                   ELSE IF HasOne(present, rom, i) THEN 1 ELSE 0]
Went(w, i, t) == [rom |-> [w.rom EXCEPT ![i] = t.direction], ok |-> w.ok /\ t.ok,
                  zero |-> IF t.fork /\ t.direction = 0 THEN i ELSE w.zero]
NextBit_Longer(present, discrepancy, w, i) ==
    Went(w, i, Triplet(present, w.rom, i, IF i <= discrepancy THEN w.rom[i] ELSE 0))
NextBit(present, discrepancy, w, i) ==
    Went(w, i, Triplet(present, w.rom, i, IF i < discrepancy THEN w.rom[i] ELSE IF i = discrepancy THEN 1 ELSE 0))
Walk(present, rom, discrepancy) ==
    LET w[i \in 0..Bits] == IF i = 0 THEN [rom |-> rom, ok |-> TRUE, zero |-> 0]
                            ELSE NextBit(present, discrepancy, w[i - 1], i)
    IN w[Bits]
\* One round of the loop; a search that does not end is cut off.
Round(present, s) ==
    LET w == Walk(present, s.rom, s.zero) IN
    IF s.last \/ present = {} \/ ~w.ok THEN [s EXCEPT !.last = TRUE]
    ELSE [rom |-> w.rom, zero |-> w.zero, last |-> w.zero = 0, result |-> Append(s.result, w.rom)]
ChipScan(present) ==
    LET s[k \in 0..(Cardinality(present) + 1)] ==
            IF k = 0 THEN [rom |-> NullValue, zero |-> 0, last |-> FALSE, result |-> <<>>] ELSE Round(present, s[k - 1])
    IN s[Cardinality(present) + 1].result

\* CalculateCRC(): bytes and the checksum as bits, the lowest first.
Xor(a, b) == (a + b) % 2
CrcBit(crc, b) == LET m == Xor(crc[1], b) IN
                  [i \in 1..8 |-> Xor(IF i = 8 THEN 0 ELSE crc[i + 1], IF i \in {3, 4, 8} THEN m ELSE 0)]
NoneYet == [i \in 1..8 |-> 0]
CalculateCRC(bits) ==
    LET crc[k \in 0..Len(bits)] == IF k = 0 THEN NoneYet ELSE CrcBit(crc[k - 1], bits[k])
    IN crc[Len(bits)]

-----------------------------------------------------------------------------
(* Using the bus *)

Paused == pause_until > now
\* Whatever happens on the wire takes the power from those that measure.
Disturbed == [s \in Sensors |-> IF s \in Parasitic /\ measuring[s] > now THEN Never ELSE measuring[s]]
Go(s, at) == pc' = [pc EXCEPT ![s] = at]

\* Poll(): TriggerConversion, a sleep, Fetch.
PollSensor(s) ==
    /\ pc[s] = "idle" /\ now + Conversion <= MaxTime
    /\ Go(s, "trigger") /\ read' = [read EXCEPT ![s] = "none"]
    /\ UNCHANGED <<kind, now, pause_until, strong, configuration, owner, wake, measuring>>

\* The conversion begins, and the bus is paused for as long as it lasts, from
\* the end of the command on.
Triggered(s) ==
    /\ measuring' = [Disturbed EXCEPT ![s] = now + Conversion]
    /\ pause_until' = IF s \in Parasitic THEN now + Conversion ELSE Never
    /\ strong' = (s \in Parasitic \/ (kind = "chip" /\ strong))
    /\ configuration' = (kind = "chip" /\ s \in Parasitic)
    /\ wake' = [wake EXCEPT ![s] = now + Conversion]
    /\ Go(s, "measure")
Fetched(s) ==
    /\ read' = [read EXCEPT ![s] = IF measuring[s] # Never /\ measuring[s] <= now THEN "value" ELSE "garbage"]
    /\ measuring' = [Disturbed EXCEPT ![s] = Never]
    /\ pause_until' = Never /\ strong' = (kind = "chip" /\ strong) /\ configuration' = FALSE
    /\ wake' = [wake EXCEPT ![s] = 0]
    /\ Go(s, "idle")
\* TW1BbBus::ExchangeBuffers(): nothing on the wire before the pause is over, and
\* nobody in between; a transaction is one exchange.
Exchange(s) ==
    /\ kind = "bit-banged" /\ ~Paused
    /\ \/ pc[s] = "trigger" /\ Triggered(s) /\ read' = read
       \/ pc[s] = "fetch" /\ Fetched(s)
    /\ UNCHANGED <<kind, now, owner>>

\* TDS2482Bus: under the mutex, once the pause it found is over.
Acquire_Eager(s) == /\ kind = "chip" /\ owner = NoFiber /\ pc[s] \in {"trigger", "fetch"}
                    /\ owner' = s /\ wake' = [wake EXCEPT ![s] = now]
                    /\ UNCHANGED <<kind, now, pause_until, strong, configuration, pc, measuring, read>>
Acquire(s) == /\ kind = "chip" /\ owner = NoFiber /\ pc[s] \in {"trigger", "fetch"}
              /\ owner' = s /\ wake' = [wake EXCEPT ![s] = pause_until]  \* prepare(), waitPause()
              /\ UNCHANGED <<kind, now, pause_until, strong, configuration, pc, measuring, read>>
Prepare(s) == /\ owner = s /\ pc[s] \in {"trigger", "fetch"} /\ wake[s] <= now
              /\ Go(s, IF pc[s] = "trigger" THEN "command" ELSE "answer")
              /\ pause_until' = Never /\ measuring' = Disturbed
              /\ configuration' = FALSE /\ strong' = (strong /\ ~configuration)  \* written when it differs
              /\ UNCHANGED <<kind, now, owner, wake, read>>
Transact(s) ==
    /\ owner = s /\ owner' = NoFiber
    /\ \/ pc[s] = "command" /\ Triggered(s) /\ read' = read
       \/ pc[s] = "answer" /\ Fetched(s)
    /\ UNCHANGED <<kind, now>>
\* A failure on the way: before the command, at the verification of the
\* configuration it needs, or after it, when the sensor measures without a pause.
Failed(s) ==
    /\ owner = s /\ owner' = NoFiber /\ pc[s] \in {"command", "answer"}
    /\ Go(s, "idle")
    /\ \/ UNCHANGED <<strong, configuration, measuring>>
       \/ pc[s] = "command" /\ s \in Parasitic /\ strong' = TRUE /\ UNCHANGED <<configuration, measuring>>
       \/ /\ pc[s] = "command" /\ measuring' = [measuring EXCEPT ![s] = now + Conversion]
          /\ IF s \in Parasitic THEN strong' = TRUE /\ configuration' = TRUE ELSE UNCHANGED <<strong, configuration>>
    /\ wake' = [wake EXCEPT ![s] = 0]
    /\ UNCHANGED <<kind, now, pause_until, read>>

Slept(s) == /\ pc[s] = "measure" /\ wake[s] <= now /\ Go(s, "fetch")
            /\ UNCHANGED <<kind, now, pause_until, strong, configuration, owner, wake, measuring, read>>
Tick == /\ now < MaxTime /\ now' = now + 1
        /\ UNCHANGED <<kind, pause_until, strong, configuration, owner, pc, wake, measuring, read>>

WireInit ==
    /\ kind \in {"bit-banged", "chip"}
    /\ now = 0 /\ pause_until = Never /\ strong = FALSE /\ configuration = FALSE /\ owner = NoFiber
    /\ pc = [s \in Sensors |-> "idle"] /\ wake = [s \in Sensors |-> 0]
    /\ measuring = [s \in Sensors |-> Never] /\ read = [s \in Sensors |-> "none"]
WireNext == \/ Tick
            \/ \E s \in Sensors : PollSensor(s) \/ Exchange(s) \/ Acquire(s) \/ Prepare(s) \/ Transact(s) \/ Failed(s) \/ Slept(s)
WireSpec == WireInit /\ [][WireNext]_wireVars

-----------------------------------------------------------------------------
(* Properties *)

\* A fiber that polls its sensor gets what the sensor has measured: others on
\* the bus wait for as long as the measurement needs power.
ReadingsTrue ==
    /\ \A s \in Sensors : read[s] # "garbage"
    /\ \A s \in Parasitic : pc[s] = "measure" /\ now < wake[s] => strong /\ measuring[s] = wake[s]
\* Where the searches are looked at, which no fiber's state matters to.
BusUnused == now = 0 /\ \A s \in Sensors : pc[s] = "idle"
\* Either search finds every device on the bus, and each once.
FindsAll(present, found) == Len(found) = Cardinality(present) /\ ToSet(found) = present
AllFound == \A present \in SUBSET UUIDs : FindsAll(present, Scan(present)) /\ FindsAll(present, ChipScan(present))
\* A checksum tells when one bit of what was sent, or of itself, has changed.
CrcTells ==
    \A data \in CrcData : \A i \in 1..(Len(data) + 8) :
        LET sent == [(data \o CalculateCRC(data)) EXCEPT ![i] = 1 - @]
        IN CalculateCRC(SubSeq(sent, 1, Len(data))) # SubSeq(sent, Len(data) + 1, Len(data) + 8)
=============================================================================
