---------------------------- MODULE Conversions -----------------------------
(***************************************************************************)
(* Three pure computations on which every line written depends, each       *)
(* against a definition of what it should give: the date of an index name  *)
(* (ek_output.rs), the time of a pcapng packet (pcap_input.rs), and the    *)
(* bytes of a nested TvbRange (lua/tvb.rs).                                *)
(*                                                                         *)
(* A behaviour walks the calendar day by day, or the ticks of a clock, or  *)
(* slices a buffer again and again as a dissector does.  Decimal digits,   *)
(* machine words and bytes are scaled down, days are not.                  *)
(***************************************************************************)
EXTENDS Integers, Sequences, SequencesExt

CONSTANTS
    MaxDay,        \* bound: days after 1970-01-01
    Nano,          \* decimal digits of a Duration's fraction (9)
    Micro,         \* the default if_tsresol (6)
    Resolutions,   \* if_tsresol: [binary, value], or None when absent
    MaxTicks,      \* bound: raw tick count of a packet
    Width,         \* bits of usize and of a Lua integer (64)
    BufferLen,     \* bytes of the Tvb
    MaxUint,       \* bytes of a u64 (8)
    Base,          \* values of a byte (256)
    None

\* b to the power n.
pow(b, n) ==
    LET p[i \in 0 .. n] == IF i = 0 THEN 1 ELSE b * p[i - 1]
    IN  p[n]

ASSUME DigitsAssumption == Nano \in Nat /\ Micro \in 0 .. Nano
ASSUME ResolutionAssumption ==
    /\ Resolutions \subseteq {None} \union [binary : BOOLEAN, value : Nat]
    /\ None \notin [binary : BOOLEAN, value : Nat]
ASSUME WordAssumption == Width \in Nat \ {0} /\ BufferLen \in 1 .. pow(2, Width - 1) - 1
ASSUME ByteAssumption == MaxUint \in Nat /\ Base \in Nat \ {0}

VARIABLE probe     \* [day, date], [ticks, if_tsresol] or [range, outer, at, signed]

-----------------------------------------------------------------------------
(* index_date.                                                             *)

\* Mutant of year_of_era: a leap day in every fourth year.
julian_year(doe) == (doe - doe \div 1460) \div 365

year_of_era(doe) == (doe - doe \div 1460 + doe \div 36524 - doe \div 146096) \div 365

\* days is not negative (timestamps are unsigned), hence neither is z.
civil_from_days(days) ==
    LET z == days + 719468
        era == z \div 146097
        doe == z - era * 146097
        yoe == year_of_era(doe)
        y == yoe + era * 400
        doy == doe - (365 * yoe + (yoe \div 4) - (yoe \div 100))
        mp == (5 * doy + 2) \div 153
        m == IF mp < 10 THEN mp + 3 ELSE mp - 9
    IN  <<IF m <= 2 THEN y + 1 ELSE y, m, doy - ((153 * mp + 2) \div 5) + 1>>

\* The Gregorian calendar.
IsLeap(y) == y % 4 = 0 /\ (y % 100 # 0 \/ y % 400 = 0)
DaysIn(y, m) ==
    IF m = 2 THEN IF IsLeap(y) THEN 29 ELSE 28
    ELSE IF m \in {4, 6, 9, 11} THEN 30 ELSE 31
NextDate(date) ==
    LET y == date[1]  m == date[2]  d == date[3]
    IN  IF d < DaysIn(y, m) THEN <<y, m, d + 1>>
        ELSE IF m < 12 THEN <<y, m + 1, 1>> ELSE <<y + 1, 1, 1>>

-----------------------------------------------------------------------------
(* next_packet: a tick count, taken for nanoseconds by the pcapng reader,  *)
(* is scaled by the resolution of the interface.                           *)

\* Duration::from_nanos and as_nanos; a Duration is seconds and a fraction.
from_nanos(n) == <<n \div pow(10, Nano), n % pow(10, Nano)>>
as_nanos(duration) == duration[1] * pow(10, Nano) + duration[2]

\* Mutant of unwrap_tsresol: no option means what the reader assumed.
unwrap_nanos(if_tsresol) ==
    IF if_tsresol = None THEN [binary |-> FALSE, value |-> Nano] ELSE if_tsresol

unwrap_tsresol(if_tsresol) ==
    IF if_tsresol = None THEN [binary |-> FALSE, value |-> Micro] ELSE if_tsresol

correct_epb_timestamp(mis_scaled, if_tsresol) ==
    LET raw_ticks == as_nanos(mis_scaled)
        tsresol == unwrap_tsresol(if_tsresol)
        exp == IF tsresol.value > Nano THEN Nano ELSE tsresol.value
        unit == IF tsresol.binary THEN pow(2, tsresol.value) ELSE pow(10, exp)
        frac_ticks == raw_ticks % unit
    IN  <<raw_ticks \div unit,
          IF tsresol.binary THEN (frac_ticks * pow(10, Nano)) \div unit
          ELSE frac_ticks * pow(10, Nano - exp)>>

-----------------------------------------------------------------------------
(* Tvb and TvbRange.  A range is [start, end) of the buffer.               *)

Word == pow(2, Width)
range_len(range) == IF range.end > range.start THEN range.end - range.start ELSE 0

\* Mutant of slice: the offset of a nested range is taken from the buffer's start.
slice_absolute(range, offset, length) ==
    LET off == offset % Word
        rest == IF range_len(range) > off THEN range_len(range) - off ELSE 0
        len == IF length = None THEN rest ELSE length % Word
    IN  IF (off + len) % Word > range_len(range) THEN None
        ELSE [start |-> off, end |-> (off + len) % Word]

\* Both arguments are cast from i64 to usize, and sums wrap in a release build.
slice(range, offset, length) ==
    LET off == offset % Word
        rest == IF range_len(range) > off THEN range_len(range) - off ELSE 0
        len == IF length = None THEN rest ELSE length % Word
        start == (range.start + off) % Word
    IN  IF (off + len) % Word > range_len(range) THEN None
        ELSE [start |-> start, end |-> (start + len) % Word]

data == [i \in 1 .. BufferLen |-> i % Base]
bytes(range) == SubSeq(data, range.start + 1, range.end)

\* The bytes are copied to one end of a zeroed word.
parse_uint(bs, little_endian) ==
    LET n == Len(bs)
        zeros == [i \in 1 .. MaxUint - n |-> 0]
        buf == IF little_endian THEN bs \o zeros ELSE zeros \o bs
        weight(i) == IF little_endian THEN pow(Base, i - 1) ELSE pow(Base, MaxUint - i)
    IN  IF n = 0 \/ n > MaxUint THEN None
        ELSE SumFunctionOnSet([i \in 1 .. MaxUint |-> buf[i] * weight(i)], 1 .. MaxUint)

-----------------------------------------------------------------------------
Tvb == [start |-> 0, end |-> BufferLen]

Init ==
    \/ probe = [day |-> 0, date |-> <<1970, 1, 1>>]
    \/ \E resolution \in Resolutions : probe = [ticks |-> 0, if_tsresol |-> resolution]
    \/ probe = [range |-> Tvb, outer |-> Tvb, at |-> 0, signed |-> FALSE]

NextDay ==
    /\ "day" \in DOMAIN probe
    /\ probe.day < MaxDay
    /\ probe' = [day |-> probe.day + 1, date |-> NextDate(probe.date)]

NextTick ==
    /\ "ticks" \in DOMAIN probe
    /\ probe.ticks < MaxTicks
    /\ probe' = [probe EXCEPT !.ticks = @ + 1]

\* tvb(offset, length): a nested range, or an error that ends the dissector.
Call ==
    /\ "range" \in DOMAIN probe
    /\ ~probe.signed
    /\ \E offset \in -(Word \div 2) .. Word \div 2 - 1 :
       \E length \in (-(Word \div 2) .. Word \div 2 - 1) \union {None} :
          LET range == slice(probe.range, offset, length)
          IN  /\ range # None
              /\ probe' = [range |-> range, outer |-> probe.range, at |-> probe.at + offset,
                           signed |-> offset < 0 \/ (length # None /\ length < 0)]

Next == NextDay \/ NextTick \/ Call

Spec == Init /\ [][Next]_probe

-----------------------------------------------------------------------------
(* Properties.                                                             *)

\* The date in an index name is the Gregorian date of the packet's day, through
\* a whole cycle of leap years (civil_from_days).
DateIsGregorian == "day" \in DOMAIN probe => civil_from_days(probe.day) = probe.date

\* A packet's time is its tick count in the unit its interface declares, cut to
\* a nanosecond and never rounded up, and its fraction stays below a second; a
\* decimal unit finer than a nanosecond is taken for a nanosecond, which makes
\* the time too late, never too early (correct_epb_timestamp).
TimeIsExact ==
    "ticks" \in DOMAIN probe =>
        LET declared == IF probe.if_tsresol = None THEN [binary |-> FALSE, value |-> Micro]
                        ELSE probe.if_tsresol
            unit == pow(IF declared.binary THEN 2 ELSE 10, declared.value)
            time == correct_epb_timestamp(from_nanos(probe.ticks), probe.if_tsresol)
            exact == (probe.ticks * pow(10, Nano)) \div unit
        IN  /\ time[2] \in 0 .. pow(10, Nano) - 1
            /\ IF declared.binary \/ declared.value <= Nano
               THEN as_nanos(time) = exact ELSE as_nanos(time) >= exact

\* The number whose digits, most significant first, are ds.
NumberOf(ds) ==
    LET upto[j \in 0 .. Len(ds)] == IF j = 0 THEN 0 ELSE upto[j - 1] * Base + ds[j]
    IN  upto[Len(ds)]

\* However deep a dissector nests its ranges, offsets that are not negative add
\* up, no range leaves the one it was cut from, and uint and le_uint read the
\* bytes there in their own order (slice, parse_uint).
RangesReadOwnBytes ==
    "range" \in DOMAIN probe /\ ~probe.signed =>
        LET r == probe.range
            digits == [i \in 1 .. r.end - r.start |-> data[r.start + i]]
        IN  /\ r.start = probe.at
            /\ probe.outer.start <= r.start /\ r.start <= r.end /\ r.end <= probe.outer.end
            /\ Len(digits) \in 1 .. MaxUint =>
                  /\ parse_uint(bytes(r), FALSE) = NumberOf(digits)
                  /\ parse_uint(bytes(r), TRUE) = NumberOf(Reverse(digits))
            /\ Len(digits) \notin 1 .. MaxUint => parse_uint(bytes(r), FALSE) = None
=============================================================================
