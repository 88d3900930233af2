-------------------------------- MODULE Clock --------------------------------
(***************************************************************************)
(* The kernel's clocks: rtc_get_time reading a clock that ticks while it   *)
(* is read (devices/rtc.c), the divisor of the interval timer (pit.c), and *)
(* timer_calibrate (timer.c).  Time is [days, secs] since the epoch.       *)
(***************************************************************************)
EXTENDS Integers, Sequences, FiniteSets

CONSTANTS Starts,      \* clock settings: <<sec, min, hour, mday, mon, year>>
          MaxTicks,    \* bound: seconds that pass while the clock is read
          Frequencies, \* what pit_configure_channel is asked for
          FirstBit, RefineBits, \* 1 << 10 and 9: timer_calibrate
          Speeds       \* loops that fit in a tick, by machine

ASSUME CkAssumption == {MaxTicks, FirstBit, RefineBits} \subseteq Nat /\ MaxTicks < 60

VARIABLES clock,   \* the six fields, in the chip
          seen,    \* the fields read so far in this turn of the loop
          rtc,     \* rtc_get_time's result, or <<>>
          ticked,  \* seconds passed
          count,   \* per frequency: the count loaded, or -1
          loops    \* per speed: loops_per_tick, or 0
CkVars == <<clock, seen, rtc, ticked, count, loops>>

CkInit == /\ clock \in Starts /\ seen = <<>> /\ rtc = <<>> /\ ticked = 0
          /\ count = [f \in Frequencies |-> -1] /\ loops = [s \in Speeds |-> 0]

days_per_month == <<31, 28, 31, 30, 31, 30, 31, 31, 30, 31, 30, 31>>

\* The chip (external) counts in BCD and carries from field to field.
bcd(n) == 16 * (n \div 10) + (n % 10)
LastDay(mon, year) == IF mon = 2 /\ year % 4 = 0 THEN 29 ELSE days_per_month[mon]
NextSecond(c) ==
  LET s == c[1] + 1
      m == c[2] + (s \div 60)
      h == c[3] + (m \div 60)
      d == c[4] + (h \div 24)
      over == d > LastDay(c[5], c[6])
      mon == IF over THEN c[5] + 1 ELSE c[5]
  IN <<s % 60, m % 60, h % 24, IF over THEN 1 ELSE d, IF mon > 12 THEN 1 ELSE mon,
       IF mon > 12 THEN (c[6] + 1) % 100 ELSE c[6]>>
Tick == /\ ticked < MaxTicks /\ rtc = <<>> /\ ticked' = ticked + 1 /\ clock' = NextSecond(clock)
        /\ UNCHANGED <<seen, rtc, count, loops>>

-----------------------------------------------------------------------------
bcd_to_bin(x) == (x % 16) + (x \div 16) * 10

\* DIV_ROUND_UP (year - 2, 4) is (year + 1) / 4.
ToTime(f) ==
  LET year == (IF f[6] < 70 THEN f[6] + 100 ELSE f[6]) - 70
      months[i \in 0 .. 12] == IF i = 0 THEN 0 ELSE months[i - 1] + days_per_month[i]
      leap == IF f[5] > 2 /\ year % 4 = 2 THEN 1 ELSE 0
  IN [days |-> year * 365 + (year + 1) \div 4 + months[f[5] - 1] + leap + f[4] - 1,
      secs |-> f[3] * 3600 + f[2] * 60 + f[1]]

\* One field, from the second to the year.
cmos_read ==
  /\ rtc = <<>> /\ Len(seen) < 6 /\ seen' = Append(seen, bcd_to_bin(bcd(clock[Len(seen) + 1])))
  /\ UNCHANGED <<clock, rtc, ticked, count, loops>>

\* mistake: the second is not read again
rtc_get_timeOnce ==
  /\ rtc = <<>> /\ Len(seen) = 6 /\ rtc' = <<ToTime(seen)>>
  /\ UNCHANGED <<clock, seen, ticked, count, loops>>

\* The loop's test: the second once more, and from the start if it changed.
rtc_get_time ==
  /\ rtc = <<>> /\ Len(seen) = 6
  /\ IF seen[1] = bcd_to_bin(bcd(clock[1])) THEN rtc' = <<ToTime(seen)>> /\ UNCHANGED seen
     ELSE seen' = <<>> /\ UNCHANGED rtc
  /\ UNCHANGED <<clock, ticked, count, loops>>

-----------------------------------------------------------------------------
PIT_HZ == 1193180

PitCount(f) == IF f < 19 THEN 0 ELSE IF f > PIT_HZ THEN 2 ELSE ((PIT_HZ + f \div 2) \div f) % 65536

\* The parts of this module have nothing to do with each other: one at a time.
Fresh == seen = <<>> /\ ticked = 0 /\ (\A f \in Frequencies : count[f] = -1) /\ \A s \in Speeds : loops[s] = 0

pit_configure_channel(f) ==
  /\ Fresh /\ count' = [count EXCEPT ![f] = PitCount(f)]
  /\ UNCHANGED <<clock, seen, rtc, ticked, loops>>

\* too_many_loops: whether that many loops take more than a tick.
too_many_loops(speed, n) == n > speed

\* The largest power of two below a tick, then bit by bit.
Calibrate(speed) ==
  LET high == CHOOSE h \in {FirstBit * 2 ^ k : k \in 0 .. 12} :
                too_many_loops(speed, 2 * h) /\ (h = FirstBit \/ ~too_many_loops(speed, h))
      refine[k \in 0 .. RefineBits] ==
        IF k = 0 THEN high
        ELSE LET n == refine[k - 1] + (high \div 2 ^ k) IN IF ~too_many_loops(speed, n) THEN n ELSE refine[k - 1]
  IN refine[RefineBits]

timer_calibrate(s) == /\ Fresh /\ loops' = [loops EXCEPT ![s] = Calibrate(s)]
                      /\ UNCHANGED <<clock, seen, rtc, ticked, count>>

CkNext == Tick \/ cmos_read \/ rtc_get_time
          \/ (\E f \in Frequencies : pit_configure_channel(f)) \/ \E s \in Speeds : timer_calibrate(s)

-----------------------------------------------------------------------------
\* The days from 1 January 1970, counted year by year and month by month.
CountedDays(c) ==
  LET year == IF c[6] < 70 THEN c[6] + 2000 ELSE c[6] + 1900
      leap(y) == IF y % 4 = 0 THEN 1 ELSE 0
      years[y \in 1970 .. year] == IF y = 1970 THEN 0 ELSE years[y - 1] + 365 + leap(y - 1)
      months[m \in 1 .. c[5]] == IF m = 1 THEN 0 ELSE months[m - 1] + LastDay(m - 1, c[6])
  IN years[year] + months[c[5]] + c[4] - 1

\* rtc_get_time returns a moment that the clock showed, never a mixture of two,
\* also when the reading meets the end of a minute, a day or a year, and counts
\* its days right, leap years included.
RtcNotTorn ==
  rtc # <<>> => rtc[1] = [days |-> CountedDays(clock), secs |-> clock[3] * 3600 + clock[2] * 60 + clock[1]]

\* The count fits the timer's 16 bits (0 stands for 65536), is never the illegal
\* 1, and is the nearest one to the frequency asked for.
PitCountNearest ==
  \A f \in Frequencies : count[f] # -1 =>
    LET n == IF count[f] = 0 THEN 65536 ELSE count[f]
    IN /\ n \in 2 .. 65536
       /\ \A m \in {n - 1, n + 1} \cap (2 .. 65536) :
            LET Off(k) == IF k * f > PIT_HZ THEN k * f - PIT_HZ ELSE PIT_HZ - k * f IN Off(n) <= Off(m)

\* A calibrated delay never lasts longer than it should, and is short by less
\* than the last bit that is refined.
CalibratedBelowTick ==
  \A s \in Speeds : loops[s] # 0 /\ s >= FirstBit => loops[s] <= s /\ (s - loops[s]) * 2 ^ RefineBits <= s
==============================================================================
