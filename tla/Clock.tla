-------------------------------- MODULE Clock --------------------------------
(***************************************************************************)
(* The two clocks of the kernel. The uptime is counted from what is left   *)
(* in a counter of the interval timer, which starts over again and again;  *)
(* nothing but the reads of the uptime look at it. The time of day is read *)
(* from the registers of the real time clock, one after the other, while   *)
(* it runs. Registers in 12-hour format are left out: rtc_read_time loses  *)
(* their PM bit.                                                           *)
(***************************************************************************)
EXTENDS Integers

CONSTANTS
    Reload,     \* PIT_CHANNEL0_RELOAD
    PerMs,      \* PIT_CYCLES_PER_MS
    MaxCycles,  \* bound: how long the timer is followed
    Minute, Hour, Day,  \* how many seconds, minutes and hours they have
    Starts,     \* seconds of the day at which the machine may be started
    MaxSeconds, \* bound: how long the time of day is followed
    Notice      \* register reads that fit between the rise of the flag and the update

VARIABLES
    pit,    \* the counter: cycles since it was started, and those at the last read
    timer,  \* g_timer_ms, g_timer_cycle_remainder and g_timer_last_counter
    rtc,    \* the device: when it was started, seconds since, its flag and the notice used up
    reader, \* rtc_read_time: where it is, what it has read, the second of its call
    began,  \* the reading a wait has begun with, and
    latest  \* the last one, both with the time they were read in

timerVars == <<pit, timer>>
rtcVars == <<rtc, reader, began, latest>>

(* The counter counts from Reload down to 1. *)
Counter == Reload - (pit.now % Reload)

(* timer_initialize *)
TimerInit ==
    /\ pit = [now |-> 0, read |-> 0, rounds |-> 0]
    /\ timer = [ms |-> 0, remainder |-> 0, last |-> Reload]

CycleGoesBy ==
    /\ pit.now < MaxCycles
    /\ pit' = [pit EXCEPT !.now = @ + 1]
    /\ UNCHANGED timer

(* timer_update_locked; the first form takes every read to be of the same  *)
(* round of the counter.                                                   *)
Elapsed_sameRound(last, current) == IF current <= last THEN last - current ELSE 0
Elapsed(last, current) == IF current <= last THEN last - current ELSE last + (Reload - current)

timer_ticks_ms ==
    /\ LET total == timer.remainder + Elapsed(timer.last, Counter)
       IN  timer' = [ms |-> timer.ms + total \div PerMs, remainder |-> total % PerMs, last |-> Counter]
    /\ pit' = [pit EXCEPT !.read = pit.now, !.rounds = @ + (pit.now - pit.read) \div Reload]

TimerNext == CycleGoesBy \/ timer_ticks_ms

-----------------------------------------------------------------------------
SecondsOfDay == Minute * Hour * Day

(* A register holds its unit in binary or as two decimal digits.           *)
Register(unit) ==
    LET time == (rtc.start + rtc.gone) % SecondsOfDay
        value == CASE unit = "seconds" -> time % Minute
                   [] unit = "minutes" -> (time \div Minute) % Hour
                   [] unit = "hours" -> time \div (Minute * Hour)
    IN  IF rtc.binary THEN value ELSE (value \div 10) * 16 + (value % 10)

(* bcd_to_binary *)
Decoded(r) == IF rtc.binary THEN r ELSE (r % 16) + (r \div 16) * 10

(* rtc_read_seconds_of_day *)
SecondOf(time) == time.hours * Minute * Hour + time.minutes * Minute + time.seconds

Reading(second, from, to) == [second |-> second, from |-> from, to |-> to]
NoTime == [seconds |-> 0, minutes |-> 0, hours |-> 0]

RtcInit ==
    /\ rtc \in [start : Starts, gone : {0}, binary : BOOLEAN, updating : {FALSE}, notice : {0}]
    /\ reader = [at |-> "idle", time |-> NoTime, called |-> 0]
    /\ began = Reading(rtc.start, 0, 0) /\ latest = began

(* The flag goes up some time before an update and down with it; the one   *)
(* thread of the kernel is not held up between its reads.                  *)
FlagRises ==
    /\ ~rtc.updating /\ rtc.gone < MaxSeconds
    /\ rtc' = [rtc EXCEPT !.updating = TRUE, !.notice = 0]
    /\ UNCHANGED <<reader, began, latest>>

MomentGoesBy ==
    /\ rtc.updating /\ rtc.notice < Notice /\ reader.at \in {"idle", "wait"}
    /\ rtc' = [rtc EXCEPT !.notice = @ + 1]
    /\ UNCHANGED <<reader, began, latest>>

Update ==
    /\ rtc.updating /\ rtc.notice = Notice
    /\ rtc' = [rtc EXCEPT !.updating = FALSE, !.notice = 0, !.gone = @ + 1]
    /\ UNCHANGED <<reader, began, latest>>

(* rtc_read_time is called, by a wait that begins or by one that goes on.  *)
Call(begins) ==
    /\ reader.at = "idle"
    /\ reader' = [reader EXCEPT !.at = "wait", !.called = rtc.gone]
    /\ began' = IF begins THEN latest ELSE began
    /\ UNCHANGED <<rtc, latest>>

(* rtc_updating; the first form does not look. *)
MayRead_always == TRUE
MayRead == ~rtc.updating

WaitEnds ==
    /\ reader.at = "wait" /\ MayRead
    /\ reader' = [reader EXCEPT !.at = "seconds"]
    /\ UNCHANGED <<rtc, began, latest>>

After == [seconds |-> "minutes", minutes |-> "hours", hours |-> "idle"]

ReadRegister ==
    /\ reader.at \in DOMAIN After
    /\ LET time == [reader.time EXCEPT ![reader.at] = Decoded(Register(reader.at))]
       IN  /\ reader' = [reader EXCEPT !.at = After[@], !.time = time]
           /\ latest' = IF reader.at = "hours" THEN Reading(SecondOf(time), reader.called, rtc.gone)
                        ELSE latest
    /\ rtc' = [rtc EXCEPT !.notice = IF rtc.updating /\ @ < Notice THEN @ + 1 ELSE @]
    /\ UNCHANGED began

RtcNext ==
    \/ FlagRises \/ MomentGoesBy \/ Update
    \/ (\E begins \in BOOLEAN : Call(begins)) \/ WaitEnds \/ ReadRegister

(* transport_elapsed_seconds, seconds_since, elapsed_seconds_since *)
ElapsedSeconds(earlier, current) ==
    IF current >= earlier THEN current - earlier ELSE (SecondsOfDay - earlier) + current

-----------------------------------------------------------------------------
(* Through any number of rounds of the counter the uptime is the cycles    *)
(* that had gone by at the last read, less one whole round for each that   *)
(* went by unread: never ahead, and exact as long as it is read once in    *)
(* every round (timer_update_locked).                                      *)
UptimeIsCycles == timer.ms * PerMs + timer.remainder = pit.read - pit.rounds * Reload

(* A time of day is one that was while it was read, not one put together   *)
(* from before and after an update; and what a wait takes to have elapsed  *)
(* since it began has, over midnight as well (rtc_read_time,               *)
(* transport_elapsed_seconds).                                             *)
TimeIsOneMoment ==
    /\ \E t \in latest.from .. latest.to : latest.second = (rtc.start + t) % SecondsOfDay
    /\ \E t \in latest.from .. latest.to, u \in began.from .. began.to :
          ElapsedSeconds(began.second, latest.second) = t - u
=============================================================================
