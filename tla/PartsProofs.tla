---------------------------- MODULE PartsProofs ----------------------------
(***************************************************************************)
(* For every value of the constants: what DesktopParts says of the parts   *)
(* of the desktop. A part moves by its own next-state relation whichever   *)
(* was chosen, so an invariant of a part holds in every behaviour. In this *)
(* order: the update prompt, the clocks, the games, setup over its drive,  *)
(* the application loader, the browser, keyboard and mouse, boot, File      *)
(* Manager.                                                                *)
(***************************************************************************)
EXTENDS DesktopParts, Integers, Sequences, FiniteSetTheorems, SequenceTheorems,
        WellFoundedInduction, TLAPS

(* Every part moves by its own relation or not at all. *)
LEMMA PartsMove ==
    ASSUME [Next]_partsVars
    PROVE  /\ [Files!FileManagerNext]_filesVars
           /\ [Web!BrowserNext]_webVars
           /\ [Start!BootNext]_bootVars
           /\ [Clocks!TimerNext]_timerVars
           /\ [Clocks!RtcNext]_rtcVars
           /\ [Arcade!SnakeNext]_gameVars
           /\ [Arcade!BoardNext]_boardVars
           /\ [Devices!InputNext]_deviceVars
           /\ [Apps!PeNext]_appVars
           /\ [Updates!PromptNext]_updateVars
           /\ [Oobe!SetupNext]_setupVars
BY Zenon DEF Next, partsVars
-----------------------------------------------------------------------------
(* Updates: until the first attempt, what was dismissed last is the newest *)
(* version that was dismissed, what is offered or staged is not older, and *)
(* an open prompt is about a newer one.                                    *)
PromptOk ==
    /\ issued \in Nat /\ staged \in 0 .. issued /\ offer \in 0 .. issued
    /\ prompt \in [open : BOOLEAN, dismissed : Nat] /\ turned \subseteq Nat
    /\ prompt.dismissed # 0 => prompt.dismissed \in turned
    /\ attempt = "none" =>
          /\ \A v \in turned : v <= prompt.dismissed
          /\ prompt.dismissed <= staged /\ offer <= staged
          /\ offer # 0 => prompt.dismissed <= offer
    /\ prompt.open => attempt = "none" /\ offer # 0 /\ prompt.dismissed < offer

LEMMA PromptStep ==
    ASSUME PromptOk, [Updates!PromptNext]_updateVars
    PROVE  PromptOk'
<1> USE DEF PromptOk
<1>1. CASE Updates!StageNewer
  BY <1>1 DEF Updates!StageNewer
<1>2. CASE Updates!PollPackage
  <2>1. PICK found \in {offer, staged, 0} :
            /\ offer' = found /\ prompt' = Updates!PromptRule(found)
            /\ UNCHANGED <<issued, staged, attempt, turned>>
    BY <1>2 DEF Updates!PollPackage, Updates!Polled
  <2>2. prompt' \in [open : BOOLEAN, dismissed : Nat] /\ prompt'.dismissed = prompt.dismissed
    BY <2>1 DEF Updates!PromptRule
  <2>3. prompt'.open => found # 0 /\ (prompt.open \/ (attempt = "none" /\ found # prompt.dismissed))
    BY <2>1 DEF Updates!PromptRule
  <2>4. QED
    BY <2>1, <2>2, <2>3
<1>3. CASE Updates!Dismiss
  BY <1>3 DEF Updates!Dismiss, Updates!PromptShown
<1>4. CASE Updates!Restart
  BY <1>4 DEF Updates!Restart
<1>5. ASSUME NEW ok \in BOOLEAN, Updates!InstallFromPrompt(ok) \/ Updates!InstallFromSettings(ok)
      PROVE  PromptOk'
  <2>1. /\ issued' = issued /\ turned' = turned /\ staged' \in {0, staged} /\ offer' \in {0, offer}
        /\ attempt' # "none"
    BY <1>5 DEF Updates!InstallFromPrompt, Updates!InstallFromSettings, Updates!Attempt
  <2>2. \/ prompt' = [open |-> FALSE, dismissed |-> 0]
        \/ prompt' = prompt /\ ~(prompt.open /\ offer # 0)
    BY <1>5 DEF Updates!InstallFromPrompt, Updates!InstallFromSettings, Updates!PromptShown
  <2>3. /\ prompt' \in [open : BOOLEAN, dismissed : Nat] /\ ~prompt'.open
        /\ prompt'.dismissed \in {0, prompt.dismissed}
    <3>1. CASE prompt' = [open |-> FALSE, dismissed |-> 0]
      BY <3>1
    <3>2. CASE prompt' = prompt /\ ~prompt.open
      BY <3>2
    <3>3. QED
      BY <2>2, <3>1, <3>2
  <2>4. issued' \in Nat /\ staged' \in 0 .. issued' /\ offer' \in 0 .. issued'
    BY <2>1
  <2>5. QED
    BY <2>1, <2>3, <2>4
<1>6. CASE \/ \E p \in {"UPDATE", "other"} : Updates!TurnPage(p)
           \/ \E visible \in BOOLEAN : Updates!ShowSettings(visible)
           \/ UNCHANGED updateVars
  BY <1>6 DEF Updates!TurnPage, Updates!ShowSettings, updateVars
<1>7. QED
  BY <1>1, <1>2, <1>3, <1>4, <1>5, <1>6 DEF Updates!PromptNext

(* A newer version than any dismissed prompts until the first attempt at   *)
(* installing, a dismissed one never (gui_run_desktop,                     *)
(* handle_update_prompt_click).                                            *)
THEOREM NewerPrompts == Spec => NewerPromptsUntilAttempt
<1>1. Init => PromptOk
  BY DEF Init, Updates!PromptInit, PromptOk
<1>2. PromptOk /\ [Next]_partsVars => PromptOk'
  BY PartsMove, PromptStep
<1>3. ASSUME PromptOk, [Next]_partsVars, offer' > offer, attempt = "none", offer' \notin turned
      PROVE  prompt'.open \/ (settings /\ page = "UPDATE")
  <2>1. Updates!PromptNext /\ offer \in Nat /\ ~(offer' \in {0, offer})
    BY <1>3, PartsMove DEF PromptOk, updateVars
  <2>2. Updates!PollPackage
    BY <2>1 DEF Updates!PromptNext, Updates!StageNewer, Updates!Dismiss, Updates!Restart,
                Updates!InstallFromPrompt, Updates!InstallFromSettings, Updates!Attempt,
                Updates!TurnPage, Updates!ShowSettings
  <2>3. prompt' = Updates!PromptRule(offer')
    BY <2>2 DEF Updates!PollPackage
  <2>4. offer' # 0 /\ offer' # prompt.dismissed
    BY <1>3, <2>1 DEF PromptOk
  <2>5. QED
    BY <1>3, <2>3, <2>4 DEF Updates!PromptRule, PromptOk
<1>4. ASSUME PromptOk, PromptOk', [Next]_partsVars, prompt'.open
      PROVE  offer' \notin turned'
  BY <1>4 DEF PromptOk
<1>5. PromptOk /\ PromptOk' /\ [Next]_partsVars
          => [ /\ offer' > offer /\ attempt = "none" /\ offer' \notin turned
                      => prompt'.open \/ (settings /\ page = "UPDATE")
               /\ prompt'.open => offer' \notin turned' ]_(Updates!promptVars)
  BY <1>3, <1>4
<1>6. QED
  BY <1>1, <1>2, <1>5, PTL DEF Spec, NewerPromptsUntilAttempt, Updates!NewerPromptsUntilAttempt

-----------------------------------------------------------------------------
(* Numbers: what a division gives, and the smallest of a set.              *)
LEMMA Multiple ==
    ASSUME NEW R \in Nat \ {0}, NEW d \in Int, d >= 1
    PROVE  R * d \in Int /\ R * d >= R
<1>1. R * d = R + R * (d - 1) /\ d - 1 \in Nat
  OBVIOUS
<1>2. \A a, b \in Nat : a * b \in Nat
  OBVIOUS
<1>3. QED
  BY <1>1, <1>2

LEMMA Division ==
    ASSUME NEW R \in Nat \ {0}, NEW n \in Nat
    PROVE  /\ n = R * (n \div R) + (n % R) /\ n \div R \in Nat
           /\ n % R \in Nat /\ n % R < R
OBVIOUS

LEMMA DivisionUnique ==
    ASSUME NEW R \in Nat \ {0}, NEW n \in Nat, NEW q \in Int, NEW r \in Nat, r < R, n = R * q + r
    PROVE  n \div R = q /\ n % R = r
<1> DEFINE p == n \div R
           s == n % R
<1>1. n = R * p + s /\ p \in Nat /\ s \in Nat /\ s < R
  BY Division
<1> HIDE DEF p, s
<1>2. ~(p - q >= 1)
  <2>1. R * (p - q) = r - s
    BY <1>1
  <2>2. QED
    BY <1>1, <2>1, Multiple
<1>3. ~(q - p >= 1)
  <2>1. R * (q - p) = s - r
    BY <1>1
  <2>2. QED
    BY <1>1, <2>1, Multiple
<1>4. p = q
  BY <1>1, <1>2, <1>3
<1>5. QED
  BY <1>1, <1>4 DEF p, s

(* A set of naturals that is not empty has a smallest member. *)
LEMMA LeastOfNaturals ==
    ASSUME NEW S, S \subseteq Nat, S # {}
    PROVE  \E k \in S : \A j \in S : k <= j
<1> DEFINE Less == {ss \in Nat \X Nat : ss[1] < ss[2]}
<1>1. IsWellFoundedOn(Less, Nat)
  BY NatLessThanWellFounded DEF OpToRel
<1>2. PICK k \in S : \A j \in S : <<j, k>> \notin Less
  BY <1>1, WFMin
<1>3. \A j \in S : ~(j < k)
  BY <1>2
<1>4. QED
  BY <1>3

-----------------------------------------------------------------------------
(* Clocks                                                                 *)
(* What has gone by between two readings of something that goes round.     *)
LEMMA RoundDifference ==
    ASSUME NEW R \in Nat \ {0}, NEW a \in Nat, NEW b \in Nat, a <= b
    PROVE  LET e == IF a % R <= b % R THEN (b % R) - (a % R) ELSE ((b % R) + R) - (a % R)
           IN  e \in Nat /\ e < R /\ e = (b - a) % R /\ b - a = R * ((b - a) \div R) + e
<1> DEFINE p == a \div R
           q == b \div R
           r == a % R
           s == b % R
           e == IF r <= s THEN s - r ELSE (s + R) - r
           d == IF r <= s THEN q - p ELSE (q - p) - 1
<1>1. /\ a = R * p + r /\ p \in Nat /\ r \in Nat /\ r < R
      /\ b = R * q + s /\ q \in Nat /\ s \in Nat /\ s < R
  BY Division
<1>2. r = a % R /\ s = b % R
  OBVIOUS
<1> HIDE DEF p, q, r, s
<1>3. e = IF r <= s THEN s - r ELSE (s + R) - r
  OBVIOUS
<1>4. e \in Nat /\ e < R /\ d \in Int
  BY <1>1
<1>5. b - a = R * d + e
  <2>1. b - a = (R * (q - p) + s) - r
    BY <1>1
  <2>2. R * ((q - p) - 1) = R * (q - p) - R
    BY <1>1
  <2>3. QED
    BY <1>1, <2>1, <2>2
<1> HIDE DEF d
<1>6. b - a \in Nat
  OBVIOUS
<1>7. (b - a) \div R = d /\ (b - a) % R = e
  <2> HIDE DEF e
  <2> QED
    BY <1>4, <1>5, <1>6, DivisionUnique
<1> HIDE DEF e
<1>8. e \in Nat /\ e < R /\ e = (b - a) % R /\ b - a = R * ((b - a) \div R) + e
  BY <1>4, <1>5, <1>7
<1>9. e = IF a % R <= b % R THEN (b % R) - (a % R) ELSE ((b % R) + R) - (a % R)
  BY <1>2, <1>3
<1>10. QED
  BY <1>8, <1>9

(* The interval timer                                                      *)
TimerOk ==
    /\ pit \in [now : Nat, read : Nat, rounds : Nat] /\ pit.read <= pit.now
    /\ timer \in [ms : Nat, remainder : Nat, last : Int]
    /\ timer.last = Reload - (pit.read % Reload)
    /\ Clocks!UptimeIsCycles

LEMMA TimerStep ==
    ASSUME TimerOk, [Clocks!TimerNext]_timerVars
    PROVE  TimerOk'
<1>1. CASE UNCHANGED timerVars
  BY <1>1 DEF timerVars, TimerOk, Clocks!UptimeIsCycles
<1>2. CASE Clocks!CycleGoesBy
  BY <1>2 DEF Clocks!CycleGoesBy, TimerOk, Clocks!UptimeIsCycles
<1>3. CASE Clocks!timer_ticks_ms
  <2> DEFINE a == pit.read
             b == pit.now
             round == (b - a) \div Reload
             elapsed == Clocks!Elapsed(timer.last, Clocks!Counter)
             total == timer.remainder + elapsed
  <2>1. /\ Reload \in Nat \ {0} /\ PerMs \in Nat \ {0} /\ a \in Nat /\ b \in Nat /\ a <= b
        /\ pit.rounds \in Nat /\ timer.ms \in Nat /\ timer.remainder \in Nat
        /\ timer.last = Reload - (a % Reload) /\ Clocks!Counter = Reload - (b % Reload)
    BY ClockAssumption DEF ClockAssumption, TimerOk, Clocks!Counter
  <2>2. a % Reload \in Nat /\ b % Reload \in Nat
    BY <2>1, Division
  <2>3. elapsed = IF a % Reload <= b % Reload THEN (b % Reload) - (a % Reload)
                  ELSE ((b % Reload) + Reload) - (a % Reload)
    <3> DEFINE r == a % Reload
               s == b % Reload
    <3>1. r \in Nat /\ s \in Nat /\ timer.last = Reload - r /\ Clocks!Counter = Reload - s
      BY <2>1, <2>2
    <3>2. r = a % Reload /\ s = b % Reload
      OBVIOUS
    <3> HIDE DEF r, s
    <3>3. elapsed = IF Reload - s <= Reload - r THEN (Reload - r) - (Reload - s)
                    ELSE (Reload - r) + (Reload - (Reload - s))
      BY <3>1 DEF Clocks!Elapsed
    <3>4. elapsed = IF r <= s THEN s - r ELSE (s + Reload) - r
      BY <2>1, <3>1, <3>3
    <3>5. QED
      BY <3>2, <3>4
  <2>4. elapsed \in Nat /\ b - a = Reload * round + elapsed /\ round \in Nat
    <3>1. b - a \in Nat
      BY <2>1
    <3>2. round \in Nat
      BY <2>1, <3>1, Division
    <3>3. LET e == IF a % Reload <= b % Reload THEN (b % Reload) - (a % Reload)
                   ELSE ((b % Reload) + Reload) - (a % Reload)
          IN  e \in Nat /\ b - a = Reload * round + e
      BY <2>1, RoundDifference
    <3> HIDE DEF elapsed, round
    <3>4. QED
      BY <2>3, <3>2, <3>3
  <2>5. total \in Nat
    BY <2>1, <2>4
  <2>6. total = PerMs * (total \div PerMs) + (total % PerMs)
        /\ total \div PerMs \in Nat /\ total % PerMs \in Nat
    BY <2>1, <2>5, Division
  <2>7. pit' = [now |-> b, read |-> b, rounds |-> pit.rounds + round]
    BY <1>3 DEF Clocks!timer_ticks_ms, TimerOk
  <2>8. timer' = [ms |-> timer.ms + total \div PerMs, remainder |-> total % PerMs,
                  last |-> Clocks!Counter]
    BY <1>3 DEF Clocks!timer_ticks_ms
  <2> HIDE DEF round, elapsed
  <2>9. /\ pit'.now = pit.now /\ pit'.read = pit.now /\ pit'.rounds = pit.rounds + round
        /\ pit' \in [now : Nat, read : Nat, rounds : Nat]
    BY <2>1, <2>4, <2>7
  <2> HIDE DEF a, b
  <2>10. /\ timer'.ms = timer.ms + total \div PerMs /\ timer'.remainder = total % PerMs
         /\ timer'.last = Clocks!Counter /\ timer' \in [ms : Nat, remainder : Nat, last : Int]
    BY <2>1, <2>2, <2>6, <2>8
  <2>11. Clocks!UptimeIsCycles'
    <3>1. timer.ms * PerMs + timer.remainder = a - pit.rounds * Reload
      BY DEF TimerOk, Clocks!UptimeIsCycles, a
    <3>2. timer'.ms * PerMs + timer'.remainder = timer.ms * PerMs + total
      BY <2>1, <2>6, <2>10
    <3>3. pit'.rounds * Reload = pit.rounds * Reload + Reload * round /\ pit'.read = b
      BY <2>1, <2>4, <2>9 DEF b
    <3> DEFINE m == timer.ms * PerMs
               w == pit.rounds * Reload
               x == Reload * round
    <3>4. m \in Int /\ w \in Int /\ x \in Int
      BY <2>1, <2>4
    <3>5. m + timer.remainder = a - w /\ b - a = x + elapsed
      BY <2>4, <3>1
    <3> HIDE DEF m, w, x
    <3>6. m + (timer.remainder + elapsed) = b - (w + x)
      BY <2>1, <2>4, <3>4, <3>5
    <3>7. timer.ms * PerMs + total = b - (pit.rounds * Reload + Reload * round)
      BY <3>6 DEF m, w, x
    <3>8. QED
      BY <3>2, <3>3, <3>7 DEF Clocks!UptimeIsCycles
  <2>12. QED
    BY <2>1, <2>9, <2>10, <2>11 DEF TimerOk, b
<1>4. QED
  BY <1>1, <1>2, <1>3 DEF Clocks!TimerNext

(* The real time clock                                                     *)
Moment(start, second) == (start + second) % Clocks!SecondsOfDay
Unit(time, unit) ==
    CASE unit = "seconds" -> time % Minute
      [] unit = "minutes" -> (time \div Minute) % Hour
      [] unit = "hours" -> time \div (Minute * Hour)
Now == Moment(rtc.start, rtc.gone)

Reads == [seconds |-> 0, minutes |-> 1, hours |-> 2]

RtcType(r) ==
    /\ DOMAIN r = {"start", "gone", "binary", "updating", "notice"}
    /\ r.start \in Starts /\ r.gone \in 0 .. MaxSeconds /\ r.binary \in BOOLEAN
    /\ r.updating \in BOOLEAN /\ r.notice \in 0 .. Notice

Times == [seconds : Nat, minutes : Nat, hours : Nat]
ReaderType(r) ==
    /\ DOMAIN r = {"at", "time", "called"} /\ r.at \in {"idle", "wait", "seconds", "minutes", "hours"}
    /\ r.time \in Times /\ r.called \in 0 .. MaxSeconds

Readings == [second : Nat, from : 0 .. MaxSeconds, to : 0 .. MaxSeconds]

(* The registers are of one second for as long as they are read: the flag  *)
(* was down before the first, and is not up for long enough.               *)
RtcOk ==
    /\ RtcType(rtc) /\ ReaderType(reader) /\ began \in Readings /\ latest \in Readings
    /\ ~rtc.updating => rtc.notice = 0
    /\ rtc.updating => rtc.gone < MaxSeconds
    /\ reader.at \in DOMAIN Clocks!After => rtc.notice <= Reads[reader.at]
    /\ reader.at \in {"minutes", "hours"} => reader.time.seconds = Unit(Now, "seconds")
    /\ reader.at = "hours" => reader.time.minutes = Unit(Now, "minutes")
    /\ latest.to <= rtc.gone /\ latest.from <= latest.to
    /\ reader.at # "idle" => latest.to <= reader.called /\ reader.called <= rtc.gone
    /\ began.to <= latest.to /\ began.from <= began.to
    /\ latest.second = Moment(rtc.start, latest.to)
    /\ began.second = Moment(rtc.start, began.to)

LEMMA DayFacts ==
    /\ Minute \in Nat \ {0} /\ Hour \in Nat \ {0} /\ Day \in Nat \ {0} /\ Minute * Hour \in Nat \ {0}
    /\ Clocks!SecondsOfDay \in Nat \ {0} /\ MaxSeconds \in Nat
    /\ MaxSeconds < Clocks!SecondsOfDay /\ Notice \in Nat /\ Notice >= 3
    /\ \A s \in Starts : s \in Nat /\ s < Clocks!SecondsOfDay
<1>1. \A a, b \in Nat \ {0} : a * b \in Nat \ {0}
  OBVIOUS
<1>2. Minute * Hour \in Nat \ {0} /\ Clocks!SecondsOfDay \in Nat \ {0}
  BY <1>1, ClockAssumption DEF ClockAssumption, Clocks!SecondsOfDay
<1>3. QED
  BY <1>2, ClockAssumption DEF ClockAssumption

(* Seconds, minutes and hours make the time they were taken of.            *)
LEMMA UnitsMakeTime ==
    ASSUME NEW M \in Nat \ {0}, NEW H \in Nat \ {0}, NEW n \in Nat
    PROVE  n = (n \div (M * H)) * M * H + ((n \div M) % H) * M + (n % M)
<1> DEFINE a == n \div M
           s == n % M
           h == a \div H
           m == a % H
<1>1. /\ n = M * a + s /\ a \in Nat /\ s \in Nat /\ s < M
  BY Division
<1>2. a = H * h + m /\ h \in Nat /\ m \in Nat /\ m < H
  BY <1>1, Division
<1> HIDE DEF a, s, h, m
<1>3. M * H \in Nat \ {0} /\ M * a = (M * H) * h + M * m /\ M * m \in Nat
  <2>1. \A i, j \in Nat \ {0} : i * j \in Nat \ {0}
    OBVIOUS
  <2>2. \A i, j \in Nat : i * j \in Nat
    OBVIOUS
  <2>3. M * a = M * (H * h + m)
    BY <1>2
  <2>4. M * (H * h + m) = (M * H) * h + M * m
    BY <1>2
  <2>5. QED
    BY <1>2, <2>1, <2>2, <2>3, <2>4
<1>4. M * m + s < M * H
  <2>1. M * (H - m) >= M
    BY <1>2, Multiple
  <2>2. M * (H - m) = M * H - M * m
    BY <1>2
  <2>3. QED
    BY <1>1, <1>3, <2>1, <2>2
<1>5. n = (M * H) * h + (M * m + s) /\ M * m + s \in Nat
  BY <1>1, <1>2, <1>3
<1>6. n \div (M * H) = h
  <2> DEFINE r == M * m + s
  <2> HIDE DEF r
  <2>1. r \in Nat /\ r < M * H /\ n = (M * H) * h + r /\ h \in Int
    BY <1>2, <1>4, <1>5 DEF r
  <2>2. QED
    BY <1>3, <2>1, DivisionUnique
<1>7. n = h * M * H + m * M + s
  <2>1. h * M * H = (M * H) * h /\ m * M = M * m /\ (M * H) * h \in Int
    BY <1>2, <1>3
  <2>2. n = ((M * H) * h + M * m) + s
    BY <1>1, <1>3, <1>5, <2>1
  <2>3. QED
    BY <2>1, <2>2
<1>8. QED
  BY <1>6, <1>7 DEF a, s, m

LEMMA MomentFacts ==
    ASSUME RtcOk, NEW t \in 0 .. MaxSeconds
    PROVE  Moment(rtc.start, t) \in Nat /\ Moment(rtc.start, t) < Clocks!SecondsOfDay /\ rtc.start + t \in Nat
<1>1. rtc.start \in Starts
  BY DEF RtcOk, RtcType
<1>2. rtc.start + t \in Nat
  <2>1. rtc.start \in Nat
    BY <1>1, DayFacts
  <2>2. t \in Nat
    BY DayFacts
  <2>3. QED
    BY <2>1, <2>2
<1>3. QED
  BY <1>2, DayFacts, Division DEF Moment

LEMMA Registers ==
    ASSUME RtcOk, NEW unit \in DOMAIN Clocks!After
    PROVE  Clocks!Decoded(Clocks!Register(unit)) = Unit(Now, unit) /\ Unit(Now, unit) \in Nat
<1>1. rtc.gone \in 0 .. MaxSeconds /\ rtc.binary \in BOOLEAN
  BY DEF RtcOk, RtcType
<1>2. Now \in Nat
  BY <1>1, MomentFacts DEF Now
<1>3. Unit(Now, unit) \in Nat
  <2>1. unit \in {"seconds", "minutes", "hours"}
    BY DEF Clocks!After
  <2>2. /\ Now % Minute \in Nat /\ Now \div Minute \in Nat
        /\ Now \div (Minute * Hour) \in Nat
    BY <1>2, DayFacts, Division
  <2>3. (Now \div Minute) % Hour \in Nat
    BY <2>2, DayFacts, Division
  <2>4. QED
    BY <2>1, <2>2, <2>3 DEF Unit
<1>4. Clocks!Register(unit) = IF rtc.binary THEN Unit(Now, unit)
                              ELSE (Unit(Now, unit) \div 10) * 16 + (Unit(Now, unit) % 10)
  BY DEF Clocks!Register, Unit, Now, Moment
<1>5. \A v \in Nat : LET d == (v \div 10) * 16 + (v % 10) IN (d % 16) + (d \div 16) * 10 = v
  OBVIOUS
<1>6. QED
  BY <1>3, <1>4, <1>5 DEF Clocks!Decoded

(* What a wait takes to have elapsed has.                                  *)
LEMMA ElapsedIsDifference ==
    ASSUME RtcOk
    PROVE  Clocks!ElapsedSeconds(began.second, latest.second) = latest.to - began.to
<1> DEFINE a == rtc.start + began.to
           b == rtc.start + latest.to
           R == Clocks!SecondsOfDay
<1>1. /\ R \in Nat \ {0} /\ a \in Nat /\ b \in Nat /\ a <= b /\ b - a = latest.to - began.to
      /\ b - a < R /\ began.second = a % R /\ latest.second = b % R
  <2>1. began.to \in 0 .. MaxSeconds /\ latest.to \in 0 .. MaxSeconds /\ rtc.start \in Starts
    BY DEF RtcOk, RtcType, Readings
  <2>2. /\ began.to \in Nat /\ latest.to \in Nat /\ rtc.start \in Nat /\ latest.to <= MaxSeconds
        /\ R \in Nat \ {0} /\ MaxSeconds \in Nat /\ MaxSeconds < R
    <3> HIDE DEF R
    <3>1. MaxSeconds \in Nat /\ R \in Nat \ {0} /\ MaxSeconds < R
      BY DayFacts DEF R
    <3>2. rtc.start \in Nat
      BY <2>1, DayFacts
    <3>3. QED
      BY <2>1, <3>1, <3>2
  <2>3. began.to <= latest.to /\ latest.second = b % R /\ began.second = a % R
    BY DEF RtcOk, Moment
  <2> HIDE DEF R
  <2>4. QED
    BY <2>2, <2>3
<1> HIDE DEF a, b, R
<1>2. /\ a % R \in Nat /\ b % R \in Nat /\ b - a \in Nat /\ (b - a) % R = b - a
  <2>1. b - a \in Nat /\ b - a = R * 0 + (b - a)
    BY <1>1
  <2>2. (b - a) % R = b - a
    BY <1>1, <2>1, DivisionUnique
  <2>3. QED
    BY <1>1, <2>1, <2>2, Division
<1>3. (b - a) % R = IF a % R <= b % R THEN (b % R) - (a % R) ELSE ((b % R) + R) - (a % R)
  BY <1>1, RoundDifference
<1>4. Clocks!ElapsedSeconds(a % R, b % R) = (b - a) % R
  BY <1>1, <1>2, <1>3 DEF Clocks!ElapsedSeconds, R
<1>5. QED
  BY <1>1, <1>2, <1>4

LEMMA RtcStep ==
    ASSUME RtcOk, [Clocks!RtcNext]_rtcVars
    PROVE  RtcOk'
<1>1. /\ RtcType(rtc) /\ ReaderType(reader) /\ began \in Readings /\ latest \in Readings
      /\ Notice \in Nat /\ Notice >= 3 /\ MaxSeconds \in Nat
      /\ rtc.gone \in Nat /\ rtc.gone <= MaxSeconds /\ rtc.notice \in Nat
      /\ reader.called \in Nat /\ latest.to \in Nat /\ began.to \in Nat
  <2>1. Notice \in Nat /\ Notice >= 3 /\ MaxSeconds \in Nat
    BY DayFacts
  <2>2. RtcType(rtc) /\ ReaderType(reader) /\ began \in Readings /\ latest \in Readings
    BY DEF RtcOk
  <2>3. QED
    BY <2>1, <2>2 DEF RtcType, ReaderType, Readings
(* The device moves; the reader, if it is under way, is not affected. *)
<1>2. ASSUME UNCHANGED <<reader, began, latest>>, RtcType(rtc'), rtc'.start = rtc.start,
             rtc.gone <= rtc'.gone, rtc'.binary = rtc.binary,
             reader.at \in DOMAIN Clocks!After => rtc'.gone = rtc.gone /\ rtc'.notice <= Reads[reader.at],
             ~rtc'.updating => rtc'.notice = 0, rtc'.updating => rtc'.gone < MaxSeconds
      PROVE  RtcOk'
  <2>1. rtc'.start = rtc.start /\ rtc'.gone \in Nat
    BY <1>1, <1>2 DEF RtcType
  <2>2. reader.at \in DOMAIN Clocks!After => Now' = Now
    BY <1>2 DEF Now
  <2>3. /\ latest.to <= rtc'.gone
        /\ reader.at # "idle" => reader.called <= rtc'.gone
    BY <1>1, <1>2, <2>1 DEF RtcOk
  <2>4. /\ latest'.second = Moment(rtc'.start, latest'.to) /\ began'.second = Moment(rtc'.start, began'.to)
    BY <1>2, <2>1 DEF RtcOk
  <2>5. /\ reader'.at \in {"minutes", "hours"} => reader'.time.seconds = Unit(Now', "seconds")
        /\ reader'.at = "hours" => reader'.time.minutes = Unit(Now', "minutes")
    BY <1>2, <2>2 DEF RtcOk, Clocks!After
  <2>6. QED
    BY <1>1, <1>2, <2>3, <2>4, <2>5 DEF RtcOk
<1>3. CASE Clocks!FlagRises
  <2>1. rtc' = [rtc EXCEPT !.updating = TRUE, !.notice = 0] /\ rtc.gone < MaxSeconds
        /\ UNCHANGED <<reader, began, latest>>
    BY <1>1, <1>3 DEF Clocks!FlagRises
  <2>2. /\ RtcType(rtc') /\ rtc'.start = rtc.start /\ rtc'.gone = rtc.gone /\ rtc'.binary = rtc.binary
        /\ rtc'.notice = 0 /\ rtc'.updating
    BY <1>1, <2>1 DEF RtcType
  <2>3. reader.at \in DOMAIN Clocks!After => 0 <= Reads[reader.at]
    BY DEF Reads, Clocks!After
  <2>4. rtc.gone <= rtc'.gone /\ rtc'.gone < MaxSeconds
    BY <1>1, <2>1, <2>2
  <2>5. QED
    BY <1>2, <2>1, <2>2, <2>3, <2>4
<1>4. CASE Clocks!MomentGoesBy
  <2>1. rtc' = [rtc EXCEPT !.notice = @ + 1] /\ rtc.updating /\ rtc.notice < Notice
        /\ reader.at \in {"idle", "wait"} /\ UNCHANGED <<reader, began, latest>>
    BY <1>4 DEF Clocks!MomentGoesBy
  <2>2. /\ RtcType(rtc') /\ rtc'.start = rtc.start /\ rtc'.gone = rtc.gone /\ rtc'.binary = rtc.binary
        /\ rtc'.updating /\ rtc.gone \in Nat
    <3>1. rtc.notice + 1 \in 0 .. Notice
      BY <1>1, <2>1
    <3>2. QED
      BY <1>1, <2>1, <3>1 DEF RtcType
  <2>3. reader.at \notin DOMAIN Clocks!After
    BY <2>1 DEF Clocks!After
  <2>4. QED
    BY <1>2, <2>1, <2>2, <2>3 DEF RtcOk
<1>5. CASE Clocks!Update
  <2>1. rtc' = [rtc EXCEPT !.updating = FALSE, !.notice = 0, !.gone = @ + 1]
        /\ rtc.updating /\ rtc.notice = Notice /\ UNCHANGED <<reader, began, latest>>
    BY <1>5 DEF Clocks!Update
  <2>2. rtc.gone < MaxSeconds /\ rtc.gone \in Nat
    BY <1>1, <2>1 DEF RtcOk
  <2>3. /\ RtcType(rtc') /\ rtc'.start = rtc.start /\ rtc'.gone = rtc.gone + 1
        /\ rtc'.binary = rtc.binary /\ rtc'.notice = 0 /\ rtc'.updating = FALSE
    BY <1>1, <2>1, <2>2 DEF RtcType
  <2>4. reader.at \notin DOMAIN Clocks!After
    BY <1>1, <2>1 DEF RtcOk, Reads, Clocks!After
  <2>5. QED
    BY <1>2, <2>1, <2>2, <2>3, <2>4
<1>6. ASSUME NEW begins \in BOOLEAN, Clocks!Call(begins)
      PROVE  RtcOk'
  <2>1. /\ reader.at = "idle" /\ reader' = [reader EXCEPT !.at = "wait", !.called = rtc.gone]
        /\ began' = (IF begins THEN latest ELSE began) /\ UNCHANGED <<rtc, latest>>
    BY <1>6 DEF Clocks!Call
  <2>2. ReaderType(reader') /\ reader'.at = "wait" /\ reader'.called = rtc.gone
    BY <1>1, <2>1 DEF RtcType, ReaderType
  <2>3. rtc' = rtc
    BY <2>1
  <2>4. /\ began' \in Readings /\ began'.to <= latest.to /\ began'.from <= began'.to
        /\ began'.second = Moment(rtc'.start, began'.to)
    BY <1>1, <2>1, <2>3 DEF RtcOk
  <2>5. latest'.second = Moment(rtc'.start, latest'.to) /\ latest' = latest
    BY <2>1, <2>3 DEF RtcOk
  <2>6. QED
    BY <1>1, <2>1, <2>2, <2>4, <2>5 DEF RtcOk, Clocks!After
<1>7. CASE Clocks!WaitEnds
  <2>1. /\ reader.at = "wait" /\ ~rtc.updating /\ reader' = [reader EXCEPT !.at = "seconds"]
        /\ UNCHANGED <<rtc, began, latest>>
    BY <1>7 DEF Clocks!WaitEnds, Clocks!MayRead
  <2>2. ReaderType(reader') /\ reader'.at = "seconds" /\ reader'.called = reader.called
    BY <1>1, <2>1 DEF ReaderType
  <2>3. rtc' = rtc
    BY <2>1
  <2>4. latest'.second = Moment(rtc'.start, latest'.to) /\ began'.second = Moment(rtc'.start, began'.to)
    BY <2>1, <2>3 DEF RtcOk
  <2>5. rtc'.notice <= Reads["seconds"]
    BY <2>1 DEF RtcOk, Reads
  <2>6. QED
    BY <1>1, <2>1, <2>2, <2>4, <2>5 DEF RtcOk
<1>8. CASE Clocks!ReadRegister
  <2> DEFINE at == reader.at
             value == Clocks!Decoded(Clocks!Register(at))
             time == [reader.time EXCEPT ![at] = value]
  <2>1. /\ at \in DOMAIN Clocks!After /\ UNCHANGED began
        /\ reader' = [reader EXCEPT !.at = Clocks!After[at], !.time = time]
        /\ latest' = IF at = "hours" THEN Clocks!Reading(Clocks!SecondOf(time), reader.called, rtc.gone)
                     ELSE latest
        /\ rtc' = [rtc EXCEPT !.notice = IF rtc.updating /\ @ < Notice THEN @ + 1 ELSE @]
    BY <1>8 DEF Clocks!ReadRegister
  <2>2. at \in {"seconds", "minutes", "hours"}
    BY <2>1 DEF Clocks!After
  <2>3. value = Unit(Now, at) /\ value \in Nat
    BY <2>1, Registers
  <2> HIDE DEF value
  <2>4. time \in Times /\ time[at] = value /\ \A u \in {"seconds", "minutes", "hours"} : u # at => time[u] = reader.time[u]
    BY <1>1, <2>2, <2>3 DEF ReaderType, Times
  <2> HIDE DEF time
  <2>5. /\ ReaderType(reader') /\ reader'.at = Clocks!After[at] /\ reader'.time = time
        /\ reader'.called = reader.called
    BY <1>1, <2>1, <2>2, <2>4 DEF Clocks!After, ReaderType
  <2>6. /\ RtcType(rtc') /\ rtc'.start = rtc.start /\ rtc'.gone = rtc.gone /\ rtc'.binary = rtc.binary
        /\ rtc'.updating = rtc.updating /\ rtc.notice \in Nat /\ rtc'.notice <= rtc.notice + 1
        /\ ~rtc.updating => rtc'.notice = rtc.notice
    BY <1>1, <2>1 DEF RtcType
  <2>7. rtc'.start = rtc.start /\ Now' = Now
    BY <2>6 DEF Now
  <2>9. began'.second = Moment(rtc'.start, began'.to) /\ rtc.gone \in Nat
    BY <1>1, <2>1, <2>7 DEF RtcOk
  <2>10. latest.to <= reader.called /\ reader.called <= rtc.gone
    BY <2>2 DEF RtcOk
  <2>11. CASE at = "seconds"
    <3>1. reader'.at = "minutes" /\ time.seconds = Unit(Now, "seconds") /\ latest' = latest
      BY <2>1, <2>3, <2>4, <2>5, <2>11 DEF Clocks!After
    <3>2. rtc'.notice <= Reads["minutes"]
      BY <2>1, <2>6, <2>11 DEF RtcOk, Reads
    <3>3. latest'.second = Moment(rtc'.start, latest'.to)
      BY <2>7, <3>1 DEF RtcOk
    <3>4. QED
      BY <1>1, <2>1, <2>5, <2>6, <2>7, <2>9, <2>10, <3>1, <3>2, <3>3 DEF RtcOk
  <2>12. CASE at = "minutes"
    <3>1. /\ reader'.at = "hours" /\ time.minutes = Unit(Now, "minutes") /\ time.seconds = Unit(Now, "seconds")
          /\ latest' = latest
      BY <2>1, <2>3, <2>4, <2>5, <2>12 DEF Clocks!After, RtcOk
    <3>2. rtc'.notice <= Reads["hours"]
      BY <2>1, <2>6, <2>12 DEF RtcOk, Reads
    <3>3. latest'.second = Moment(rtc'.start, latest'.to)
      BY <2>7, <3>1 DEF RtcOk
    <3>4. QED
      BY <1>1, <2>1, <2>5, <2>6, <2>7, <2>9, <2>10, <3>1, <3>2, <3>3 DEF RtcOk
  <2>13. CASE at = "hours"
    <3> DEFINE now == Now
    <3>1. /\ reader'.at = "idle" /\ time.hours = Unit(Now, "hours") /\ time.minutes = Unit(Now, "minutes")
          /\ time.seconds = Unit(Now, "seconds")
          /\ latest' = Clocks!Reading(Clocks!SecondOf(time), reader.called, rtc.gone)
      BY <2>1, <2>3, <2>4, <2>5, <2>13 DEF Clocks!After, RtcOk
    <3>2. now \in Nat
      BY <1>1, MomentFacts DEF Now, RtcType
    <3>3. Clocks!SecondOf(time) = now
      <4>1. /\ time.hours = now \div (Minute * Hour) /\ time.minutes = (now \div Minute) % Hour
            /\ time.seconds = now % Minute
        BY <3>1 DEF Unit
      <4>2. now = (now \div (Minute * Hour)) * Minute * Hour + ((now \div Minute) % Hour) * Minute
                  + (now % Minute)
        BY <3>2, DayFacts, UnitsMakeTime
      <4>3. QED
        BY <4>1, <4>2 DEF Clocks!SecondOf
    <3>4. latest' = [second |-> now, from |-> reader.called, to |-> rtc.gone]
      BY <3>1, <3>3 DEF Clocks!Reading
    <3> HIDE DEF now
    <3>5. latest' \in Readings /\ latest'.from <= latest'.to /\ latest'.to = rtc.gone
          /\ latest'.second = now
      <4>1. rtc.gone \in 0 .. MaxSeconds /\ reader.called \in 0 .. MaxSeconds
        BY <1>1 DEF RtcType, ReaderType
      <4>2. QED
        BY <2>10, <3>2, <3>4, <4>1 DEF Readings
    <3>6. latest'.second = Moment(rtc'.start, latest'.to)
      BY <2>7, <3>5 DEF now, Now
    <3>7. began'.to <= latest'.to /\ began'.from <= began'.to
      <4>1. began.to <= latest.to /\ began.from <= began.to
        BY DEF RtcOk
      <4>2. QED
        BY <1>1, <2>1, <2>10, <3>5, <4>1
    <3>8. QED
      BY <1>1, <2>1, <2>5, <2>6, <2>9, <3>1, <3>5, <3>6, <3>7 DEF RtcOk, Clocks!After
  <2>14. QED
    BY <2>2, <2>11, <2>12, <2>13
<1>9. CASE UNCHANGED rtcVars
  <2>1. UNCHANGED <<rtc, reader, began, latest>>
    BY <1>9 DEF rtcVars
  <2>2. QED
    BY <1>1, <1>2, <2>1 DEF RtcOk
<1>10. QED
  BY <1>3, <1>4, <1>5, <1>6, <1>7, <1>8, <1>9 DEF Clocks!RtcNext

(* The uptime is the cycles less the rounds nobody has looked at, and a    *)
(* time of day is of one moment, also over midnight: whatever the reload,  *)
(* the length of a millisecond, the moments the machine is started at and  *)
(* the format of the registers (timer_update_locked, rtc_read_time,        *)
(* transport_elapsed_seconds).                                             *)
THEOREM ClocksDoKeepTime == Spec => []ClocksKeepTime
<1>1. Init => TimerOk /\ RtcOk
  <2> SUFFICES ASSUME Clocks!TimerInit, Clocks!RtcInit PROVE TimerOk /\ RtcOk
    BY DEF Init
  <2>1. TimerOk
    <3>1. 0 % Reload = 0 /\ 0 * Reload = 0 /\ 0 * PerMs = 0 /\ Reload \in Nat
      BY ClockAssumption, DivisionUnique DEF ClockAssumption
    <3>2. QED
      BY <3>1 DEF TimerOk, Clocks!TimerInit, Clocks!UptimeIsCycles
  <2>2. RtcOk
    <3> DEFINE first == Clocks!Reading(rtc.start, 0, 0)
    <3>1. /\ rtc \in [start : Starts, gone : {0}, binary : BOOLEAN, updating : {FALSE}, notice : {0}]
          /\ reader = [at |-> "idle", time |-> Clocks!NoTime, called |-> 0]
          /\ began = first /\ latest = first
      BY DEF Clocks!RtcInit
    <3>2. /\ rtc.start \in Starts /\ rtc.gone = 0 /\ ~rtc.updating /\ rtc.notice = 0
          /\ rtc.start \in Nat /\ rtc.start < Clocks!SecondsOfDay
      BY <3>1, DayFacts
    <3>3. Moment(rtc.start, 0) = rtc.start
      <4>1. rtc.start = Clocks!SecondsOfDay * 0 + rtc.start
        BY <3>2, DayFacts
      <4>2. rtc.start % Clocks!SecondsOfDay = rtc.start
        BY <3>2, <4>1, DayFacts, DivisionUnique
      <4>3. rtc.start + 0 = rtc.start
        BY <3>2
      <4>4. QED
        BY <4>2, <4>3 DEF Moment
    <3>4. first.second = rtc.start /\ first.from = 0 /\ first.to = 0
          /\ first \in Readings
      BY <3>2, DayFacts DEF Clocks!Reading, Readings
    <3>5. RtcType(rtc)
      <4>1. DOMAIN rtc = {"start", "gone", "binary", "updating", "notice"}
        BY <3>1
      <4>2. rtc.binary \in BOOLEAN /\ rtc.updating \in {FALSE}
        BY <3>1
      <4>3. 0 \in 0 .. MaxSeconds /\ 0 \in 0 .. Notice
        BY DayFacts
      <4>4. QED
        BY <3>2, <4>1, <4>2, <4>3 DEF RtcType
    <3>6. ReaderType(reader) /\ reader.at = "idle"
      BY <3>1, DayFacts DEF ReaderType, Times, Clocks!NoTime
    <3> HIDE DEF first
    <3>7. QED
      BY <3>1, <3>2, <3>3, <3>4, <3>5, <3>6 DEF RtcOk, Clocks!After
  <2>3. QED
    BY <2>1, <2>2
<1>2. TimerOk /\ RtcOk /\ [Next]_partsVars => TimerOk' /\ RtcOk'
  BY PartsMove, TimerStep, RtcStep
<1>3. RtcOk => Clocks!TimeIsOneMoment
  <2> SUFFICES ASSUME RtcOk PROVE Clocks!TimeIsOneMoment
    OBVIOUS
  <2>1. /\ latest.to \in latest.from .. latest.to /\ began.to \in began.from .. began.to
        /\ latest.second = Moment(rtc.start, latest.to)
    BY DEF RtcOk, Readings
  <2>2. QED
    BY <2>1, ElapsedIsDifference DEF Clocks!TimeIsOneMoment, Moment
<1>4. TimerOk /\ RtcOk => ClocksKeepTime
  BY <1>3 DEF ClocksKeepTime, TimerOk
<1>5. QED
  BY <1>1, <1>2, <1>4, PTL DEF Spec

-----------------------------------------------------------------------------
(* Tic-tac-toe                                                             *)
LEMMA SameCardinality ==
    ASSUME NEW S
    PROVE  Arcade!Cardinality(S) = Cardinality(S)
BY DEF Arcade!Cardinality, Cardinality, Arcade!IsFiniteSet, IsFiniteSet

Cells == [Arcade!Squares -> {0, 1, 2}]
Marks(cells, p) == Cardinality({q \in Arcade!Squares : cells[q] = p})

Boards == [cells : Cells, turn : {1, 2}, winner : {0, 1, 2}, draw : BOOLEAN]

(* VerdictIsRight of a board *)
Judged(b) ==
    /\ Marks(b.cells, 1) = Marks(b.cells, 2) + (IF b.turn = 1 THEN 0 ELSE 1)
    /\ b.winner = IF Arcade!HasLine(b.cells, 3 - b.turn) THEN 3 - b.turn ELSE 0
    /\ ~Arcade!HasLine(b.cells, b.turn)
    /\ b.draw <=> Arcade!Full(b.cells) /\ b.winner = 0

LEMMA VerdictIsJudged == Arcade!VerdictIsRight <=> Judged(ttt)
BY SameCardinality DEF Arcade!VerdictIsRight, Judged, Marks

BoardOk == ttt \in Boards /\ Judged(ttt)

LEMMA MarksCounted ==
    ASSUME NEW cells \in Cells, NEW q \in Arcade!Squares, cells[q] = 0, NEW p \in {1, 2}
    PROVE  LET after == [cells EXCEPT ![q] = p]
           IN  /\ after \in Cells
               /\ \A o \in {1, 2} : Marks(cells, o) \in Nat
               /\ Marks(after, p) = Marks(cells, p) + 1
               /\ Marks(after, 3 - p) = Marks(cells, 3 - p)
<1> DEFINE after == [cells EXCEPT ![q] = p]
           Of(o) == {r \in Arcade!Squares : cells[r] = o}
<1>1. \A o \in {1, 2} : IsFiniteSet(Of(o)) /\ Cardinality(Of(o)) \in Nat
  <2>1. IsFiniteSet(Arcade!Squares)
    <3>1. 0 \in Int /\ 8 \in Int
      OBVIOUS
    <3>2. IsFiniteSet(0 .. 8)
      BY <3>1, FS_Interval, Zenon
    <3>3. QED
      BY <3>2 DEF Arcade!Squares
  <2>2. SUFFICES ASSUME NEW o \in {1, 2}
                 PROVE  IsFiniteSet(Of(o)) /\ Cardinality(Of(o)) \in Nat
    OBVIOUS
  <2>3. Of(o) \subseteq Arcade!Squares
    OBVIOUS
  <2>4. IsFiniteSet(Of(o))
    BY <2>1, <2>3, FS_Subset
  <2>5. QED
    BY <2>4, FS_CardinalityType
<1>2. {r \in Arcade!Squares : after[r] = p} = Of(p) \cup {q} /\ q \notin Of(p)
  BY DEF Cells
<1>3. {r \in Arcade!Squares : after[r] = 3 - p} = Of(3 - p)
  BY DEF Cells
<1>4. Cardinality(Of(p) \cup {q}) = Cardinality(Of(p)) + 1
  BY <1>1, <1>2, FS_AddElement
<1>5. after \in Cells
  BY DEF Cells
<1>6. QED
  BY <1>1, <1>2, <1>3, <1>4, <1>5 DEF Marks

(* A mark makes no line of the other player. *)
LEMMA LineIsOwn ==
    ASSUME NEW cells \in Cells, NEW q \in Arcade!Squares, NEW p \in {1, 2},
           ~Arcade!HasLine(cells, 3 - p)
    PROVE  ~Arcade!HasLine([cells EXCEPT ![q] = p], 3 - p)
<1>1. SUFFICES ASSUME NEW n \in DOMAIN Arcade!Lines,
                      \A r \in Arcade!Lines[n] : [cells EXCEPT ![q] = p][r] = 3 - p
               PROVE  FALSE
  BY DEF Arcade!HasLine
<1>2. \A r \in Arcade!Lines[n] : cells[r] = 3 - p
  <2>1. SUFFICES ASSUME NEW r \in Arcade!Lines[n] PROVE cells[r] = 3 - p
    OBVIOUS
  <2>2. [cells EXCEPT ![q] = p][r] = 3 - p /\ 3 - p # p
    BY <1>1
  <2>3. QED
    BY <2>2 DEF Cells
<1>3. QED
  BY <1>2 DEF Arcade!HasLine

LEMMA EmptyBoardOk ==
    ASSUME NEW b, b = Arcade!EmptyBoard
    PROVE  b \in Boards /\ Judged(b)
<1>1. \A q \in Arcade!Squares : b.cells[q] = 0
  BY DEF Arcade!EmptyBoard
<1>2. \A p \in {1, 2} : ~Arcade!HasLine(b.cells, p)
  BY <1>1 DEF Arcade!HasLine, Arcade!Lines, Arcade!Squares
<1>3. \A p \in {1, 2} : Marks(b.cells, p) = 0
  <2>1. \A p \in {1, 2} : {q \in Arcade!Squares : b.cells[q] = p} = {}
    BY <1>1
  <2>2. QED
    BY <2>1, FS_EmptySet DEF Marks
<1>4. b.turn = 1 /\ b.winner = 0 /\ ~b.draw /\ ~Arcade!Full(b.cells) /\ b \in Boards
  BY <1>1 DEF Arcade!EmptyBoard, Boards, Cells, Arcade!Full, Arcade!Squares
<1>5. QED
  BY <1>2, <1>3, <1>4 DEF Judged

Board(c, n, w, d) == [cells |-> c, turn |-> n, winner |-> w, draw |-> d]
Passed(b, c, n) == [b EXCEPT !.cells = c, !.turn = n]

LEMMA PassedBoard ==
    \A oc, on, w, d, c, n : Passed(Board(oc, on, w, d), c, n) = Board(c, n, w, d)
<1> TAKE oc, on, w, d, c, n
<1> DEFINE b == Board(oc, on, w, d)
           marked == [b EXCEPT !.cells = c]
           passed == [marked EXCEPT !.turn = n]
<1>1. marked = Board(c, on, w, d)
  BY DEF Board
<1>2. passed = Passed(b, c, n)
  BY DEF Passed
<1> HIDE DEF marked
<1>3. passed = Board(c, n, w, d)
  BY <1>1 DEF Board
<1>4. QED
  BY <1>2, <1>3

LEMMA BoardStep ==
    ASSUME BoardOk, [Arcade!BoardNext]_boardVars
    PROVE  BoardOk'
<1>1. CASE UNCHANGED ttt
  BY <1>1 DEF BoardOk
<1>2. CASE ttt' = Arcade!EmptyBoard
  BY <1>2, EmptyBoardOk DEF BoardOk
<1>3. ASSUME NEW q \in Arcade!Squares, Arcade!Mark(q)
      PROVE  BoardOk'
  <2> DEFINE p == ttt.turn
             cells == [ttt.cells EXCEPT ![q] = p]
             t == [ttt EXCEPT !.cells[q] = p, !.turn = 3 - @]
  <2>1. /\ ttt' = Arcade!WithVerdict(t) /\ ttt.winner = 0 /\ ~ttt.draw /\ ttt.cells[q] = 0
        /\ ttt.cells \in Cells /\ p \in {1, 2} /\ 3 - p \in {1, 2} /\ 3 - (3 - p) = p
    BY <1>3 DEF BoardOk, Boards, Arcade!Mark
  <2>2. t = [cells |-> cells, turn |-> 3 - p, winner |-> 0, draw |-> FALSE]
    <3>1. PICK c \in Cells, n \in {1, 2}, d \in BOOLEAN : ttt = Board(c, n, 0, d) /\ ~d
      BY <2>1 DEF BoardOk, Boards, Board
    <3>2. ttt.cells = c /\ ttt.turn = n
      BY <3>1 DEF Board
    <3>3. t = Passed(ttt, cells, 3 - n)
      BY <3>1, <3>2 DEF Passed
    <3> HIDE DEF t, cells
    <3>4. t = Board(cells, 3 - n, 0, d)
      BY <3>1, <3>3, PassedBoard
    <3>5. QED
      BY <3>1, <3>2, <3>4 DEF Board
  <2>3. /\ ~Arcade!HasLine(ttt.cells, 3 - p)
        /\ Marks(ttt.cells, 1) = Marks(ttt.cells, 2) + (IF p = 1 THEN 0 ELSE 1)
    BY <2>1 DEF BoardOk, Judged
  <2>4. /\ cells \in Cells /\ Marks(ttt.cells, 1) \in Nat /\ Marks(ttt.cells, 2) \in Nat
        /\ Marks(cells, p) = Marks(ttt.cells, p) + 1
        /\ Marks(cells, 3 - p) = Marks(ttt.cells, 3 - p)
    BY <2>1, MarksCounted
  <2>5. ~Arcade!HasLine(cells, 3 - p)
    BY <2>1, <2>3, LineIsOwn
  <2> HIDE DEF cells, t
  <2>6. Marks(cells, 1) = Marks(cells, 2) + (IF 3 - p = 1 THEN 0 ELSE 1)
    BY <2>1, <2>3, <2>4
  <2>7. CASE Arcade!HasLine(cells, p)
    <3>1. \A o \in {1, 2} : Arcade!HasLine(cells, o) <=> o = p
      BY <2>1, <2>5, <2>7
    <3>2. (CHOOSE o \in {1, 2} : Arcade!HasLine(cells, o)) = p
      BY <2>1, <3>1
    <3>3. ttt' = [cells |-> cells, turn |-> 3 - p, winner |-> p, draw |-> FALSE]
      BY <2>1, <2>2, <2>7, <3>2 DEF Arcade!WithVerdict
    <3>4. QED
      BY <2>1, <2>4, <2>5, <2>6, <2>7, <3>3 DEF BoardOk, Boards, Judged
  <2>8. CASE ~Arcade!HasLine(cells, p)
    <3>1. ~(\E o \in {1, 2} : Arcade!HasLine(cells, o))
      BY <2>1, <2>5, <2>8
    <3>2. ttt' = [cells |-> cells, turn |-> 3 - p, winner |-> 0, draw |-> Arcade!Full(cells)]
      BY <2>1, <2>2, <3>1 DEF Arcade!WithVerdict
    <3>3. QED
      BY <2>1, <2>4, <2>5, <2>6, <2>8, <3>2 DEF BoardOk, Boards, Judged, Arcade!Full
  <2>9. QED
    BY <2>7, <2>8
<1>4. QED
  BY <1>1, <1>2, <1>3 DEF Arcade!BoardNext, Arcade!ShowScreen, Arcade!ResetBoard, boardVars

(* The snake, in any number of cells.                                      *)
InPiece(b) ==
    /\ b \in Seq(Arcade!Grid) /\ Len(b) >= 1
    /\ \A j, k \in 1 .. Len(b) : b[j] = b[k] => j = k
    /\ \A k \in 1 .. Len(b) - 1 : Arcade!Beside(b[k], b[k + 1])

SnakeBody(s) ==
    /\ DOMAIN s = {"body", "dir", "food", "score", "over"}
    /\ s.dir \in Arcade!Directions /\ s.score \in Nat /\ s.over \in BOOLEAN /\ s.food \in Arcade!Grid
    /\ InPiece(s.body)
    /\ Len(s.body) = IF Len(FirstBody) + s.score <= Capacity THEN Len(FirstBody) + s.score ELSE Capacity

SnakeOk(s) == SnakeBody(s) /\ \A k \in 1 .. Len(s.body) : s.body[k] # s.food

LEMMA GridFacts ==
    /\ GridWidth \in Nat \ {0} /\ GridHeight \in Nat \ {0} /\ Arcade!TotalCells \in Nat \ {0}
    /\ Arcade!Grid = 0 .. Arcade!TotalCells - 1 /\ Arcade!TotalCells % 5 # 0
    /\ Capacity \in Nat /\ Capacity < Arcade!TotalCells
<1>1. \A a, b \in Nat \ {0} : a * b \in Nat \ {0}
  OBVIOUS
<1>2. Arcade!TotalCells \in Nat \ {0}
  BY <1>1, SnakeAssumption DEF SnakeAssumption, Arcade!TotalCells
<1>3. QED
  BY <1>2, SnakeAssumption DEF SnakeAssumption, Arcade!Grid

(* In steps of five no cell is met twice in a round over the grid.         *)
LEMMA WalkIsInjective ==
    ASSUME NEW N \in Nat \ {0}, N % 5 # 0, NEW seed \in Nat,
           NEW j \in 0 .. N - 1, NEW k \in 0 .. N - 1, j < k,
           (seed + j * 5) % N = (seed + k * 5) % N
    PROVE  FALSE
<1> DEFINE a == seed + j * 5
           b == seed + k * 5
           p == a \div N
           q == b \div N
           r == a % N
           s == b % N
<1>1. a \in Nat /\ b \in Nat /\ b - a = 5 * (k - j) /\ k - j \in 1 .. N - 1
  OBVIOUS
<1>2. /\ a = N * p + r /\ p \in Nat /\ b = N * q + s /\ q \in Nat /\ s = r /\ r \in Nat
  BY <1>1, Division
<1> HIDE DEF a, b, p, q, r, s
<1>3. N * (q - p) = 5 * (k - j)
  <2>1. N * (q - p) = N * q - N * p
    BY <1>2
  <2>2. QED
    BY <1>1, <1>2, <2>1
<1>4. q - p >= 1
  <2>1. SUFFICES ASSUME ~(q - p >= 1) PROVE FALSE
    OBVIOUS
  <2>2. N * (p - q) = -(N * (q - p))
    BY <1>2
  <2>3. CASE q = p
    BY <1>1, <1>2, <1>3, <2>3
  <2>4. CASE p - q >= 1
    BY <1>1, <1>2, <1>3, <2>2, <2>4, Multiple
  <2>5. QED
    BY <1>2, <2>1, <2>3, <2>4
<1>5. q - p <= 4
  <2>1. SUFFICES ASSUME q - p >= 5 PROVE FALSE
    BY <1>2
  <2>2. N * (q - p) = 5 * N + N * ((q - p) - 5) /\ N * ((q - p) - 5) >= 0
    <3>1. (q - p) - 5 \in Nat
      BY <1>2, <2>1
    <3>2. \A x, y \in Nat : x * y \in Nat
      OBVIOUS
    <3>3. QED
      BY <1>2, <3>1, <3>2
  <2>3. N * (q - p) >= 5 * N
    <3> DEFINE e == N * ((q - p) - 5)
    <3>1. e \in Int /\ N * (q - p) = 5 * N + e /\ e >= 0
      BY <1>2, <2>2
    <3> HIDE DEF e
    <3>2. QED
      BY <3>1
  <2>4. 5 * (k - j) < 5 * N
    BY <1>1
  <2>5. 5 * (k - j) >= 5 * N
    BY <1>3, <2>3
  <2>6. QED
    BY <1>1, <2>4, <2>5
<1>6. q - p \in {1, 2, 3, 4}
  BY <1>2, <1>4, <1>5
<1>7. CASE q - p = 1
  BY <1>1, <1>3, <1>7
<1>8. CASE q - p = 2
  BY <1>1, <1>3, <1>8
<1>9. CASE q - p = 3
  BY <1>1, <1>3, <1>9
<1>10. CASE q - p = 4
  BY <1>1, <1>3, <1>10
<1>11. QED
  BY <1>6, <1>7, <1>8, <1>9, <1>10

(* As the snake is shorter than the grid is large, one of them is free.    *)
LEMMA SomeCellIsFree ==
    ASSUME NEW body \in Seq(Arcade!Grid), Len(body) <= Capacity, NEW seed \in Nat
    PROVE  Arcade!FreeOffsets(body, seed) # {}
<1> DEFINE N == Arcade!TotalCells
           walk(k) == (seed + k * 5) % N
           f == [k \in Arcade!Grid |-> CHOOSE i \in 1 .. Len(body) : body[i] = walk(k)]
<1>1. SUFFICES ASSUME Arcade!FreeOffsets(body, seed) = {} PROVE FALSE
  OBVIOUS
<1>2. \A k \in Arcade!Grid : \E i \in 1 .. Len(body) : body[i] = walk(k)
  BY <1>1 DEF Arcade!FreeOffsets, Arcade!Range
<1>3. N \in Nat \ {0} /\ Arcade!Grid = 0 .. N - 1 /\ N % 5 # 0 /\ Len(body) < N /\ Len(body) \in Nat
  BY GridFacts
<1> HIDE DEF N, walk
<1>4. f \in [Arcade!Grid -> 1 .. Len(body)] /\ \A k \in Arcade!Grid : body[f[k]] = walk(k)
  BY <1>2
<1>5. /\ IsFiniteSet(0 .. N - 1) /\ IsFiniteSet(1 .. Len(body))
      /\ Cardinality(0 .. N - 1) = N /\ Cardinality(1 .. Len(body)) = Len(body)
  <2>1. 0 \in Int /\ N - 1 \in Int /\ 1 \in Int /\ Len(body) \in Int
    BY <1>3
  <2>2. /\ IsFiniteSet(0 .. N - 1) /\ Cardinality(0 .. N - 1) = IF 0 > N - 1 THEN 0 ELSE N - 1 - 0 + 1
        /\ IsFiniteSet(1 .. Len(body))
        /\ Cardinality(1 .. Len(body)) = IF 1 > Len(body) THEN 0 ELSE Len(body) - 1 + 1
    BY <2>1, FS_Interval, Zenon
  <2>3. QED
    BY <1>3, <2>2
<1> HIDE DEF f
<1>6. PICK j, k \in Arcade!Grid : j # k /\ f[j] = f[k]
  <2> DEFINE S == 0 .. N - 1
             T == 1 .. Len(body)
  <2>1. f \in [S -> T] /\ IsFiniteSet(S) /\ IsFiniteSet(T) /\ Cardinality(T) < Cardinality(S)
    BY <1>3, <1>4, <1>5
  <2> HIDE DEF S, T
  <2>2. \E x, y \in S : x # y /\ f[x] = f[y]
    BY <2>1, FS_PigeonHole
  <2>3. QED
    BY <1>3, <2>2 DEF S
<1>7. walk(j) = walk(k)
  BY <1>4, <1>6
<1>8. CASE j < k
  BY <1>3, <1>7, <1>8, WalkIsInjective DEF walk
<1>9. CASE k < j
  BY <1>3, <1>7, <1>9, WalkIsInjective DEF walk
<1>10. QED
  BY <1>3, <1>6, <1>8, <1>9

(* Where the head goes: beside where it was, on the grid.                  *)
LEMMA HeadFacts ==
    ASSUME NEW c \in Arcade!Grid, NEW dx \in {-1, 0, 1}, NEW dy \in {-1, 0, 1},
           dx = 0 \/ dy = 0, dx # 0 \/ dy # 0,
           Arcade!Column(c) + dx \in 0 .. GridWidth - 1,
           Arcade!Row(c) + dy \in 0 .. GridHeight - 1
    PROVE  LET head == (Arcade!Column(c) + dx) + (Arcade!Row(c) + dy) * GridWidth
           IN  head \in Arcade!Grid /\ Arcade!Beside(head, c)
<1> DEFINE W == GridWidth
           H == GridHeight
           x == Arcade!Column(c) + dx
           y == Arcade!Row(c) + dy
           head == x + y * W
<1>1. /\ W \in Nat \ {0} /\ H \in Nat \ {0} /\ x \in Nat /\ x < W /\ y \in Nat /\ y < H
  BY GridFacts
<1>2. c \in Nat /\ Arcade!Column(c) \in Nat /\ Arcade!Row(c) \in Nat
  <2>1. c \in Nat
    BY GridFacts
  <2>2. QED
    BY <1>1, <2>1, Division DEF Arcade!Column, Arcade!Row
<1>3. x - Arcade!Column(c) = dx /\ y - Arcade!Row(c) = dy
  BY <1>2
<1> HIDE DEF x, y, W, H
<1>4. head \in Nat /\ head < W * H /\ head = W * y + x
  <2>1. y * W \in Nat /\ W * y = y * W
    <3>1. \A i, j \in Nat : i * j \in Nat /\ j * i = i * j
      OBVIOUS
    <3>2. QED
      BY <1>1, <3>1
  <2>2. W * (H - y) >= W
    BY <1>1, Multiple
  <2>3. W * (H - y) = W * H - W * y
    BY <1>1
  <2>4. W * H \in Nat
    BY <1>1
  <2>5. QED
    BY <1>1, <2>1, <2>2, <2>3, <2>4
<1> HIDE DEF head
<1>5. head % W = x /\ head \div W = y
  BY <1>1, <1>4, DivisionUnique
<1>6. head \in Arcade!Grid
  <2>1. Arcade!TotalCells = W * H
    BY DEF Arcade!TotalCells, W, H
  <2>2. QED
    BY <1>4, <2>1, GridFacts
<1>7. Arcade!Column(head) = x /\ Arcade!Row(head) = y
  BY <1>5 DEF Arcade!Column, Arcade!Row, W
<1>8. Arcade!Beside(head, c)
  <2> DEFINE i == Arcade!Column(head)
             j == Arcade!Row(head)
             k == Arcade!Column(c)
             l == Arcade!Row(c)
  <2>1. i = k + dx /\ j = l + dy /\ k \in Nat /\ l \in Nat
    BY <1>2, <1>7 DEF x, y
  <2>2. Arcade!Beside(head, c) <=> (j = l /\ i - k \in {-1, 1}) \/ (i = k /\ j - l \in {-1, 1})
    BY DEF Arcade!Beside
  <2> HIDE DEF i, j, k, l
  <2>3. CASE dy = 0
    <3>1. j = l /\ i - k = dx /\ dx \in {-1, 1}
      BY <2>1, <2>3
    <3>2. QED
      BY <2>2, <3>1
  <2>4. CASE dy # 0
    <3>1. i = k /\ j - l = dy /\ dy \in {-1, 1}
      BY <2>1, <2>4
    <3>2. QED
      BY <2>2, <3>1
  <2>5. QED
    BY <2>3, <2>4
<1>9. QED
  BY <1>6, <1>8 DEF head, x, y, W

(* A body with a new head, and with or without its tail.                   *)
LEMMA Grown ==
    ASSUME NEW b, InPiece(b), NEW h \in Arcade!Grid, \A k \in 1 .. Len(b) : b[k] # h,
           Arcade!Beside(h, b[1])
    PROVE  LET c == <<h>> \o b
           IN  InPiece(c) /\ Len(c) = Len(b) + 1
               /\ \A k \in 1 .. Len(c) : c[k] = h \/ \E j \in 1 .. Len(b) : c[k] = b[j]
<1> DEFINE c == <<h>> \o b
<1>1. b \in Seq(Arcade!Grid) /\ Len(b) \in Nat /\ Len(b) >= 1
  BY DEF InPiece
<1>2. c \in Seq(Arcade!Grid) /\ Len(c) = Len(b) + 1
  BY <1>1
<1>3. \A k \in 1 .. Len(b) + 1 : c[k] = IF k = 1 THEN h ELSE b[k - 1]
  BY <1>1
<1> HIDE DEF c
<1>4. ASSUME NEW j \in 1 .. Len(c), NEW k \in 1 .. Len(c), c[j] = c[k]
      PROVE  j = k
  <2>1. j \in Nat /\ k \in Nat /\ j \in 1 .. Len(b) + 1 /\ k \in 1 .. Len(b) + 1
    BY <1>1, <1>2
  <2>2. j # 1 => j - 1 \in 1 .. Len(b)
    BY <1>1, <2>1
  <2>3. k # 1 => k - 1 \in 1 .. Len(b)
    BY <1>1, <2>1
  <2>4. CASE j = 1 \/ k = 1
    BY <1>3, <1>4, <2>1, <2>2, <2>3, <2>4
  <2>5. CASE j # 1 /\ k # 1
    <3>1. b[j - 1] = b[k - 1]
      BY <1>3, <1>4, <2>1, <2>5
    <3>2. j - 1 = k - 1
      BY <2>2, <2>3, <2>5, <3>1 DEF InPiece
    <3>3. QED
      BY <2>1, <3>2
  <2>6. QED
    BY <2>4, <2>5
<1>5. ASSUME NEW k \in 1 .. Len(c) - 1
      PROVE  Arcade!Beside(c[k], c[k + 1])
  <2>1. k \in Nat /\ k >= 1 /\ k \in 1 .. Len(b) + 1 /\ k + 1 \in 1 .. Len(b) + 1 /\ k + 1 # 1 /\ (k + 1) - 1 = k
    BY <1>1, <1>2
  <2>2. c[k + 1] = b[k]
    BY <1>3, <2>1
  <2>3. CASE k = 1
    BY <1>3, <2>1, <2>2, <2>3
  <2>4. CASE k # 1
    <3>1. k - 1 \in 1 .. Len(b) - 1 /\ (k - 1) + 1 = k
      BY <1>1, <1>2, <2>1, <2>4
    <3>2. Arcade!Beside(b[k - 1], b[k])
      BY <3>1 DEF InPiece
    <3>3. c[k] = b[k - 1]
      BY <1>3, <2>1, <2>4
    <3>4. QED
      BY <2>2, <3>2, <3>3
  <2>5. QED
    BY <2>3, <2>4
<1>6. ASSUME NEW k \in 1 .. Len(c)
      PROVE  c[k] = h \/ \E j \in 1 .. Len(b) : c[k] = b[j]
  <2>1. k \in 1 .. Len(b) + 1 /\ (k # 1 => k - 1 \in 1 .. Len(b))
    BY <1>1, <1>2
  <2>2. QED
    BY <1>3, <2>1
<1>7. QED
  BY <1>1, <1>2, <1>4, <1>5, <1>6 DEF InPiece, c

LEMMA Shortened ==
    ASSUME NEW c, InPiece(c), Len(c) >= 2
    PROVE  LET f == SubSeq(c, 1, Len(c) - 1)
           IN  InPiece(f) /\ Len(f) = Len(c) - 1 /\ \A k \in 1 .. Len(f) : f[k] = c[k]
<1> DEFINE f == SubSeq(c, 1, Len(c) - 1)
<1>1. c \in Seq(Arcade!Grid) /\ Len(c) \in Nat
  BY DEF InPiece
<1>2. f \in Seq(Arcade!Grid) /\ Len(f) = Len(c) - 1 /\ \A k \in 1 .. Len(c) - 1 : f[k] = c[k]
  BY <1>1
<1> HIDE DEF f
<1>3. \A k \in 1 .. Len(f) : k \in 1 .. Len(c) /\ f[k] = c[k]
  BY <1>1, <1>2
<1>4. \A k \in 1 .. Len(f) - 1 : k \in 1 .. Len(c) - 1 /\ k \in 1 .. Len(f) /\ k + 1 \in 1 .. Len(f)
  BY <1>1, <1>2
<1>5. Len(f) >= 1
  BY <1>1, <1>2
<1>6. InPiece(f)
  BY <1>2, <1>3, <1>4, <1>5 DEF InPiece
<1>7. QED
  BY <1>2, <1>3, <1>6 DEF f

(* With and without room for one more segment the snake stays in one piece. *)
LEMMA CreptInPiece ==
    ASSUME NEW b, InPiece(b), NEW h \in Arcade!Grid, \A k \in 1 .. Len(b) : b[k] # h,
           Arcade!Beside(h, b[1])
    PROVE  LET c == <<h>> \o SubSeq(b, 1, Len(b) - 1)
           IN  InPiece(c) /\ Len(c) = Len(b)
               /\ \A k \in 1 .. Len(c) : c[k] = h \/ \E j \in 1 .. Len(b) : c[k] = b[j]
<1> DEFINE f == SubSeq(b, 1, Len(b) - 1)
           c == <<h>> \o f
<1>1. b \in Seq(Arcade!Grid) /\ Len(b) \in Nat /\ Len(b) >= 1
  BY DEF InPiece
<1>2. CASE Len(b) = 1
  <2>1. f = <<>>
    BY <1>1, <1>2
  <2>2. c = <<h>>
    <3>1. <<h>> \o <<>> = <<h>>
      OBVIOUS
    <3>2. QED
      BY <2>1, <3>1
  <2> HIDE DEF c
  <2>3. Len(c) = 1 /\ c[1] = h /\ c \in Seq(Arcade!Grid)
    BY <2>2
  <2>4. InPiece(c)
    BY <2>3 DEF InPiece
  <2>5. QED
    BY <1>2, <2>3, <2>4 DEF c
<1>3. CASE Len(b) # 1
  <2>1. InPiece(f) /\ Len(f) = Len(b) - 1 /\ \A k \in 1 .. Len(f) : f[k] = b[k]
    <3> DEFINE n == Len(b)
    <3>1. n >= 2
      <4>1. n \in Nat /\ n >= 1 /\ n # 1
        BY <1>1, <1>3
      <4> HIDE DEF n
      <4>2. QED
        BY <4>1
    <3>2. QED
      BY <3>1, Shortened
  <2> HIDE DEF f
  <2>2. /\ Len(f) >= 1 /\ f[1] = b[1] /\ \A k \in 1 .. Len(f) : f[k] # h /\ k \in 1 .. Len(b)
    BY <1>1, <1>3, <2>1
  <2>3. /\ InPiece(c) /\ Len(c) = Len(f) + 1
        /\ \A k \in 1 .. Len(c) : c[k] = h \/ \E j \in 1 .. Len(f) : c[k] = f[j]
    BY <2>1, <2>2, Grown
  <2> HIDE DEF c
  <2>4. Len(c) = Len(b)
    BY <1>1, <2>1, <2>3
  <2>5. QED
    BY <2>1, <2>2, <2>3, <2>4 DEF c, f
<1>4. QED
  BY <1>2, <1>3

LEMMA BodyFits ==
    ASSUME NEW s, SnakeBody(s)
    PROVE  /\ s.body \in Seq(Arcade!Grid) /\ Len(s.body) \in Nat /\ Len(s.body) >= 1
           /\ Len(s.body) <= Capacity /\ s.score \in Nat /\ Len(FirstBody) \in Nat
<1>1. Len(FirstBody) \in Nat /\ Capacity \in Nat /\ s.score \in Nat /\ s.body \in Seq(Arcade!Grid)
  BY SnakeAssumption DEF SnakeBody, SnakeAssumption, InPiece
<1>2. QED
  BY <1>1 DEF SnakeBody, InPiece

LEMMA FoodBeside ==
    ASSUME NEW s, SnakeBody(s), NEW second \in Nat
    PROVE  SnakeOk(Arcade!SpawnFood(s, second))
<1> DEFINE N == Arcade!TotalCells
           seed == (second + s.score * 7 + Len(s.body) * 13) % N
           free == Arcade!FreeOffsets(s.body, seed)
           k == Arcade!Min(free)
           food == (seed + k * 5) % N
           t == [s EXCEPT !.food = food]
<1>1. N \in Nat \ {0} /\ Arcade!Grid = 0 .. N - 1
  BY GridFacts
<1>2. /\ s.body \in Seq(Arcade!Grid) /\ Len(s.body) <= Capacity /\ s.score \in Nat
      /\ Len(s.body) \in Nat
  BY BodyFits
<1>3. seed \in Nat
  <2> DEFINE n == second + s.score * 7 + Len(s.body) * 13
  <2>1. n \in Nat
    BY <1>2
  <2>2. seed = n % N
    OBVIOUS
  <2> HIDE DEF n, N
  <2>3. QED
    BY <1>1, <2>1, <2>2, Division
<1> HIDE DEF seed
<1>4. free # {}
  BY <1>2, <1>3, SomeCellIsFree
<1>5. free \subseteq 0 .. N - 1
  BY <1>1 DEF Arcade!FreeOffsets
<1>6. k \in free
  <2>1. free \subseteq Nat
    BY <1>1, <1>5
  <2> HIDE DEF free
  <2>2. \E x \in free : \A y \in free : x <= y
    BY <1>4, <2>1, LeastOfNaturals
  <2>3. QED
    BY <2>2 DEF Arcade!Min
<1>7. k \in Nat
  BY <1>1, <1>5, <1>6
<1>8. food \notin Arcade!Range(s.body)
  BY <1>6 DEF Arcade!FreeOffsets
<1>9. Arcade!SpawnFood(s, second) = t
  BY <1>4 DEF Arcade!SpawnFood, seed
<1> HIDE DEF free, k
<1>10. food \in Arcade!Grid
  <2> HIDE DEF N
  <2>1. seed + k * 5 \in Nat
    BY <1>3, <1>7
  <2>2. QED
    BY <1>1, <2>1, Division
<1>11. \A j \in 1 .. Len(s.body) : s.body[j] # food
  BY <1>2, <1>8 DEF Arcade!Range
<1> HIDE DEF food
<1>12. /\ DOMAIN t = DOMAIN s /\ t.food = food /\ t.body = s.body /\ t.dir = s.dir
       /\ t.score = s.score /\ t.over = s.over
  BY DEF SnakeBody
<1> HIDE DEF t
<1>13. SnakeOk(t)
  BY <1>10, <1>11, <1>12 DEF SnakeOk, SnakeBody
<1>14. QED
  BY <1>9, <1>13

LEMMA FreshSnake == SnakeOk(Arcade!Fresh)
<1> DEFINE s == Arcade!Fresh
<1>1. s = [body |-> FirstBody, dir |-> <<1, 0>>, food |-> FirstFood, score |-> 0, over |-> FALSE]
  BY DEF Arcade!Fresh
<1> HIDE DEF s
<1>2. /\ DOMAIN s = {"body", "dir", "food", "score", "over"} /\ s.body = FirstBody
      /\ s.dir = <<1, 0>> /\ s.food = FirstFood /\ s.score = 0 /\ s.over \in BOOLEAN
  BY <1>1
<1>3. <<1, 0>> \in Arcade!Directions
  BY DEF Arcade!Directions
<1>4. FirstBody \in Seq(Arcade!Grid) /\ DOMAIN FirstBody = 1 .. Len(FirstBody)
  BY SnakeAssumption DEF SnakeAssumption
<1>5. /\ InPiece(FirstBody) /\ Len(FirstBody) + 0 = Len(FirstBody) /\ Len(FirstBody) <= Capacity
      /\ FirstFood \in Arcade!Grid /\ \A k \in 1 .. Len(FirstBody) : FirstBody[k] # FirstFood
  <2>1. /\ Len(FirstBody) \in 1 .. Capacity /\ Capacity \in Nat /\ FirstFood \in Arcade!Grid
        /\ \A k \in DOMAIN FirstBody : FirstBody[k] # FirstFood
        /\ \A j, k \in DOMAIN FirstBody : FirstBody[j] = FirstBody[k] => j = k
        /\ \A k \in 1 .. Len(FirstBody) - 1 : Arcade!Beside(FirstBody[k], FirstBody[k + 1])
    BY SnakeAssumption DEF SnakeAssumption
  <2>2. Len(FirstBody) \in Nat /\ Len(FirstBody) >= 1 /\ Len(FirstBody) <= Capacity
        /\ Len(FirstBody) + 0 = Len(FirstBody)
    BY <2>1
  <2>3. InPiece(FirstBody)
    BY <1>4, <2>1, <2>2 DEF InPiece
  <2>4. QED
    BY <1>4, <2>1, <2>2, <2>3
<1>6. QED
  BY <1>2, <1>3, <1>5 DEF SnakeOk, SnakeBody, s

LEMMA MoveStep ==
    ASSUME NEW s, SnakeOk(s), NEW dir \in Arcade!Directions, NEW second \in Nat
    PROVE  SnakeOk(Arcade!SnakeMove(s, dir, second))
<1> DEFINE to == Arcade!Heading(s, dir)
           x == Arcade!Column(s.body[1]) + to[1]
           y == Arcade!Row(s.body[1]) + to[2]
           head == x + y * GridWidth
           body == Arcade!Crept(s, head)
           moved == [s EXCEPT !.body = body, !.dir = to]
           eaten == [moved EXCEPT !.score = @ + 1]
<1>1. /\ s.body \in Seq(Arcade!Grid) /\ Len(s.body) \in Nat /\ Len(s.body) >= 1
      /\ Len(s.body) <= Capacity /\ s.score \in Nat /\ Len(FirstBody) \in Nat /\ InPiece(s.body)
  BY BodyFits DEF SnakeOk, SnakeBody
<1>2. Arcade!SnakeMove(s, dir, second) =
          IF s.over THEN Arcade!Fresh
          ELSE IF Arcade!Blocked(s, x, y) THEN [s EXCEPT !.over = TRUE]
          ELSE IF head = s.food THEN Arcade!SpawnFood(eaten, second) ELSE moved
  BY DEF Arcade!SnakeMove
<1>3. to \in Arcade!Directions
  BY DEF Arcade!Heading, SnakeOk, SnakeBody
<1>4. CASE s.over
  BY <1>2, <1>4, FreshSnake
<1>5. CASE ~s.over /\ Arcade!Blocked(s, x, y)
  <2> DEFINE t == [s EXCEPT !.over = TRUE]
  <2>1. /\ DOMAIN t = DOMAIN s /\ t.food = s.food /\ t.body = s.body /\ t.dir = s.dir
        /\ t.score = s.score /\ t.over
    BY DEF SnakeOk, SnakeBody
  <2> HIDE DEF t
  <2>2. SnakeOk(t)
    BY <2>1 DEF SnakeOk, SnakeBody
  <2>3. QED
    BY <1>2, <1>5, <2>2 DEF t
<1>6. CASE ~s.over /\ ~Arcade!Blocked(s, x, y)
  <2>1. /\ to[1] \in {-1, 0, 1} /\ to[2] \in {-1, 0, 1} /\ (to[1] = 0 \/ to[2] = 0)
        /\ (to[1] # 0 \/ to[2] # 0)
    BY <1>3 DEF Arcade!Directions
  <2> HIDE DEF to
  <2>2. s.body[1] \in Arcade!Grid
    BY <1>1
  <2>3. /\ Arcade!Column(s.body[1]) \in Nat /\ Arcade!Row(s.body[1]) \in Nat
    <3>1. s.body[1] \in Nat
      BY <2>2, GridFacts
    <3>2. QED
      BY <3>1, GridFacts, Division DEF Arcade!Column, Arcade!Row
  <2>4. x \in 0 .. GridWidth - 1 /\ y \in 0 .. GridHeight - 1 /\ head \notin Arcade!Range(s.body)
    <3>1. x \in Int /\ y \in Int
      BY <2>1, <2>3
    <3>2. ~(x < 0 \/ y < 0 \/ x >= GridWidth \/ y >= GridHeight)
          /\ x + y * GridWidth \notin Arcade!Range(s.body)
      BY <1>6 DEF Arcade!Blocked
    <3> HIDE DEF x, y
    <3>3. QED
      BY <3>1, <3>2, GridFacts
  <2>5. head \in Arcade!Grid /\ Arcade!Beside(head, s.body[1])
    BY <2>1, <2>2, <2>4, HeadFacts
  <2>6. \A k \in 1 .. Len(s.body) : s.body[k] # head
    BY <1>1, <2>4 DEF Arcade!Range
  <2> HIDE DEF x, y, head
  <2>7. /\ InPiece(body)
        /\ Len(body) = IF head = s.food /\ Len(s.body) < Capacity THEN Len(s.body) + 1 ELSE Len(s.body)
        /\ \A k \in 1 .. Len(body) : body[k] = head \/ \E j \in 1 .. Len(s.body) : body[k] = s.body[j]
    <3>1. CASE head = s.food /\ Len(s.body) < Capacity
      <4>1. body = <<head>> \o s.body
        BY <3>1 DEF Arcade!Crept
      <4> DEFINE b == s.body
                 c == <<head>> \o b
      <4>2. InPiece(b) /\ Arcade!Beside(head, b[1]) /\ \A k \in 1 .. Len(b) : b[k] # head
        BY <1>1, <2>5, <2>6
      <4> HIDE DEF b
      <4>3. /\ InPiece(c) /\ Len(c) = Len(b) + 1
            /\ \A k \in 1 .. Len(c) : c[k] = head \/ \E j \in 1 .. Len(b) : c[k] = b[j]
        BY <2>5, <4>2, Grown
      <4> HIDE DEF c
      <4>4. body = c
        BY <4>1 DEF c, b
      <4>5. QED
        BY <3>1, <4>3, <4>4 DEF b
    <3>2. CASE ~(head = s.food /\ Len(s.body) < Capacity)
      <4>1. body = <<head>> \o SubSeq(s.body, 1, Len(s.body) - 1)
        BY <3>2 DEF Arcade!Crept
      <4> DEFINE b == s.body
                 c == <<head>> \o SubSeq(b, 1, Len(b) - 1)
      <4>2. InPiece(b) /\ Arcade!Beside(head, b[1]) /\ \A k \in 1 .. Len(b) : b[k] # head
        BY <1>1, <2>5, <2>6
      <4> HIDE DEF b
      <4>3. /\ InPiece(c) /\ Len(c) = Len(b)
            /\ \A k \in 1 .. Len(c) : c[k] = head \/ \E j \in 1 .. Len(b) : c[k] = b[j]
        BY <2>5, <4>2, CreptInPiece
      <4>4. body = c
        BY <4>1 DEF b
      <4> HIDE DEF body, c
      <4>5. QED
        BY <3>2, <4>3, <4>4 DEF b
    <3>3. QED
      BY <3>1, <3>2
  <2> HIDE DEF body
  <2>8. /\ DOMAIN moved = {"body", "dir", "food", "score", "over"} /\ moved.body = body
        /\ moved.dir = to /\ moved.food = s.food /\ moved.score = s.score /\ moved.over = s.over
    BY DEF SnakeOk, SnakeBody
  <2> HIDE DEF moved
  <2>9. Capacity \in Nat /\ s.food \in Arcade!Grid /\ s.over \in BOOLEAN
        /\ \A k \in 1 .. Len(s.body) : s.body[k] # s.food
        /\ Len(s.body) = IF Len(FirstBody) + s.score <= Capacity THEN Len(FirstBody) + s.score ELSE Capacity
    BY GridFacts DEF SnakeOk, SnakeBody
  <2>10. CASE head = s.food
    <3>1. /\ DOMAIN eaten = {"body", "dir", "food", "score", "over"} /\ eaten.body = body
          /\ eaten.dir = to /\ eaten.food = s.food /\ eaten.score = s.score + 1 /\ eaten.over = s.over
      BY <2>8
    <3> HIDE DEF eaten
    <3>2. Len(body) = IF Len(FirstBody) + (s.score + 1) <= Capacity
                      THEN Len(FirstBody) + (s.score + 1) ELSE Capacity
      <4> DEFINE n == Len(s.body)
                 f == Len(FirstBody)
      <4>1. /\ n \in Nat /\ f \in Nat /\ Capacity \in Nat /\ s.score \in Nat /\ n <= Capacity
            /\ n = IF f + s.score <= Capacity THEN f + s.score ELSE Capacity
            /\ Len(body) = IF n < Capacity THEN n + 1 ELSE n
        BY <1>1, <2>7, <2>9, <2>10
      <4> HIDE DEF n, f
      <4>2. Len(body) = IF f + (s.score + 1) <= Capacity THEN f + (s.score + 1) ELSE Capacity
        BY <4>1
      <4>3. QED
        BY <4>2 DEF f
    <3>3. SnakeBody(eaten)
      BY <1>1, <1>3, <2>7, <2>9, <3>1, <3>2 DEF SnakeBody, to
    <3>4. QED
      BY <1>2, <1>6, <2>10, <3>3, FoodBeside
  <2>11. CASE head # s.food
    <3>1. Len(body) = Len(s.body)
      BY <2>7, <2>11
    <3>2. \A k \in 1 .. Len(body) : body[k] # s.food
      BY <2>7, <2>9, <2>11
    <3>3. SnakeOk(moved)
      BY <1>1, <1>3, <2>7, <2>8, <2>9, <3>1, <3>2 DEF SnakeOk, SnakeBody, to
    <3>4. QED
      BY <1>2, <1>6, <2>11, <3>3
  <2>12. QED
    BY <2>10, <2>11
<1>7. QED
  BY <1>4, <1>5, <1>6

LEMMA SnakeStep ==
    ASSUME SnakeOk(snake), [Arcade!SnakeNext]_gameVars
    PROVE  SnakeOk(snake')
<1>1. ASSUME NEW dir \in Arcade!Directions, NEW second \in Arcade!Grid,
             snake' = Arcade!SnakeMove(snake, dir, second)
      PROVE  SnakeOk(snake')
  <2>1. second \in Nat
    BY GridFacts
  <2>2. QED
    BY <1>1, <2>1, MoveStep
<1>2. CASE Arcade!NewGame
  BY <1>2, FreshSnake DEF Arcade!NewGame
<1>3. CASE UNCHANGED gameVars
  BY <1>3 DEF gameVars
<1>4. QED
  BY <1>1, <1>2, <1>3 DEF Arcade!SnakeNext

LEMMA SnakeIsInOnePiece ==
    ASSUME SnakeOk(snake)
    PROVE  Arcade!SnakeInOnePiece
<1>1. /\ snake.body \in Seq(Arcade!Grid) /\ DOMAIN snake.body = 1 .. Len(snake.body)
      /\ snake.score \in Nat /\ Len(FirstBody) \in Nat /\ Capacity \in Nat
  BY BodyFits, GridFacts DEF SnakeOk
<1>2. Arcade!IsInjective(snake.body)
  BY <1>1 DEF SnakeOk, SnakeBody, InPiece, Arcade!IsInjective
<1>3. \A k \in DOMAIN snake.body : snake.body[k] \in Arcade!Grid
  BY <1>1
<1>4. Arcade!Range(snake.body) \subseteq Arcade!Grid /\ snake.food \notin Arcade!Range(snake.body)
  BY <1>1, <1>3 DEF SnakeOk, Arcade!Range
<1>5. Arcade!Min({Len(FirstBody) + snake.score, Capacity}) =
          IF Len(FirstBody) + snake.score <= Capacity THEN Len(FirstBody) + snake.score ELSE Capacity
  <2> DEFINE a == Len(FirstBody) + snake.score
             m == IF a <= Capacity THEN a ELSE Capacity
  <2>1. a \in Nat
    BY <1>1
  <2> HIDE DEF a
  <2>2. \A x \in {a, Capacity} : (\A z \in {a, Capacity} : x <= z) <=> x = m
    BY <1>1, <2>1
  <2>3. m \in {a, Capacity}
    OBVIOUS
  <2> HIDE DEF m
  <2>4. (CHOOSE x \in {a, Capacity} : \A z \in {a, Capacity} : x <= z) = m
    BY <2>2, <2>3
  <2>5. QED
    BY <2>4 DEF Arcade!Min, a, m
<1>6. QED
  BY <1>2, <1>4, <1>5 DEF SnakeOk, SnakeBody, InPiece, Arcade!SnakeInOnePiece

(* Both games, whatever is pressed: the snake stays in one piece and its   *)
(* food beside it, on a grid of any size that steps of five go through,    *)
(* and the verdict of tic-tac-toe is that of its board (snake_move,        *)
(* snake_spawn_food, ttt_update_state).                                    *)
THEOREM GamesKeepTheRules == Spec => []GamesByTheRules
<1>1. Init => SnakeOk(snake) /\ BoardOk
  BY FreshSnake, EmptyBoardOk DEF Init, Arcade!SnakeInit, Arcade!BoardInit, BoardOk
<1>2. SnakeOk(snake) /\ [Next]_partsVars => SnakeOk(snake)'
  BY PartsMove, SnakeStep
<1>3. BoardOk /\ [Next]_partsVars => BoardOk'
  BY PartsMove, BoardStep
<1>4. SnakeOk(snake) /\ BoardOk => GamesByTheRules
  BY SnakeIsInOnePiece, VerdictIsJudged DEF GamesByTheRules, BoardOk
<1>5. QED
  BY <1>1, <1>2, <1>3, <1>4, PTL DEF Spec

-----------------------------------------------------------------------------
(* First run. A target counts while the drive is of its kind: the whole    *)
(* drive always, a partition while there is a partition table.             *)
Live(t) == t = Oobe!Whole \/ disk[0] = Oobe!Table

RecordOn(t) ==
    /\ Oobe!StateSector(t) # 0 /\ disk[Oobe!StateSector(t)].kind = "record"
    /\ disk[Oobe!StateSector(t)].target = t

(* The record is of an image that is complete. *)
Stored(t) == RecordOn(t) /\ disk[Oobe!StateSector(t)].stage # "PENDING_INSTALL"

SetupTypes ==
    /\ disk \in [Oobe!Sectors -> Oobe!Content] /\ disk[0] \in {Oobe!Table, Oobe!Blank, Oobe!Header}
    /\ phase \in Oobe!Phases /\ media \in Build /\ seen \in {Partitions, <<>>}
    /\ region \in Oobe!Regions \cup {Oobe!NoRegion}
    /\ install \in [complete : BOOLEAN, failed : BOOLEAN, started : BOOLEAN]
    /\ account \in Account \cup {NoAccount}
    /\ created \in [Oobe!Regions -> Account \cup {NoAccount}]

(* A record is in its target's sector. *)
RecordsOk ==
    \A l \in Oobe!Sectors : disk[l].kind = "record" =>
        /\ disk[l].target \in Oobe!Regions /\ Oobe!RoomFor(disk[l].target)
        /\ l = Oobe!StateSector(disk[l].target)
        /\ disk[l].target # Oobe!Whole => disk[0] = Oobe!Table \/ l # Oobe!StateSector(Oobe!Whole)

ImagesOk == \A t \in Oobe!Regions : Stored(t) /\ Live(t) => \E b \in Build : Oobe!HoldsImage(t, b)

(* The account the user was told of is in the record. *)
CreatedOk ==
    \A t \in Oobe!Regions : created[t] # NoAccount /\ Live(t) =>
        Oobe!StateSector(t) # 0 /\ disk[Oobe!StateSector(t)] = Oobe!Record("READY", t, created[t])

OobeScreens == {"OOBE_HI", "OOBE_SETTING_UP", "OOBE_PREPARE", "OOBE_ALMOST_THERE"}

(* What each screen takes for granted of the drive. *)
PhaseOk ==
    /\ phase \in {"WELCOME", "INSTALLER"} /\ seen # <<>> => disk[0] = Oobe!Table
    /\ phase = "INSTALLING" => region \in Oobe!Regions /\ RecordOn(region) /\ Live(region)
    /\ phase = "INSTALLING" /\ ~install.started => disk[Oobe!StateSector(region)].stage = "PENDING_INSTALL"
    /\ phase \in OobeScreens \cup {"USER_OOBE"} => region \in Oobe!Regions /\ Stored(region) /\ Live(region)
    /\ phase = "USER_OOBE" => created[region] = NoAccount
    /\ phase \in OobeScreens => account = created[region] /\ account # NoAccount

(* An installation that is under way has written what is before next. *)
JobOk ==
    /\ job # Oobe!NoJob =>
          /\ phase = "INSTALLING" /\ ~install.started
          /\ job.next \in 0 .. Oobe!ImageSize + 1
          /\ job = [next |-> job.next, image |-> Oobe!Image(media), target |-> region]
          /\ job.next > 0 => disk[region.start] = Oobe!Header
          /\ \A i \in Oobe!Parts : i < job.next => disk[region.start + i] = Oobe!Data(media, i)
    /\ install.complete => install.started

SetupOk == SetupTypes /\ RecordsOk /\ ImagesOk /\ CreatedOk /\ PhaseOk /\ JobOk

LEMMA ElementOf ==
    ASSUME NEW S, NEW s \in Seq(S), NEW i \in DOMAIN s
    PROVE  s[i] \in S /\ i \in Nat
OBVIOUS

LEMMA DriveFacts ==
    /\ Total \in Nat \ {0} /\ Oobe!ImageSize \in Nat \ {0, 1} /\ Oobe!Sectors = 0 .. Total - 1
    /\ Oobe!Parts = 1 .. Oobe!ImageSize /\ Oobe!Whole \in Oobe!Regions /\ Oobe!NoRegion \notin Oobe!Regions
    /\ Oobe!NoRegion.count = 0 /\ Oobe!NoRegion.start = 0
    /\ Oobe!Whole.start = 0 /\ Oobe!Whole.count = Total
    /\ \A i \in DOMAIN Partitions : i \in Nat /\ Partitions[i] \in Oobe!Regions
    /\ \A s \in Oobe!Stages, t \in Oobe!Regions, a \in Account \cup {NoAccount} :
          /\ Oobe!Record(s, t, a) \in Oobe!Content /\ Oobe!Record(s, t, a).kind = "record"
          /\ Oobe!Record(s, t, a).stage = s /\ Oobe!Record(s, t, a).target = t /\ Oobe!Record(s, t, a).account = a
    /\ Oobe!Header \in Oobe!Content /\ Oobe!Header.kind = "header" /\ Oobe!Table # Oobe!Header /\ Oobe!Blank # Oobe!Header
    /\ Oobe!Blank.kind = "blank" /\ Oobe!Table.kind = "table"
    /\ \A b \in Build, i \in Oobe!Parts : Oobe!Data(b, i) \in Oobe!Content /\ Oobe!Data(b, i).kind = "data"
<1>1. /\ Total \in Nat \ {0} /\ Oobe!ImageSize \in Nat \ {0, 1} /\ Oobe!Sectors = 0 .. Total - 1
      /\ Oobe!Parts = 1 .. Oobe!ImageSize /\ Oobe!NoRegion.count = 0 /\ Oobe!NoRegion.start = 0
      /\ Oobe!Whole.start = 0 /\ Oobe!Whole.count = Total
  BY DriveAssumption DEF Oobe!ImageSize, Oobe!Sectors, Oobe!Parts, Oobe!NoRegion, Oobe!Whole
<1>2. \A i \in DOMAIN Partitions :
          i \in Nat /\ Partitions[i] \in [start : 1 .. Total - 1, count : 1 .. Total - 1]
  <2>1. Partitions \in Seq([start : 1 .. Total - 1, count : 1 .. Total - 1])
    BY DriveAssumption
  <2>2. QED
    BY <2>1, ElementOf
<1>3. Oobe!Whole \in Oobe!Regions /\ \A i \in DOMAIN Partitions : Partitions[i] \in Oobe!Regions
  BY DEF Oobe!Regions
<1>4. Oobe!NoRegion \notin Oobe!Regions
  <2>1. SUFFICES ASSUME Oobe!NoRegion \in Oobe!Regions PROVE FALSE
    OBVIOUS
  <2>2. Oobe!NoRegion = Oobe!Whole \/ \E i \in DOMAIN Partitions : Oobe!NoRegion = Partitions[i]
    BY <2>1 DEF Oobe!Regions
  <2>3. Oobe!NoRegion # Oobe!Whole
    BY <1>1
  <2>4. PICK i \in DOMAIN Partitions : Oobe!NoRegion = Partitions[i]
    BY <2>2, <2>3
  <2>5. Partitions[i].count >= 1
    BY <1>2
  <2>6. QED
    BY <1>1, <2>4, <2>5
<1>5. \A s \in Oobe!Stages, t \in Oobe!Regions, a \in Account \cup {NoAccount} :
          /\ Oobe!Record(s, t, a) \in Oobe!Content /\ Oobe!Record(s, t, a).kind = "record"
          /\ Oobe!Record(s, t, a).stage = s /\ Oobe!Record(s, t, a).target = t /\ Oobe!Record(s, t, a).account = a
  BY DEF Oobe!Record, Oobe!Content
<1>6. /\ Oobe!Header \in Oobe!Content /\ Oobe!Header.kind = "header" /\ Oobe!Table # Oobe!Header /\ Oobe!Blank # Oobe!Header
      /\ Oobe!Blank.kind = "blank" /\ Oobe!Table.kind = "table"
      /\ \A b \in Build, i \in Oobe!Parts : Oobe!Data(b, i) \in Oobe!Content /\ Oobe!Data(b, i).kind = "data"
  BY DEF Oobe!Header, Oobe!Table, Oobe!Blank, Oobe!Data, Oobe!Content
<1>7. QED
  BY <1>1, <1>2, <1>3, <1>4, <1>5, <1>6

LEMMA RegionFacts ==
    ASSUME NEW t \in Oobe!Regions
    PROVE  /\ t.start \in Nat /\ t.count \in Nat /\ t.start < Total /\ t.start + t.count <= Total
           /\ t # Oobe!Whole => /\ t.start >= 1 /\ \E i \in DOMAIN Partitions : t = Partitions[i]
           /\ Oobe!StateSector(t) \in Oobe!Sectors
           /\ Oobe!StateSector(t) # 0 => /\ t.count >= 2 /\ Oobe!StateSector(t) = t.start + t.count - 2
<1>1. CASE t = Oobe!Whole
  BY <1>1, DriveFacts DEF Oobe!StateSector
<1>2. CASE t # Oobe!Whole
  <2>1. PICK i \in DOMAIN Partitions : t = Partitions[i]
    BY <1>2 DEF Oobe!Regions
  <2>2. t \in [start : 1 .. Total - 1, count : 1 .. Total - 1]
    <3>1. Partitions \in Seq([start : 1 .. Total - 1, count : 1 .. Total - 1])
      BY DriveAssumption
    <3>2. QED
      BY <2>1, <3>1, ElementOf
  <2>3. t.start + t.count <= Total
    BY <2>1, PartitionsAssumption
  <2>4. t.start \in 1 .. Total - 1 /\ t.count \in 1 .. Total - 1
    BY <2>2
  <2>5. Oobe!StateSector(t) \in Oobe!Sectors
           /\ (Oobe!StateSector(t) # 0 => t.count >= 2 /\ Oobe!StateSector(t) = t.start + t.count - 2)
    BY <2>3, <2>4, DriveFacts DEF Oobe!StateSector
  <2>6. t.start \in Nat /\ t.count \in Nat /\ t.start < Total /\ t.start >= 1
    BY <2>4, DriveFacts
  <2>7. QED
    BY <2>1, <2>3, <2>5, <2>6
<1>3. QED
  BY <1>1, <1>2

(* A target with room for an image has its record behind it. *)
LEMMA RoomFacts ==
    ASSUME NEW t \in Oobe!Regions, Oobe!RoomFor(t)
    PROVE  /\ Oobe!StateSector(t) # 0 /\ Oobe!StateSector(t) = t.start + t.count - 2
           /\ t.count >= Oobe!ImageSize + 3
           /\ \A i \in 0 .. Oobe!ImageSize : /\ t.start + i \in Oobe!Sectors /\ t.start + i # Oobe!StateSector(t)
                                             /\ t.start + i # Oobe!StateSector(Oobe!Whole)
<1>1. Oobe!StateSector(t) = t.start + t.count - 2 /\ t.count >= Oobe!ImageSize + 3
  BY RegionFacts, DriveFacts DEF Oobe!RoomFor, Oobe!StateSector
<1>2. /\ t.start \in Nat /\ t.count \in Nat /\ t.start + t.count <= Total
      /\ Total \in Nat /\ Oobe!ImageSize \in Nat
  BY RegionFacts, DriveFacts
<1>3. Oobe!StateSector(Oobe!Whole) = Total - 2
  BY <1>1, <1>2, DriveFacts DEF Oobe!StateSector
<1>4. ASSUME NEW i \in 0 .. Oobe!ImageSize
      PROVE  t.start + i \in Oobe!Sectors /\ t.start + i < Oobe!StateSector(t) /\ t.start + i < Oobe!StateSector(Oobe!Whole)
  BY SMTT(30), <1>1, <1>2, <1>3, DriveFacts
<1>5. Oobe!StateSector(t) # 0
  BY <1>1, <1>2
<1>6. ASSUME NEW i \in 0 .. Oobe!ImageSize
      PROVE  t.start + i # Oobe!StateSector(t) /\ t.start + i # Oobe!StateSector(Oobe!Whole)
  BY <1>1, <1>2, <1>3
<1>7. QED
  BY <1>1, <1>4, <1>5, <1>6

(* Partitions do not overlap. *)
LEMMA PartitionsApart ==
    ASSUME NEW t \in Oobe!Regions, NEW u \in Oobe!Regions, t # u, t # Oobe!Whole, u # Oobe!Whole, Oobe!RoomFor(t)
    PROVE  /\ Oobe!StateSector(u) # 0 => Oobe!StateSector(t) # Oobe!StateSector(u)
           /\ Oobe!StateSector(u) # 0 => \A i \in 0 .. Oobe!ImageSize : t.start + i # Oobe!StateSector(u)
           /\ Oobe!RoomFor(u) => \A i, j \in 0 .. Oobe!ImageSize : t.start + i # u.start + j
<1>1. t.start + t.count <= u.start \/ u.start + u.count <= t.start
  <2>1. PICK i \in DOMAIN Partitions : t = Partitions[i]
    BY RegionFacts
  <2>2. PICK j \in DOMAIN Partitions : u = Partitions[j]
    BY RegionFacts
  <2>3. QED
    BY <2>1, <2>2, PartitionsAssumption
<1>2. /\ t.start \in Nat /\ t.count \in Nat /\ u.start \in Nat /\ u.count \in Nat
      /\ Oobe!ImageSize \in Nat /\ t.count >= Oobe!ImageSize + 3 /\ Oobe!StateSector(t) = t.start + t.count - 2
      /\ Oobe!StateSector(u) # 0 => u.count >= 2 /\ Oobe!StateSector(u) = u.start + u.count - 2
      /\ Oobe!RoomFor(u) => u.count >= Oobe!ImageSize + 3
  BY RegionFacts, RoomFacts, DriveFacts
<1>3. QED
  BY <1>1, <1>2

(* What is stored for the whole drive begins with a header. *)
LEMMA WholeHasHeader ==
    ASSUME SetupTypes, ImagesOk, Stored(Oobe!Whole) \/ (CreatedOk /\ created[Oobe!Whole] # NoAccount)
    PROVE  disk[0] = Oobe!Header
<1>1. Stored(Oobe!Whole)
  <2>1. CASE CreatedOk /\ created[Oobe!Whole] # NoAccount
    <3>1. /\ Oobe!StateSector(Oobe!Whole) # 0
          /\ disk[Oobe!StateSector(Oobe!Whole)] = Oobe!Record("READY", Oobe!Whole, created[Oobe!Whole])
      BY <2>1, DriveFacts DEF CreatedOk, Live
    <3>2. "READY" \in Oobe!Stages /\ created[Oobe!Whole] \in Account \cup {NoAccount}
      BY DriveFacts DEF Oobe!Stages, SetupTypes
    <3>3. QED
      BY <3>1, <3>2, DriveFacts DEF Stored, RecordOn
  <2>2. QED
    BY <2>1
<1>2. PICK b \in Build : Oobe!HoldsImage(Oobe!Whole, b)
  BY <1>1, DriveFacts DEF ImagesOk, Live
<1>3. QED
  BY <1>2, DriveFacts DEF Oobe!HoldsImage

-----------------------------------------------------------------------------
(* A step that leaves drive and history alone. *)
LEMMA QuietStep ==
    ASSUME RecordsOk, ImagesOk, CreatedOk, disk' = disk, created' = created
    PROVE  RecordsOk' /\ ImagesOk' /\ CreatedOk'
BY DEF RecordsOk, ImagesOk, CreatedOk, Stored, RecordOn, Live, Oobe!HoldsImage

(* What is stored for a target lies apart from the record of another.      *)
LEMMA StoredApart ==
    ASSUME SetupTypes, RecordsOk, ImagesOk, NEW t \in Oobe!Regions, NEW u \in Oobe!Regions, t # u,
           Stored(t), Live(t), Live(u), Oobe!RoomFor(u)
    PROVE  /\ Oobe!RoomFor(t)
           /\ \A i \in 0 .. Oobe!ImageSize : t.start + i # Oobe!StateSector(u)
           /\ t = Oobe!Whole => FALSE
           /\ u # Oobe!Whole => Oobe!StateSector(t) # Oobe!StateSector(u)
<1>1. Oobe!RoomFor(t)
  BY RegionFacts DEF Stored, RecordOn, RecordsOk
<1>2. t # Oobe!Whole
  <2>1. SUFFICES ASSUME t = Oobe!Whole PROVE FALSE
    OBVIOUS
  <2>2. disk[0] = Oobe!Header /\ disk[0] = Oobe!Table
    BY <2>1, WholeHasHeader DEF Live
  <2>3. QED
    BY <2>2, DriveFacts
<1>3. Oobe!StateSector(u) # 0
  BY RoomFacts
<1>4. CASE u = Oobe!Whole
  BY <1>1, <1>2, <1>4, RoomFacts
<1>5. CASE u # Oobe!Whole
  BY <1>1, <1>2, <1>3, <1>5, PartitionsApart
<1>6. QED
  BY <1>1, <1>2, <1>4, <1>5

(* The setup's write of a record, and what it may record: an image only    *)
(* where one is complete, over another target's record only where that     *)
(* target does not count or its account is given up, an account only when  *)
(* it is written.                                                          *)
MayRecord(stage, u, a, ok) ==
    /\ stage \in Oobe!Stages /\ a \in Account \cup {NoAccount} /\ ok \in BOOLEAN
    /\ u \in Oobe!Regions /\ Oobe!RoomFor(u) /\ Live(u)
    /\ stage # "PENDING_INSTALL" => \E b \in Build : Oobe!HoldsImage(u, b)
    /\ created' \in [Oobe!Regions -> Account \cup {NoAccount}]
    /\ \A t \in Oobe!Regions : t # u => created'[t] \in {created[t], NoAccount}
    /\ stage = "PENDING_INSTALL" =>
          \A t \in Oobe!Regions : Oobe!StateSector(t) = Oobe!StateSector(u) => created'[t] = NoAccount
    /\ created'[u] # NoAccount => stage = "READY" /\ a = created'[u] /\ (ok \/ created[u] = a)

LEMMA RecordWrite ==
    ASSUME SetupTypes, RecordsOk, ImagesOk, CreatedOk,
           NEW stage, NEW u, NEW a, NEW ok, MayRecord(stage, u, a, ok), Oobe!Persist(stage, u, a, ok)
    PROVE  /\ disk' \in [Oobe!Sectors -> Oobe!Content] /\ disk'[0] = disk[0]
           /\ RecordsOk' /\ ImagesOk' /\ CreatedOk'
           /\ ok => disk'[Oobe!StateSector(u)] = Oobe!Record(stage, u, a)
           /\ disk'[Oobe!StateSector(u)] \in {disk[Oobe!StateSector(u)], Oobe!Record(stage, u, a)}
           /\ \A l \in Oobe!Sectors : l # Oobe!StateSector(u) => disk'[l] = disk[l]
<1> DEFINE l == Oobe!StateSector(u)
           r == Oobe!Record(stage, u, a)
<1> USE DEF MayRecord
<1>1. /\ l # 0 /\ l \in Oobe!Sectors /\ l = u.start + u.count - 2
      /\ \A i \in 0 .. Oobe!ImageSize : u.start + i \in Oobe!Sectors /\ u.start + i # l
  BY RoomFacts, RegionFacts
<1>2. /\ r \in Oobe!Content /\ r.kind = "record" /\ r.stage = stage /\ r.target = u /\ r.account = a
  BY DriveFacts
<1>3. /\ disk' = disk \/ disk' = [disk EXCEPT ![l] = r]
      /\ ok => disk' = [disk EXCEPT ![l] = r]
  BY <1>1 DEF Oobe!Persist, Oobe!Write
<1>4. disk \in [Oobe!Sectors -> Oobe!Content]
  BY DEF SetupTypes
<1>5. /\ disk' \in [Oobe!Sectors -> Oobe!Content]
      /\ \A m \in Oobe!Sectors : m # l => disk'[m] = disk[m]
      /\ disk'[l] \in {disk[l], r} /\ (ok => disk'[l] = r)
      /\ disk'[l] = disk[l] => disk' = disk
  <2>1. CASE disk' = disk
    <3>1. CASE ok
      BY <1>1, <1>2, <1>3, <1>4, <2>1, <3>1
    <3>2. CASE ~ok
      BY <1>4, <2>1, <3>2
    <3>3. QED
      BY <3>1, <3>2
  <2>2. CASE disk' = [disk EXCEPT ![l] = r]
    BY <1>1, <1>2, <1>4, <2>2
  <2>3. QED
    BY <1>3, <2>1, <2>2
<1>6. 0 \in Oobe!Sectors /\ disk'[0] = disk[0]
  BY <1>1, <1>5, DriveFacts
<1> HIDE DEF r
<1>7. RecordsOk'
  <2>1. SUFFICES ASSUME NEW m \in Oobe!Sectors, disk'[m].kind = "record"
                 PROVE  /\ disk'[m].target \in Oobe!Regions /\ Oobe!RoomFor(disk'[m].target)
                        /\ m = Oobe!StateSector(disk'[m].target)
                        /\ disk'[m].target # Oobe!Whole => disk'[0] = Oobe!Table \/ m # Oobe!StateSector(Oobe!Whole)
    BY DEF RecordsOk
  <2>2. CASE disk'[m] = disk[m]
    BY <1>6, <2>1, <2>2 DEF RecordsOk
  <2>3. CASE disk'[m] # disk[m]
    <3>1. m = l /\ disk'[m] = r
      BY <1>5, <2>3
    <3>2. QED
      BY <1>2, <1>6, <3>1 DEF Live
  <2>4. QED
    BY <2>2, <2>3
<1>8. ASSUME NEW t \in Oobe!Regions, NEW b \in Build, Oobe!RoomFor(t), Oobe!HoldsImage(t, b),
             \A i \in 0 .. Oobe!ImageSize : t.start + i # l
      PROVE  Oobe!HoldsImage(t, b)'
  <2>1. \A i \in 0 .. Oobe!ImageSize : t.start + i \in Oobe!Sectors
    BY <1>8, RoomFacts
  <2>2. \A i \in 0 .. Oobe!ImageSize : disk'[t.start + i] = disk[t.start + i]
    BY <1>5, <1>8, <2>1
  <2>3. t.start + 0 = t.start /\ 0 \in 0 .. Oobe!ImageSize /\ Oobe!Parts \subseteq 0 .. Oobe!ImageSize
    BY RegionFacts, DriveFacts
  <2>4. QED
    BY <1>8, <2>2, <2>3 DEF Oobe!HoldsImage
<1>9. ImagesOk'
  <2>1. SUFFICES ASSUME NEW t \in Oobe!Regions, Stored(t)', Live(t)'
                 PROVE  \E b \in Build : Oobe!HoldsImage(t, b)'
    BY DEF ImagesOk
  <2>2. Oobe!StateSector(t) \in Oobe!Sectors /\ Live(t)
    BY <1>6, <2>1, RegionFacts DEF Live
  <2>3. CASE disk' = disk
    BY <2>1, <2>2, <2>3 DEF ImagesOk, Stored, RecordOn, Oobe!HoldsImage
  <2>4. CASE disk' # disk /\ t = u
    <3>1. \E b \in Build : Oobe!HoldsImage(u, b)
      BY <1>2, <1>5, <2>1, <2>4 DEF Stored
    <3>2. QED
      BY <1>1, <1>8, <2>4, <3>1
  <2>5. CASE disk' # disk /\ t # u
    <3>1. Oobe!StateSector(t) # l
      BY <1>2, <1>5, <2>1, <2>5 DEF Stored, RecordOn
    <3>2. Stored(t)
      BY <1>5, <2>1, <2>2, <3>1 DEF Stored, RecordOn
    <3>3. Oobe!RoomFor(t) /\ \A i \in 0 .. Oobe!ImageSize : t.start + i # l
      BY <2>2, <2>5, <3>2, StoredApart
    <3>4. PICK b \in Build : Oobe!HoldsImage(t, b)
      BY <2>2, <3>2 DEF ImagesOk
    <3>5. QED
      BY <1>8, <3>3, <3>4
  <2>6. QED
    BY <2>3, <2>4, <2>5
<1>10. CreatedOk'
  <2>1. SUFFICES ASSUME NEW t \in Oobe!Regions, created'[t] # NoAccount, Live(t)'
                 PROVE  Oobe!StateSector(t) # 0 /\ disk'[Oobe!StateSector(t)] = Oobe!Record("READY", t, created'[t])
    BY DEF CreatedOk
  <2>2. Live(t)
    BY <1>6, <2>1 DEF Live
  <2>3. CASE t = u
    <3>1. stage = "READY" /\ a = created'[u] /\ (ok \/ created[u] = a)
      BY <2>1, <2>3
    <3>2. CASE disk'[l] = r
      BY <1>1, <2>3, <3>1, <3>2 DEF r
    <3>3. CASE disk'[l] # r
      <4>1. disk'[l] = disk[l] /\ created[u] = created'[u]
        BY <1>5, <3>1, <3>3
      <4>2. QED
        BY <2>1, <2>2, <2>3, <4>1 DEF CreatedOk
    <3>4. QED
      BY <3>2, <3>3
  <2>4. CASE t # u
    <3>1. /\ created'[t] = created[t] /\ Oobe!StateSector(t) # 0 /\ Oobe!StateSector(t) \in Oobe!Sectors
          /\ disk[Oobe!StateSector(t)] = Oobe!Record("READY", t, created[t])
      BY <2>1, <2>2, <2>4, RegionFacts DEF CreatedOk
    <3>2. Oobe!StateSector(t) # l
      <4>1. Stored(t)
        <5>1. "READY" \in Oobe!Stages /\ created[t] \in Account \cup {NoAccount}
          BY DEF SetupTypes, Oobe!Stages
        <5>2. QED
          BY <3>1, <5>1, DriveFacts DEF Stored, RecordOn
      <4>2. t # Oobe!Whole /\ (u # Oobe!Whole => Oobe!StateSector(t) # l)
        BY <2>2, <2>4, <4>1, StoredApart
      <4>3. ASSUME u = Oobe!Whole
            PROVE  Oobe!StateSector(t) # l
        <5>1. disk[0] = Oobe!Table
          BY <2>2, <4>2 DEF Live
        <5>2. stage = "PENDING_INSTALL"
          <6>1. SUFFICES ASSUME stage # "PENDING_INSTALL" PROVE FALSE
            OBVIOUS
          <6>2. disk[0] = Oobe!Header
            BY <4>3, <6>1, DriveFacts DEF Oobe!HoldsImage
          <6>3. QED
            BY <5>1, <6>2, DriveFacts
        <5>3. QED
          BY <2>1, <5>2
      <4>4. QED
        BY <4>2, <4>3
    <3>3. QED
      BY <1>5, <3>1, <3>2
  <2>5. QED
    BY <2>3, <2>4
<1>11. QED
  BY <1>5, <1>6, <1>7, <1>9, <1>10 DEF r

-----------------------------------------------------------------------------
(* One write of an installation: its target is pending, so nothing stored  *)
(* is touched, or all of it no longer counts.                              *)
LEMMA InstallWritesStep ==
    ASSUME SetupOk, NEW ok \in BOOLEAN, Oobe!InstallWrites(ok)
    PROVE  SetupOk'
<1> DEFINE u == region
           n == job.next
           l == u.start + n
           c == Oobe!JobSector(job)
<1> USE DEF SetupOk
<1>1. /\ job # Oobe!NoJob /\ n <= Oobe!ImageSize /\ phase = "INSTALLING" /\ ~install.started
      /\ n \in 0 .. Oobe!ImageSize + 1
      /\ job = [next |-> n, image |-> Oobe!Image(media), target |-> u]
      /\ n > 0 => disk[u.start] = Oobe!Header
      /\ \A i \in Oobe!Parts : i < n => disk[u.start + i] = Oobe!Data(media, i)
  BY DEF Oobe!InstallWrites, Oobe!JobWrites, Oobe!Idle, JobOk
<1>2. /\ u \in Oobe!Regions /\ RecordOn(u) /\ Live(u) /\ disk[Oobe!StateSector(u)].stage = "PENDING_INSTALL"
      /\ disk[Oobe!StateSector(u)].kind = "record" /\ disk[Oobe!StateSector(u)].target = u
      /\ Oobe!StateSector(u) \in Oobe!Sectors /\ Oobe!RoomFor(u)
  BY <1>1, RegionFacts DEF PhaseOk, RecordOn, RecordsOk
<1>3. /\ n \in 0 .. Oobe!ImageSize /\ l \in Oobe!Sectors /\ l # Oobe!StateSector(u) /\ l # Oobe!StateSector(Oobe!Whole)
      /\ \A i \in 0 .. Oobe!ImageSize : u.start + i \in Oobe!Sectors
      /\ u.start \in Nat /\ n \in Nat /\ Oobe!ImageSize \in Nat
  BY <1>1, <1>2, RoomFacts, RegionFacts, DriveFacts
<1>4. /\ n = 0 => c = Oobe!Header
      /\ n # 0 => n \in Oobe!Parts /\ c = Oobe!Data(media, n)
  BY <1>1, <1>3, DriveFacts DEF Oobe!JobSector, Oobe!Image
<1>5. c \in Oobe!Content /\ c.kind # "record"
  BY <1>3, <1>4, DriveFacts DEF SetupTypes
<1>6. /\ disk' = disk \/ disk' = [disk EXCEPT ![l] = c]
      /\ ok => disk' = [disk EXCEPT ![l] = c]
  BY <1>1 DEF Oobe!InstallWrites, Oobe!JobWrites, Oobe!Write
<1>7. /\ disk' \in [Oobe!Sectors -> Oobe!Content]
      /\ \A m \in Oobe!Sectors : m # l => disk'[m] = disk[m]
      /\ disk'[l] \in {disk[l], c} /\ (ok => disk'[l] = c)
      /\ disk'[l] = disk[l] => disk' = disk
  <2> HIDE DEF c
  <2>0. disk \in [Oobe!Sectors -> Oobe!Content]
    BY DEF SetupTypes
  <2>1. CASE disk' = disk
    <3>1. CASE ok
      BY <1>3, <1>5, <1>6, <2>0, <2>1, <3>1
    <3>2. CASE ~ok
      BY <2>0, <2>1, <3>2
    <3>3. QED
      BY <3>1, <3>2
  <2>2. CASE disk' = [disk EXCEPT ![l] = c]
    BY <1>3, <1>5, <2>0, <2>2
  <2>3. QED
    BY <1>6, <2>1, <2>2
<1>8. /\ ok => job' = [job EXCEPT !.next = @ + 1]
      /\ ~ok => job' = Oobe!NoJob
      /\ install' = IF ok THEN install ELSE [complete |-> FALSE, failed |-> TRUE, started |-> TRUE]
      /\ UNCHANGED <<phase, media, seen, region, account, created>>
  BY DEF Oobe!InstallWrites, Oobe!JobWrites
<1> HIDE DEF c
<1>9. /\ 0 \in Oobe!Sectors
      /\ disk'[0] = disk[0] \/ (u = Oobe!Whole /\ n = 0 /\ l = 0 /\ disk'[0] = Oobe!Header)
  <2>1. 0 \in Oobe!Sectors
    BY DriveFacts
  <2>2. CASE l = 0
    <3>1. u.start = 0 /\ n = 0
      BY <1>3, <2>2
    <3>2. u = Oobe!Whole
      BY <1>2, <3>1, RegionFacts
    <3>3. QED
      BY <1>4, <1>7, <2>1, <2>2, <3>1, <3>2
  <2>3. CASE l # 0
    BY <1>7, <2>1, <2>3
  <2>4. QED
    BY <2>1, <2>2, <2>3
<1>10. SetupTypes'
  BY <1>7, <1>8, <1>9 DEF SetupTypes
<1>11. \A m \in Oobe!Sectors : disk'[m].kind = "record" => disk'[m] = disk[m]
  BY <1>5, <1>7
<1>12. /\ disk'[Oobe!StateSector(u)] = disk[Oobe!StateSector(u)]
       /\ disk'[Oobe!StateSector(Oobe!Whole)] = disk[Oobe!StateSector(Oobe!Whole)]
  BY <1>2, <1>3, <1>7, RegionFacts, DriveFacts
<1>13. RecordsOk'
  <2>1. SUFFICES ASSUME NEW m \in Oobe!Sectors, disk'[m].kind = "record"
                 PROVE  /\ disk'[m].target \in Oobe!Regions /\ Oobe!RoomFor(disk'[m].target)
                        /\ m = Oobe!StateSector(disk'[m].target)
                        /\ disk'[m].target # Oobe!Whole => disk'[0] = Oobe!Table \/ m # Oobe!StateSector(Oobe!Whole)
    BY DEF RecordsOk
  <2>2. /\ disk'[m] = disk[m] /\ disk[m].target \in Oobe!Regions /\ Oobe!RoomFor(disk[m].target)
        /\ m = Oobe!StateSector(disk[m].target)
        /\ disk[m].target # Oobe!Whole => disk[0] = Oobe!Table \/ m # Oobe!StateSector(Oobe!Whole)
    BY <1>11, <2>1 DEF RecordsOk
  <2>3. CASE disk'[0] = disk[0]
    BY <2>2, <2>3
  <2>4. CASE u = Oobe!Whole
    BY <1>2, <2>2, <2>4
  <2>5. QED
    BY <1>9, <2>3, <2>4
<1>14. ASSUME NEW t \in Oobe!Regions, Stored(t), Live(t)'
       PROVE  /\ Live(t) /\ t # u /\ disk'[Oobe!StateSector(t)] = disk[Oobe!StateSector(t)]
              /\ \A i \in 0 .. Oobe!ImageSize : disk'[t.start + i] = disk[t.start + i]
  <2>1. t # u
    BY <1>2, <1>14 DEF Stored
  <2>2. Live(t)
    BY <1>9, <1>14, DriveFacts DEF Live
  <2>3. Oobe!RoomFor(t) /\ t # Oobe!Whole
    BY <1>2, <2>1, <2>2, <1>14, StoredApart
  <2>4. disk[0] = Oobe!Table /\ disk'[0] = Oobe!Table
    BY <1>14, <2>2, <2>3 DEF Live
  <2>5. CASE u = Oobe!Whole
    <3>1. n = 0
      BY <1>1, <1>3, <2>4, <2>5, DriveFacts
    <3>2. l = 0
      BY <2>5, <3>1, DriveFacts
    <3>3. disk'[l] = disk[l]
      BY <2>4, <3>2
    <3>4. QED
      BY <1>7, <2>1, <2>2, <3>3
  <2>6. CASE u # Oobe!Whole
    <3>1. /\ \A i \in 0 .. Oobe!ImageSize : t.start + i # l
          /\ Oobe!StateSector(t) # l
      <4>1. \A i, j \in 0 .. Oobe!ImageSize : t.start + i # u.start + j
        BY <1>2, <2>1, <2>3, <2>6, PartitionsApart
      <4>2. Oobe!StateSector(t) # 0
        BY <2>3, RoomFacts
      <4>3. \A i \in 0 .. Oobe!ImageSize : u.start + i # Oobe!StateSector(t)
        BY <1>2, <2>1, <2>3, <2>6, <4>2, PartitionsApart
      <4>4. QED
        BY <1>3, <4>1, <4>3
    <3>2. Oobe!StateSector(t) \in Oobe!Sectors /\ \A i \in 0 .. Oobe!ImageSize : t.start + i \in Oobe!Sectors
      BY <2>3, RoomFacts, RegionFacts
    <3>3. QED
      BY <1>7, <2>1, <2>2, <3>1, <3>2
  <2>7. QED
    BY <2>5, <2>6
<1>15. ImagesOk'
  <2>1. SUFFICES ASSUME NEW t \in Oobe!Regions, Stored(t)', Live(t)'
                 PROVE  \E b \in Build : Oobe!HoldsImage(t, b)'
    BY DEF ImagesOk
  <2>2. Stored(t)
    BY <1>11, <2>1, RegionFacts DEF Stored, RecordOn
  <2>3. Live(t) /\ \A i \in 0 .. Oobe!ImageSize : disk'[t.start + i] = disk[t.start + i]
    BY <1>14, <2>1, <2>2
  <2>4. PICK b \in Build : Oobe!HoldsImage(t, b)
    BY <2>2, <2>3 DEF ImagesOk
  <2>5. t.start + 0 = t.start /\ 0 \in 0 .. Oobe!ImageSize /\ Oobe!Parts \subseteq 0 .. Oobe!ImageSize
    BY RegionFacts, DriveFacts
  <2>6. Oobe!HoldsImage(t, b)'
    BY <2>3, <2>4, <2>5 DEF Oobe!HoldsImage
  <2>7. QED
    BY <2>6
<1>16. CreatedOk'
  <2>1. SUFFICES ASSUME NEW t \in Oobe!Regions, created[t] # NoAccount, Live(t)'
                 PROVE  Oobe!StateSector(t) # 0 /\ disk'[Oobe!StateSector(t)] = Oobe!Record("READY", t, created[t])
    BY <1>8 DEF CreatedOk
  <2>2. Live(t)
    BY <1>9, <2>1, DriveFacts DEF Live
  <2>3. Oobe!StateSector(t) # 0 /\ disk[Oobe!StateSector(t)] = Oobe!Record("READY", t, created[t])
    BY <2>1, <2>2 DEF CreatedOk
  <2>4. Stored(t)
    <3>1. "READY" \in Oobe!Stages /\ created[t] \in Account \cup {NoAccount}
      BY DEF SetupTypes, Oobe!Stages
    <3>2. QED
      BY <2>3, <3>1, DriveFacts DEF Stored, RecordOn
  <2>5. QED
    BY <1>14, <2>1, <2>3, <2>4
<1>17. PhaseOk'
  <2>1. Live(u)'
    BY <1>2, <1>8, <1>9 DEF Live
  <2>2. RecordOn(u)'
    BY <1>2, <1>8, <1>12 DEF RecordOn
  <2>3. QED
    BY <1>1, <1>2, <1>8, <1>12, <2>1, <2>2 DEF PhaseOk, OobeScreens
<1>18. JobOk'
  <2>1. CASE ~ok
    <3>1. job' = Oobe!NoJob /\ install'.started
      BY <1>8, <2>1
    <3>2. QED
      BY <3>1 DEF JobOk
  <2>2. CASE ok
    <3>1. job' = [next |-> n + 1, image |-> Oobe!Image(media), target |-> u]
      BY <1>1, <1>8, <2>2
    <3>2. disk'[l] = c /\ install' = install
      BY <1>7, <1>8, <2>2
    <3>3. disk'[u.start] = Oobe!Header
      <4>1. CASE n = 0
        BY <1>3, <1>4, <3>2, <4>1
      <4>2. CASE n # 0
        <5>1. u.start # l /\ u.start \in Oobe!Sectors
          BY SMTT(30), <1>3, <1>2, <4>2, RegionFacts, DriveFacts
        <5>2. QED
          BY <1>1, <1>3, <1>7, <4>2, <5>1
      <4>3. QED
        BY <4>1, <4>2
    <3>4. ASSUME NEW i \in Oobe!Parts, i < n + 1
          PROVE  disk'[u.start + i] = Oobe!Data(media, i)
      <4>1. i \in 1 .. Oobe!ImageSize
        BY DriveFacts
      <4>2. CASE i = n
        BY <1>3, <1>4, <3>2, <4>1, <4>2
      <4>3. CASE i # n
        <5>1. i < n /\ u.start + i # l /\ u.start + i \in Oobe!Sectors
          BY <1>3, <3>4, <4>1, <4>3
        <5>2. QED
          BY <1>1, <1>7, <5>1
      <4>4. QED
        BY <4>2, <4>3
    <3>5. Oobe!Image(media)' = Oobe!Image(media)
      BY <1>8 DEF Oobe!Image
    <3>6. job'.next = n + 1 /\ n + 1 \in 0 .. Oobe!ImageSize + 1
      BY <1>3, <3>1
    <3>7. QED
      BY <1>1, <1>8, <3>1, <3>2, <3>3, <3>4, <3>5, <3>6 DEF JobOk
  <2>3. QED
    BY <2>1, <2>2
<1>19. QED
  BY <1>10, <1>13, <1>15, <1>16, <1>17, <1>18

-----------------------------------------------------------------------------
LEMMA FirstIsMember ==
    ASSUME NEW S, S \subseteq Nat, S # {}
    PROVE  Oobe!First(S) \in S
<1>1. \E k \in S : \A j \in S : k <= j
  BY LeastOfNaturals
<1>2. QED
  BY <1>1 DEF Oobe!First

(* A start that finds a pending record goes on with its target. *)
LEMMA PendingFacts ==
    ASSUME SetupTypes, RecordsOk, NEW bad, Oobe!Pending(bad) # <<>>
    PROVE  LET t == Oobe!Pending(bad)[1].target
           IN  /\ t \in Oobe!Regions /\ RecordOn(t) /\ Live(t)
               /\ disk[Oobe!StateSector(t)].stage = "PENDING_INSTALL"
<1> DEFINE places == IF Oobe!Visible(bad) = <<>> THEN <<Oobe!Whole>> ELSE Oobe!Visible(bad)
           found == {i \in DOMAIN places : /\ Oobe!RecordReadable(places[i], bad)
                                           /\ disk[Oobe!StateSector(places[i])].stage = "PENDING_INSTALL"}
<1>1. /\ DOMAIN places \subseteq Nat
      /\ \A i \in DOMAIN places : /\ places[i] \in Oobe!Regions
                                  /\ disk[0] = Oobe!Table \/ places[i] = Oobe!Whole
  <2>1. CASE Oobe!Visible(bad) = <<>>
    <3>1. places = <<Oobe!Whole>>
      BY <2>1
    <3> HIDE DEF places
    <3>2. QED
      BY <3>1, DriveFacts
  <2>2. CASE Oobe!Visible(bad) # <<>>
    <3>1. disk[0] = Oobe!Table /\ Oobe!Visible(bad) = Partitions
      BY <2>2 DEF Oobe!Visible
    <3>2. places = Partitions
      BY SMTT(30), <2>2, <3>1
    <3> HIDE DEF places
    <3>3. QED
      BY <3>1, <3>2, DriveFacts
  <2>3. QED
    BY <2>1, <2>2
<1>2. found # {} /\ Oobe!Pending(bad) = <<disk[Oobe!StateSector(places[Oobe!First(found)])]>>
  BY DEF Oobe!Pending
<1> HIDE DEF places
<1>3. Oobe!First(found) \in found
  <2>1. found \subseteq Nat
    BY <1>1
  <2>2. QED
    BY <1>2, <2>1, FirstIsMember
<1>4. PICK p \in Oobe!Regions : /\ Oobe!RecordReadable(p, bad) /\ disk[Oobe!StateSector(p)].stage = "PENDING_INSTALL"
                                /\ Oobe!Pending(bad) = <<disk[Oobe!StateSector(p)]>>
                                /\ disk[0] = Oobe!Table \/ p = Oobe!Whole
  BY <1>1, <1>2, <1>3
<1>5. /\ Oobe!StateSector(p) # 0 /\ Oobe!StateSector(p) \in Oobe!Sectors /\ disk[Oobe!StateSector(p)].kind = "record"
  BY <1>4, RegionFacts DEF Oobe!RecordReadable
<1> DEFINE t == disk[Oobe!StateSector(p)].target
<1>6. /\ t \in Oobe!Regions /\ Oobe!StateSector(p) = Oobe!StateSector(t)
      /\ t # Oobe!Whole => disk[0] = Oobe!Table \/ Oobe!StateSector(p) # Oobe!StateSector(Oobe!Whole)
  BY <1>5 DEF RecordsOk
<1>7. RecordOn(t) /\ Live(t)
  BY <1>4, <1>5, <1>6 DEF RecordOn, Live
<1>8. Oobe!Pending(bad)[1].target = t
  BY <1>4
<1>9. QED
  BY <1>4, <1>6, <1>7, <1>8

(* What a start finds as installed is stored for the target it is found on. *)
LEMMA LoadedFacts ==
    ASSUME SetupTypes, RecordsOk, ImagesOk, NEW bad, Oobe!Loaded(bad) # <<>>
    PROVE  LET t == Oobe!Existing(bad)[1]
           IN  /\ t \in Oobe!Regions /\ Oobe!Existing(bad) # <<>> /\ Stored(t) /\ Live(t)
               /\ Oobe!Loaded(bad)[1] = disk[Oobe!StateSector(t)] /\ Oobe!Loaded(bad)[1].target = t
<1> DEFINE e == Oobe!Existing(bad)[1]
           found == {i \in DOMAIN Oobe!Visible(bad) : Oobe!HeaderAt(Oobe!Visible(bad)[i].start, bad)}
<1>1. /\ Oobe!Existing(bad) # <<>> /\ Oobe!RecordReadable(e, bad)
      /\ disk[Oobe!StateSector(e)].stage \in {"NEEDS_OOBE", "READY"}
      /\ Oobe!Loaded(bad) = <<disk[Oobe!StateSector(e)]>>
  BY DEF Oobe!Loaded
<1>2. e \in Oobe!Regions /\ Live(e) /\ (e = Oobe!Whole => disk[0] = Oobe!Header)
  <2>1. CASE Oobe!HeaderAt(0, bad)
    BY <2>1, DriveFacts DEF Oobe!Existing, Oobe!HeaderAt, Live
  <2>2. CASE ~Oobe!HeaderAt(0, bad)
    <3>1. found # {} /\ e = Oobe!Visible(bad)[Oobe!First(found)]
      BY <1>1, <2>2 DEF Oobe!Existing
    <3>2. disk[0] = Oobe!Table /\ Oobe!Visible(bad) = Partitions
      BY <3>1 DEF Oobe!Visible
    <3>3. Oobe!First(found) \in found
      <4>1. found \subseteq Nat
        BY <3>2, DriveFacts
      <4>2. QED
        BY <3>1, <4>1, FirstIsMember
    <3>4. PICK i \in DOMAIN Partitions : e = Partitions[i] /\ Oobe!HeaderAt(e.start, bad)
      BY <3>1, <3>2, <3>3
    <3>5. QED
      BY <3>2, <3>4, DriveFacts DEF Live, Oobe!HeaderAt
  <2>3. QED
    BY <2>1, <2>2
<1> HIDE DEF e
<1> DEFINE t == disk[Oobe!StateSector(e)].target
<1>3. /\ Oobe!StateSector(e) # 0 /\ Oobe!StateSector(e) \in Oobe!Sectors /\ disk[Oobe!StateSector(e)].kind = "record"
  BY <1>1, <1>2, RegionFacts DEF Oobe!RecordReadable
<1>4. /\ t \in Oobe!Regions /\ Oobe!RoomFor(t) /\ Oobe!StateSector(e) = Oobe!StateSector(t)
      /\ t # Oobe!Whole => disk[0] = Oobe!Table \/ Oobe!StateSector(e) # Oobe!StateSector(Oobe!Whole)
  BY <1>3 DEF RecordsOk
<1>5. Stored(t)
  BY <1>1, <1>3, <1>4 DEF Stored, RecordOn
<1>6. t = e
  <2>1. CASE e = Oobe!Whole
    BY <1>2, <1>4, <2>1, DriveFacts
  <2>2. CASE e # Oobe!Whole
    <3>1. disk[0] = Oobe!Table
      BY <1>2, <2>2 DEF Live
    <3>2. t # Oobe!Whole
      BY <1>5, <3>1, WholeHasHeader, DriveFacts
    <3>3. QED
      BY <1>2, <1>3, <1>4, <2>2, <3>2, PartitionsApart
  <2>3. QED
    BY <2>1, <2>2
<1>7. Oobe!Loaded(bad)[1] = disk[Oobe!StateSector(e)]
  BY <1>1
<1>8. QED
  BY <1>1, <1>2, <1>5, <1>6, <1>7 DEF e

LEMMA PowerOnStep ==
    ASSUME SetupOk, NEW bad \in Oobe!BadSectors, Oobe!PowerOn(bad)
    PROVE  SetupOk'
<1> USE DEF SetupOk
<1>1. /\ disk' = disk /\ created' = created /\ media' \in Media
      /\ seen' = Oobe!Visible(bad) /\ install' = Oobe!Clean /\ job' = Oobe!NoJob
  BY DEF Oobe!PowerOn
<1>2. RecordsOk' /\ ImagesOk' /\ CreatedOk'
  BY <1>1, QuietStep
<1>3. JobOk'
  BY <1>1 DEF JobOk, Oobe!Clean
<1>4. /\ seen' \in {Partitions, <<>>} /\ (seen' # <<>> => disk[0] = Oobe!Table)
  BY <1>1 DEF Oobe!Visible, Oobe!BadSectors
<1>5. /\ media' \in Build /\ install' \in [complete : BOOLEAN, failed : BOOLEAN, started : BOOLEAN]
      /\ ~install'.started
  BY <1>1, DriveAssumption DEF Oobe!Clean
<1>6. CASE Oobe!Pending(bad) # <<>>
  <2>1. phase' = "INSTALLING" /\ region' = Oobe!Pending(bad)[1].target /\ account' = NoAccount
    BY <1>6 DEF Oobe!PowerOn
  <2>2. /\ region' \in Oobe!Regions /\ RecordOn(region)' /\ Live(region)'
        /\ disk'[Oobe!StateSector(region')].stage = "PENDING_INSTALL"
    BY <1>1, <1>6, <2>1, PendingFacts DEF RecordOn, Live
  <2>3. PhaseOk'
    BY <2>1, <2>2 DEF PhaseOk, OobeScreens
  <2>4. SetupTypes'
    BY <1>1, <1>4, <1>5, <2>1, <2>2 DEF SetupTypes, Oobe!Phases
  <2>5. QED
    BY <1>2, <1>3, <2>3, <2>4
<1>7. CASE Oobe!Pending(bad) = <<>> /\ Oobe!Loaded(bad) # <<>>
  <2>1. /\ phase' = IF Oobe!Loaded(bad)[1].stage = "READY" THEN "LOCKSCREEN" ELSE "USER_OOBE"
        /\ region' = Oobe!Loaded(bad)[1].target /\ account' = Oobe!Loaded(bad)[1].account
    BY <1>7 DEF Oobe!PowerOn
  <2>2. /\ region' \in Oobe!Regions /\ Stored(region)' /\ Live(region)'
        /\ Stored(region') /\ Live(region')
        /\ Oobe!Loaded(bad)[1] = disk[Oobe!StateSector(region')]
    BY <1>1, <1>7, <2>1, LoadedFacts DEF Stored, RecordOn, Live
  <2>3. Oobe!Loaded(bad)[1].account \in Account \cup {NoAccount}
    <3>1. disk[Oobe!StateSector(region')] \in Oobe!Content /\ disk[Oobe!StateSector(region')].kind = "record"
      BY <2>2, RegionFacts DEF SetupTypes, Stored, RecordOn
    <3>2. QED
      BY <2>2, <3>1 DEF Oobe!Content, Oobe!Blank, Oobe!Table, Oobe!Header
  <2>4. phase' = "USER_OOBE" => created'[region'] = NoAccount
    <3>1. SUFFICES ASSUME phase' = "USER_OOBE", created[region'] # NoAccount PROVE FALSE
      BY <1>1
    <3>2. disk[Oobe!StateSector(region')] = Oobe!Record("READY", region', created[region'])
      BY <2>2, <3>1 DEF CreatedOk
    <3>3. disk[Oobe!StateSector(region')].stage # "READY"
      BY <2>1, <2>2, <3>1
    <3>4. QED
      BY <3>2, <3>3 DEF Oobe!Record
  <2>5. PhaseOk'
    BY <2>1, <2>2, <2>4 DEF PhaseOk, OobeScreens
  <2>6. SetupTypes'
    BY <1>1, <1>4, <1>5, <2>1, <2>2, <2>3 DEF SetupTypes, Oobe!Phases
  <2>7. QED
    BY <1>2, <1>3, <2>5, <2>6
<1>8. CASE Oobe!Pending(bad) = <<>> /\ Oobe!Loaded(bad) = <<>>
  <2>1. phase' \in {"WELCOME", "NONE"} /\ region' = Oobe!NoRegion /\ account' = NoAccount
    BY <1>8 DEF Oobe!PowerOn
  <2>2. PhaseOk'
    BY <1>1, <1>4, <2>1 DEF PhaseOk, OobeScreens
  <2>3. SetupTypes'
    BY <1>1, <1>4, <1>5, <2>1 DEF SetupTypes, Oobe!Phases
  <2>4. QED
    BY <1>2, <1>3, <2>2, <2>3
<1>9. QED
  BY <1>6, <1>7, <1>8

-----------------------------------------------------------------------------
(* Steps that write nothing. *)
LEMMA ScreenStep ==
    ASSUME SetupOk,
           \/ Oobe!PowerCut \/ Oobe!Reboots \/ Oobe!InstallRefused \/ Oobe!InstallBegins
           \/ Oobe!ClickNext \/ Oobe!ClickSkip \/ \E t \in Oobe!Regions : Oobe!ClickInstallRefused(t)
           \/ Oobe!OobeGoesOn \/ Oobe!ShowPrompt \/ Oobe!Unlock \/ \E p \in Account : Oobe!TypePassword(p)
    PROVE  SetupOk'
<1> USE DEF SetupOk
<1>1. disk' = disk /\ created' = created
  BY
     DEF Oobe!PowerCut, Oobe!Reboots, Oobe!InstallRefused, Oobe!InstallBegins, Oobe!ClickNext,
         Oobe!ClickSkip, Oobe!ClickInstallRefused,
         Oobe!OobeGoesOn, Oobe!ShowPrompt, Oobe!Unlock, Oobe!TypePassword
<1>2. RecordsOk' /\ ImagesOk' /\ CreatedOk'
  BY <1>1, QuietStep
<1>3. /\ \A t : Live(t)' <=> Live(t)
      /\ \A t : RecordOn(t)' <=> RecordOn(t)
      /\ \A t : Stored(t)' <=> Stored(t)
  BY <1>1 DEF Live, RecordOn, Stored
<1>4. CASE Oobe!PowerCut \/ Oobe!Reboots
  <2>1. /\ phase' = "OFF" /\ seen' = <<>> /\ region' = Oobe!NoRegion /\ install' = Oobe!Clean
        /\ media' = media /\ account' \in {NoAccount, account} /\ job' \in {Oobe!NoJob, job}
    BY <1>4 DEF Oobe!PowerCut, Oobe!Reboots
  <2>2. job' = Oobe!NoJob
    BY <1>4 DEF Oobe!PowerCut, Oobe!Reboots, JobOk
  <2>3. QED
    BY <1>1, <1>2, <2>1, <2>2 DEF SetupTypes, PhaseOk, JobOk, OobeScreens, Oobe!Phases, Oobe!Clean
<1>5. CASE Oobe!InstallRefused
  <2>1. /\ job = Oobe!NoJob /\ job' = Oobe!NoJob /\ phase = "INSTALLING" /\ ~install.started
        /\ install' = [complete |-> FALSE, failed |-> TRUE, started |-> FALSE]
        /\ UNCHANGED <<phase, media, seen, region, account>>
    BY <1>5 DEF Oobe!InstallRefused, Oobe!Idle
  <2>2. QED
    BY <1>1, <1>2, <1>3, <2>1 DEF SetupTypes, PhaseOk, JobOk, OobeScreens
<1>6. CASE Oobe!InstallBegins
  <2>1. /\ phase = "INSTALLING" /\ ~install.started /\ job' = Oobe!StartJob(Oobe!Image(media), region)
        /\ UNCHANGED <<phase, media, seen, region, install, account>>
    BY <1>6 DEF Oobe!InstallBegins
  <2>2. Oobe!Image(media)' = Oobe!Image(media)
    BY <2>1 DEF Oobe!Image
  <2>3. JobOk'
    BY <2>1, <2>2, DriveFacts DEF JobOk, Oobe!StartJob
  <2>4. QED
    BY <1>1, <1>2, <1>3, <2>1, <2>3 DEF SetupTypes, PhaseOk
<1>7. CASE \/ Oobe!ClickNext \/ Oobe!ClickSkip \/ Oobe!OobeGoesOn \/ Oobe!ShowPrompt \/ Oobe!Unlock
           \/ \E p \in Account : Oobe!TypePassword(p)
  <2>1. /\ UNCHANGED <<media, seen, region, install, account, job>> /\ phase # "INSTALLING"
        /\ \/ phase' = phase
           \/ phase = "WELCOME" /\ phase' = "INSTALLER"
           \/ phase \in OobeScreens /\ phase' \in OobeScreens
           \/ phase' = "NONE"
    <3>1. CASE Oobe!ClickNext \/ Oobe!ClickSkip \/ Oobe!ShowPrompt \/ \E p \in Account : Oobe!TypePassword(p)
      BY <3>1 DEF Oobe!ClickNext, Oobe!ClickSkip, Oobe!ShowPrompt, Oobe!TypePassword
    <3>2. CASE Oobe!Unlock
      BY <3>2 DEF Oobe!Unlock
    <3>3. CASE Oobe!OobeGoesOn
      <4>1. phase \in OobeScreens /\ Oobe!After[phase] \in OobeScreens /\ "INSTALLING" \notin OobeScreens
        BY <3>3 DEF Oobe!OobeGoesOn, Oobe!After, OobeScreens
      <4>2. QED
        BY <3>3, <4>1 DEF Oobe!OobeGoesOn
    <3>4. QED
      BY <1>7, <3>1, <3>2, <3>3
  <2>2. SetupTypes'
    BY <1>1, <2>1 DEF SetupTypes, Oobe!Phases, OobeScreens
  <2>3. JobOk'
    BY <2>1 DEF JobOk
  <2>4. PhaseOk'
    BY <1>1, <1>3, <2>1 DEF PhaseOk, OobeScreens
  <2>5. QED
    BY <1>2, <2>2, <2>3, <2>4
<1>8. ASSUME NEW t \in Oobe!Regions, Oobe!ClickInstallRefused(t)
      PROVE  SetupOk'
  <2>1. /\ UNCHANGED <<phase, media, seen, region, account, job>> /\ phase = "INSTALLER"
        /\ install' = [install EXCEPT !.failed = TRUE]
    BY <1>8 DEF Oobe!ClickInstallRefused
  <2>2. install' \in [complete : BOOLEAN, failed : BOOLEAN, started : BOOLEAN]
    BY <2>1 DEF SetupTypes
  <2>3. JobOk'
    BY <2>1 DEF JobOk, SetupTypes
  <2>4. QED
    BY <1>1, <1>2, <1>3, <2>1, <2>2, <2>3 DEF SetupTypes, PhaseOk, OobeScreens
<1>9. QED
  BY <1>4, <1>5, <1>6, <1>7, <1>8

(* A target is chosen. *)
LEMMA ClickInstallStep ==
    ASSUME SetupOk, NEW u \in Oobe!Regions, NEW ok \in BOOLEAN, Oobe!ClickInstall(u, ok)
    PROVE  SetupOk'
<1> USE DEF SetupOk
<1>1. /\ phase = "INSTALLER" /\ u \in Oobe!Targets /\ Oobe!RoomFor(u)
      /\ Oobe!Persist("PENDING_INSTALL", u, NoAccount, ok)
      /\ created' = [t \in Oobe!Regions |->
                        IF Oobe!StateSector(t) = Oobe!StateSector(u) THEN NoAccount ELSE created[t]]
      /\ install' = IF ok THEN Oobe!Clean ELSE [install EXCEPT !.failed = TRUE]
      /\ phase' = IF ok THEN "OFF" ELSE phase
      /\ seen' = IF ok THEN <<>> ELSE seen
      /\ UNCHANGED <<media, region, account, job>>
  BY DEF Oobe!ClickInstall
<1>2. seen # <<>> => disk[0] = Oobe!Table
  BY <1>1 DEF PhaseOk
<1>3. job = Oobe!NoJob /\ job' = Oobe!NoJob
  BY <1>1 DEF JobOk
<1>4. Live(u)
  BY <1>1, <1>2 DEF Oobe!Targets, Live
<1>6. MayRecord("PENDING_INSTALL", u, NoAccount, ok)
  <2>1. created' \in [Oobe!Regions -> Account \cup {NoAccount}]
    BY <1>1 DEF SetupTypes
  <2>2. /\ created'[u] = NoAccount
        /\ \A t \in Oobe!Regions : created'[t] \in {created[t], NoAccount}
        /\ \A t \in Oobe!Regions : Oobe!StateSector(t) = Oobe!StateSector(u) => created'[t] = NoAccount
    BY <1>1
  <2>3. QED
    BY <1>1, <1>4, <2>1, <2>2 DEF MayRecord, Oobe!Stages
<1>7. /\ disk' \in [Oobe!Sectors -> Oobe!Content] /\ disk'[0] = disk[0]
      /\ RecordsOk' /\ ImagesOk' /\ CreatedOk'
  BY <1>1, <1>6, RecordWrite
<1>8. install' \in [complete : BOOLEAN, failed : BOOLEAN, started : BOOLEAN]
      /\ (install'.complete => install'.started)
  <2>1. CASE ok
    BY <1>1, <2>1 DEF Oobe!Clean
  <2>2. CASE ~ok
    BY <1>1, <2>2 DEF SetupTypes, JobOk
  <2>3. QED
    BY <2>1, <2>2
<1>9. SetupTypes'
  BY <1>1, <1>7, <1>8 DEF SetupTypes, Oobe!Phases, MayRecord
<1>10. PhaseOk' /\ JobOk'
  BY <1>1, <1>2, <1>3, <1>7, <1>8 DEF PhaseOk, JobOk, OobeScreens
<1>11. QED
  BY <1>7, <1>9, <1>10

(* The installation is complete and its target waits for an account. *)
LEMMA InstallEndsStep ==
    ASSUME SetupOk, NEW ok \in BOOLEAN, Oobe!InstallEnds(ok)
    PROVE  SetupOk'
<1> USE DEF SetupOk
<1>1. /\ phase = "INSTALLING" /\ job # Oobe!NoJob /\ job.next = Oobe!ImageSize + 1
      /\ Oobe!Persist("NEEDS_OOBE", region, NoAccount, ok)
      /\ install' = [complete |-> ok, failed |-> ~ok, started |-> TRUE]
      /\ job' = Oobe!NoJob
      /\ UNCHANGED <<phase, media, seen, region, account, created>>
  BY DEF Oobe!InstallEnds, Oobe!JobDone, Oobe!Idle
<1>2. /\ region \in Oobe!Regions /\ RecordOn(region) /\ Live(region) /\ Oobe!RoomFor(region)
      /\ ~install.started /\ disk[Oobe!StateSector(region)].stage = "PENDING_INSTALL"
  BY <1>1, RegionFacts DEF PhaseOk, RecordOn, RecordsOk, JobOk
<1>3. media \in Build /\ Oobe!HoldsImage(region, media)
  BY <1>1, DriveFacts DEF SetupTypes, JobOk, Oobe!HoldsImage
<1>4. created[region] = NoAccount
  <2>1. SUFFICES ASSUME created[region] # NoAccount PROVE FALSE
    OBVIOUS
  <2>2. disk[Oobe!StateSector(region)] = Oobe!Record("READY", region, created[region])
    BY <1>2, <2>1 DEF CreatedOk
  <2>3. QED
    BY <1>2, <2>2 DEF Oobe!Record
<1>5. MayRecord("NEEDS_OOBE", region, NoAccount, ok)
  BY <1>1, <1>2, <1>3, <1>4 DEF MayRecord, Oobe!Stages, SetupTypes
<1>6. /\ disk' \in [Oobe!Sectors -> Oobe!Content] /\ disk'[0] = disk[0]
      /\ RecordsOk' /\ ImagesOk' /\ CreatedOk'
      /\ disk'[Oobe!StateSector(region)] \in {disk[Oobe!StateSector(region)], Oobe!Record("NEEDS_OOBE", region, NoAccount)}
  BY <1>1, <1>5, RecordWrite
<1>7. RecordOn(region)' /\ Live(region)'
  <2>1. /\ Oobe!Record("NEEDS_OOBE", region, NoAccount).kind = "record"
        /\ Oobe!Record("NEEDS_OOBE", region, NoAccount).target = region
    BY DEF Oobe!Record
  <2>2. QED
    BY <1>1, <1>2, <1>6, <2>1 DEF RecordOn, Live
<1>8. SetupTypes'
  BY <1>1, <1>6 DEF SetupTypes
<1>9. PhaseOk' /\ JobOk'
  BY <1>1, <1>2, <1>7 DEF PhaseOk, JobOk, OobeScreens
<1>10. QED
  BY <1>6, <1>8, <1>9

(* The account is recorded, at once and again after the last screen. *)
LEMMA AccountStep ==
    ASSUME SetupOk, \E ok \in BOOLEAN : Oobe!OobeEnds(ok) \/ \E a \in Account : Oobe!CreateAccount(a, ok)
    PROVE  SetupOk'
<1> USE DEF SetupOk
<1>1. PICK ok \in BOOLEAN, a \in Account :
          \/ Oobe!OobeEnds(ok) /\ a = account
          \/ Oobe!CreateAccount(a, ok)
  <2>1. PICK ok \in BOOLEAN : Oobe!OobeEnds(ok) \/ \E a \in Account : Oobe!CreateAccount(a, ok)
    OBVIOUS
  <2>2. CASE Oobe!OobeEnds(ok)
    <3>1. account \in Account
      BY <2>2 DEF Oobe!OobeEnds, PhaseOk, OobeScreens, SetupTypes
    <3>2. QED
      BY <2>2, <3>1
  <2>3. QED
    BY <2>1, <2>2
<1>2. /\ phase \in OobeScreens \cup {"USER_OOBE"} /\ Oobe!Persist("READY", region, a, ok)
      /\ UNCHANGED <<media, seen, region, job>>
  BY <1>1 DEF Oobe!OobeEnds, Oobe!CreateAccount, OobeScreens
<1>3. /\ region \in Oobe!Regions /\ Stored(region) /\ Live(region) /\ Oobe!RoomFor(region) /\ job = Oobe!NoJob
  BY <1>2, RegionFacts DEF PhaseOk, Stored, RecordOn, RecordsOk, JobOk, OobeScreens
<1>4. PICK b \in Build : Oobe!HoldsImage(region, b)
  BY <1>3 DEF ImagesOk
<1>5. a # NoAccount
  BY DriveAssumption
<1>6. /\ created' \in [Oobe!Regions -> Account \cup {NoAccount}]
      /\ \A t \in Oobe!Regions : t # region => created'[t] = created[t]
      /\ created'[region] # NoAccount => a = created'[region] /\ (ok \/ created[region] = a)
  <2>1. CASE Oobe!OobeEnds(ok) /\ a = account
    BY <2>1 DEF Oobe!OobeEnds, PhaseOk, OobeScreens, SetupTypes
  <2>2. CASE Oobe!CreateAccount(a, ok)
    <3>1. phase = "USER_OOBE" /\ created[region] = NoAccount
          /\ created' = IF ok THEN [created EXCEPT ![region] = a] ELSE created
      BY <2>2 DEF Oobe!CreateAccount, PhaseOk
    <3>2. QED
      BY <1>3, <3>1 DEF SetupTypes
  <2>3. QED
    BY <1>1, <2>1, <2>2
<1>7. MayRecord("READY", region, a, ok)
  BY <1>3, <1>4, <1>6 DEF MayRecord, Oobe!Stages
<1>8. /\ disk' \in [Oobe!Sectors -> Oobe!Content] /\ disk'[0] = disk[0]
      /\ RecordsOk' /\ ImagesOk' /\ CreatedOk'
      /\ disk'[Oobe!StateSector(region)] \in {disk[Oobe!StateSector(region)], Oobe!Record("READY", region, a)}
  BY <1>2, <1>7, RecordWrite
<1>9. Stored(region)' /\ Live(region)'
  <2>1. /\ Oobe!Record("READY", region, a).kind = "record" /\ Oobe!Record("READY", region, a).target = region
        /\ Oobe!Record("READY", region, a).stage = "READY"
    BY DEF Oobe!Record
  <2>2. QED
    BY <1>2, <1>3, <1>8, <2>1 DEF Stored, RecordOn, Live
<1>10. CASE Oobe!OobeEnds(ok) /\ a = account
  <2>1. /\ phase \in OobeScreens /\ (phase' = "NONE" \/ phase' = phase)
        /\ UNCHANGED <<install, account, created>>
    BY <1>10 DEF Oobe!OobeEnds, OobeScreens
  <2>2. SetupTypes'
    BY <1>2, <1>8, <2>1 DEF SetupTypes, Oobe!Phases
  <2>3. PhaseOk' /\ JobOk'
    BY <1>2, <1>3, <1>9, <2>1 DEF PhaseOk, JobOk, OobeScreens
  <2>4. QED
    BY <1>8, <2>2, <2>3
<1>11. CASE Oobe!CreateAccount(a, ok)
  <2>1. /\ phase = "USER_OOBE" /\ install' = [install EXCEPT !.failed = ~ok]
        /\ account' = IF ok THEN a ELSE account
        /\ phase' = IF ok THEN "OOBE_HI" ELSE phase
        /\ created' = IF ok THEN [created EXCEPT ![region] = a] ELSE created
    BY <1>11 DEF Oobe!CreateAccount
  <2>2. /\ install' \in [complete : BOOLEAN, failed : BOOLEAN, started : BOOLEAN]
        /\ install'.complete => install'.started
    BY <2>1 DEF SetupTypes, JobOk
  <2>3. SetupTypes'
    BY <1>2, <1>6, <1>8, <2>1, <2>2 DEF SetupTypes, Oobe!Phases
  <2>4. /\ phase' = "USER_OOBE" => created'[region] = NoAccount
        /\ phase' \in OobeScreens => account' = created'[region] /\ account' # NoAccount
    BY <1>3, <1>5, <2>1 DEF PhaseOk, OobeScreens, SetupTypes
  <2>5. PhaseOk' /\ JobOk'
    BY <1>2, <1>3, <1>9, <2>1, <2>2, <2>4 DEF PhaseOk, JobOk, OobeScreens
  <2>6. QED
    BY <1>8, <2>3, <2>5
<1>12. QED
  BY <1>1, <1>10, <1>11

LEMMA SetupStep ==
    ASSUME SetupOk, [Oobe!SetupNext]_setupVars
    PROVE  SetupOk'
<1>1. CASE Oobe!SetupNext
  <2>1. CASE \E bad \in Oobe!BadSectors : Oobe!PowerOn(bad)
    BY <2>1, PowerOnStep
  <2>2. CASE \E ok \in BOOLEAN : Oobe!InstallWrites(ok)
    BY <2>2, InstallWritesStep
  <2>3. CASE \E ok \in BOOLEAN : Oobe!InstallEnds(ok)
    BY <2>3, InstallEndsStep
  <2>4. CASE \E t \in Oobe!Regions, ok \in BOOLEAN : Oobe!ClickInstall(t, ok)
    BY <2>4, ClickInstallStep
  <2>5. CASE \E ok \in BOOLEAN : Oobe!OobeEnds(ok) \/ \E a \in Account : Oobe!CreateAccount(a, ok)
    BY <2>5, AccountStep
  <2>6. QED
    BY <1>1, <2>1, <2>2, <2>3, <2>4, <2>5, ScreenStep DEF Oobe!SetupNext, Oobe!SetupClick
<1>2. CASE UNCHANGED setupVars
  BY <1>2 DEF setupVars, SetupOk, SetupTypes, RecordsOk, ImagesOk, CreatedOk, PhaseOk, JobOk,
              Live, RecordOn, Stored, Oobe!HoldsImage, Oobe!Image
<1>3. QED
  BY <1>1, <1>2

LEMMA SetupBegins ==
    ASSUME Init
    PROVE  SetupOk
<1>1. PICK first \in {Oobe!Table, Oobe!Blank} : disk = [l \in Oobe!Sectors |-> IF l = 0 THEN first ELSE Oobe!Blank]
  BY DEF Init
<1>2. /\ phase = "OFF" /\ media \in Build /\ seen = <<>> /\ region = Oobe!NoRegion /\ install = Oobe!Clean
      /\ account = NoAccount /\ job = Oobe!NoJob /\ created = [t \in Oobe!Regions |-> NoAccount]
  BY DriveAssumption DEF Init, Oobe!SetupInit
<1>3. /\ disk \in [Oobe!Sectors -> Oobe!Content] /\ disk[0] \in {Oobe!Table, Oobe!Blank, Oobe!Header}
      /\ \A l \in Oobe!Sectors : disk[l].kind # "record"
  BY <1>1, DriveFacts DEF Oobe!Content
<1>4. SetupTypes /\ PhaseOk /\ JobOk
  BY <1>2, <1>3 DEF SetupTypes, PhaseOk, JobOk, Oobe!Phases, OobeScreens, Oobe!Clean
<1>5. RecordsOk /\ ImagesOk /\ CreatedOk
  BY <1>2, <1>3, RegionFacts DEF RecordsOk, ImagesOk, CreatedOk, Stored, RecordOn
<1>6. QED
  BY <1>4, <1>5 DEF SetupOk

THEOREM SetupInvariant == Spec => []SetupOk
<1>1. Init => SetupOk
  BY SetupBegins
<1>2. SetupOk /\ [Next]_partsVars => SetupOk'
  BY PartsMove, SetupStep
<1>3. QED
  BY <1>1, <1>2, PTL DEF Spec

(* What a start finds as installed is a complete image of one build,       *)
(* wherever power was cut or a write failed (update_setup_state,           *)
(* load_existing_install_state).                                           *)
THEOREM BootsWholeImages == Spec => []BootFindsWholeImage
<1>1. ASSUME SetupOk, Oobe!Loaded({}) # <<>>
      PROVE  \E b \in Build : Oobe!HoldsImage(Oobe!Existing({})[1], b)
  BY <1>1, LoadedFacts DEF SetupOk, ImagesOk
<1>2. SetupOk => BootFindsWholeImage
  BY <1>1 DEF BootFindsWholeImage, Oobe!BootFindsWholeImage
<1>3. QED
  BY <1>2, SetupInvariant, PTL

(* The account the user was told of is on the disk until its target, or    *)
(* one whose record shares its sector, is chosen again: on every drive and *)
(* with any sectors that sometimes cannot be read                          *)
(* (begin_oobe_account_creation, update_setup_state).                      *)
THEOREM AccountsSurvive == Spec => []AccountSurvives
<1>1. SetupOk => AccountSurvives
  BY DEF SetupOk, CreatedOk, Live, AccountSurvives, Oobe!AccountSurvives
<1>2. QED
  BY <1>1, SetupInvariant, PTL

-----------------------------------------------------------------------------
(* Applications *)
SectionRow == [virtual_address : Nat, virtual_size : Nat, raw_at : Nat, raw_size : Nat]
PeImages ==
    [file : Nat, size : Nat, headers : Nat, entry : Nat, sections : Seq(SectionRow), pe_offset : Nat,
     optional : Nat, signed : BOOLEAN, magic : {"PE32", "PE32+", "other"}, machine : {"AMD64", "other"}]
PeStates == [phase : {"idle", "allocate", "copy", "running"}, image : PeImages, memory : Seq(Int),
             held : SUBSET Nat, first : Nat, frames : Nat, next : Nat]

Covers(s, c) == s.virtual_address < c /\ c <= s.virtual_address + s.raw_size

(* v is what cell c holds of the headers and of the first n sections.      *)
LinkedBy(image, n, c, v) ==
    \/ \E k \in 1 .. n :
          /\ Covers(image.sections[k], c) /\ \A j \in k + 1 .. n : ~Covers(image.sections[j], c)
          /\ v = image.sections[k].raw_at + (c - 1 - image.sections[k].virtual_address)
    \/ /\ \A k \in 1 .. n : ~Covers(image.sections[k], c)
       /\ v = IF c <= image.headers /\ c <= image.file THEN c - 1 ELSE Apps!Zero

PeOk ==
    /\ pe \in PeStates
    /\ pe.held = Apps!InARow(pe.first, pe.frames)
    /\ pe.phase = "idle" => pe.frames = 0
    /\ pe.phase \in {"idle", "allocate"} => pe.next = 1
    /\ pe.phase \in {"copy", "running"} =>
          /\ pe.frames = Apps!FrameCount(pe.image.size) /\ Len(pe.memory) = pe.image.size
          /\ pe.next \in 1 .. Len(pe.image.sections) + 1
          /\ pe.phase = "running" => pe.next = Len(pe.image.sections) + 1
          /\ \A k \in 1 .. pe.next - 1 : Apps!SectionFits(pe.image, pe.image.sections[k])
          /\ \A c \in 1 .. pe.image.size :
                /\ LinkedBy(pe.image, pe.next - 1, c, pe.memory[c])
                /\ pe.memory[c] \in {Apps!Zero} \cup 0 .. pe.image.file - 1

LEMMA LargerAndSmaller ==
    ASSUME NEW a \in Nat, NEW b \in Nat
    PROVE  /\ Apps!Max({a, b}) = IF a <= b THEN b ELSE a
           /\ Apps!Min({a, b}) = IF a <= b THEN a ELSE b
<1>1. \A m \in {a, b} : (\A y \in {a, b} : m >= y) <=> m = (IF a <= b THEN b ELSE a)
  OBVIOUS
<1>2. \A m \in {a, b} : (\A y \in {a, b} : m <= y) <=> m = (IF a <= b THEN a ELSE b)
  OBVIOUS
<1>3. QED
  BY <1>1, <1>2 DEF Apps!Max, Apps!Min

LEMMA Rows ==
    ASSUME NEW first \in Nat, NEW count \in Nat
    PROVE  /\ Apps!InARow(first, count) \subseteq Nat
           /\ Apps!InARow(first, 0) = {} /\ Apps!InARow(first, 1) = {first}
           /\ Apps!InARow(first, count + 1) = Apps!InARow(first, count) \cup {first + count}
<1>1. /\ 0 .. 0 - 1 = {} /\ 0 .. 1 - 1 = {0} /\ \A index \in 0 .. count - 1 : first + index \in Nat
      /\ 0 .. (count + 1) - 1 = (0 .. count - 1) \cup {count} /\ first + 0 = first
  OBVIOUS
<1>2. ASSUME NEW S, NEW k
      PROVE  {first + index : index \in S \cup {k}} = {first + index : index \in S} \cup {first + k}
  BY Zenon
<1>3. Apps!InARow(first, count + 1) = Apps!InARow(first, count) \cup {first + count}
  BY <1>1, <1>2 DEF Apps!InARow
<1>4. Apps!InARow(first, count) \subseteq Nat
  BY <1>1 DEF Apps!InARow
<1>5. Apps!InARow(first, 0) = {} /\ Apps!InARow(first, 1) = {first}
  <2>1. {first + index : index \in {}} = {} /\ {first + index : index \in {0}} = {first + 0}
    BY Zenon
  <2>2. QED
    BY <1>1, <2>1 DEF Apps!InARow
<1>6. QED
  BY <1>3, <1>4, <1>5

(* At rest, with nothing held. *)
LEMMA IdleState ==
    LET idle == Apps!Idle({})
    IN  /\ idle \in PeStates /\ idle.phase = "idle" /\ idle.next = 1 /\ idle.frames = 0
        /\ idle.held = Apps!InARow(idle.first, idle.frames)
<1> DEFINE idle == Apps!Idle({})
<1>1. Apps!NoImage \in PeImages
  <2>1. Apps!NoImage.sections \in Seq(SectionRow)
    BY DEF Apps!NoImage
  <2>2. QED
    BY DEF Apps!NoImage, PeImages
<1>2. Apps!InARow(0, 0) = {}
  BY Rows
<1>3. idle = [phase |-> "idle", image |-> Apps!NoImage, memory |-> <<>>, next |-> 1,
              held |-> {}, first |-> 0, frames |-> 0]
  BY DEF Apps!Idle
<1> HIDE DEF idle
<1>4. idle \in PeStates
  <2>1. <<>> \in Seq(Int) /\ {} \in SUBSET Nat
    OBVIOUS
  <2>2. QED
    BY <1>1, <1>3, <2>1 DEF PeStates
<1>5. idle.phase = "idle" /\ idle.next = 1 /\ idle.held = {} /\ idle.first = 0 /\ idle.frames = 0
  BY <1>3
<1>6. idle.held = Apps!InARow(idle.first, idle.frames)
  BY <1>2, <1>5
<1>7. QED
  BY <1>4, <1>5, <1>6 DEF idle

LEMMA IdleIsOk ==
    ASSUME pe' = Apps!Idle({})
    PROVE  PeOk'
<1>1. /\ pe' \in PeStates /\ pe'.phase = "idle" /\ pe'.next = 1 /\ pe'.frames = 0
      /\ pe'.held = Apps!InARow(pe'.first, pe'.frames)
  BY IdleState
<1>2. QED
  BY <1>1 DEF PeOk

LEMMA LaunchStep ==
    ASSUME PeOk, Apps!Launch
    PROVE  PeOk'
<1>1. PICK image \in Apps!Images : pe' = [pe EXCEPT !.phase = "allocate", !.image = image]
  BY DEF Apps!Launch
<1>2. image \in PeImages
  BY ImageAssumption DEF Apps!Images, PeImages, SectionRow
<1>3. PICK old \in PeStates : old = pe
  BY DEF PeOk
<1>4. pe' \in PeStates /\ pe'.phase = "allocate" /\ pe'.next = pe.next /\ pe'.held = pe.held
      /\ pe'.first = pe.first /\ pe'.frames = pe.frames
  BY <1>1, <1>2, <1>3 DEF PeStates
<1>5. QED
  BY <1>4 DEF PeOk, Apps!Launch

(* A frame, or none: those in a row are all there are.                     *)
LEMMA TakeFrameStep ==
    ASSUME PeOk, NEW frame \in Nat, Apps!TakeFrame(frame)
    PROVE  PeOk'
<1> DEFINE held == pe.held \cup {frame}
<1>1. PICK old \in PeStates : old = pe
  BY DEF PeOk
<1>2. pe.phase = "allocate" /\ pe.held = Apps!InARow(pe.first, pe.frames) /\ pe.next = 1
      /\ pe.first \in Nat /\ pe.frames \in Nat /\ held \in SUBSET Nat
  BY DEF PeOk, PeStates, Apps!TakeFrame
<1>3. CASE pe.frames = 0
  <2>1. pe' = [old EXCEPT !.held = held, !.first = frame, !.frames = 1]
    BY <1>1, <1>3 DEF Apps!TakeFrame
  <2>2. held = {frame}
    BY <1>2, <1>3, Rows
  <2> HIDE DEF held
  <2>3. pe' \in PeStates /\ pe'.phase = "allocate" /\ pe'.next = 1 /\ pe'.held = held
        /\ pe'.first = frame /\ pe'.frames = 1
    BY <1>1, <1>2, <2>1 DEF PeStates
  <2>4. QED
    BY <2>2, <2>3, Rows DEF PeOk
<1>4. CASE pe.frames # 0 /\ frame = pe.first + pe.frames
  <2>1. pe' = [old EXCEPT !.held = held, !.frames = old.frames + 1]
    BY <1>1, <1>4 DEF Apps!TakeFrame
  <2>2. held = Apps!InARow(pe.first, pe.frames + 1)
    BY <1>2, <1>4, Rows
  <2> HIDE DEF held
  <2>3. pe' \in PeStates /\ pe'.phase = "allocate" /\ pe'.next = 1 /\ pe'.held = held
        /\ pe'.first = pe.first /\ pe'.frames = pe.frames + 1
    <3>1. PICK n \in Nat : n = old.frames + 1
      BY <1>1, <1>2
    <3>2. pe' = [old EXCEPT !.held = held, !.frames = n]
      BY <2>1, <3>1
    <3>3. QED
      BY <1>1, <1>2, <3>1, <3>2 DEF PeStates
  <2>4. QED
    BY <2>2, <2>3 DEF PeOk
<1>5. CASE pe.frames # 0 /\ frame # pe.first + pe.frames
  <2>1. pe' = Apps!Idle(held \ (Apps!InARow(pe.first, pe.frames) \cup {frame}))
    BY <1>5 DEF Apps!TakeFrame
  <2>2. held \ (Apps!InARow(pe.first, pe.frames) \cup {frame}) = {}
    BY <1>2
  <2>3. QED
    BY <2>1, <2>2, IdleIsOk
<1>6. QED
  BY <1>3, <1>4, <1>5

LEMMA CopyHeadersStep ==
    ASSUME PeOk, Apps!CopyHeaders
    PROVE  PeOk'
<1> DEFINE image == pe.image
           m == Apps!Min({image.headers, image.file})
           empty == [c \in 1 .. image.size |-> Apps!Zero]
           memory == Apps!Copied(empty, 0, 0, m)
<1>1. PICK old \in PeStates : old = pe
  BY DEF PeOk
<1>2. pe' = [old EXCEPT !.phase = "copy", !.memory = memory]
  BY <1>1 DEF Apps!CopyHeaders
<1>3. /\ image.size \in Nat /\ image.headers \in Nat /\ image.file \in Nat
      /\ image.sections \in Seq(SectionRow) /\ Len(image.sections) \in Nat /\ pe.next = 1
      /\ pe.frames = Apps!FrameCount(image.size) /\ pe.held = Apps!InARow(pe.first, pe.frames)
  <2>1. image \in PeImages
    BY <1>1 DEF PeStates
  <2>2. image.size \in Nat /\ image.headers \in Nat /\ image.file \in Nat /\ image.sections \in Seq(SectionRow)
    BY <2>1 DEF PeImages
  <2>3. Len(image.sections) \in Nat
    BY <2>2
  <2>4. pe.phase = "allocate" /\ pe.frames = Apps!FrameCount(image.size)
    BY DEF Apps!CopyHeaders
  <2>5. pe.next = 1 /\ pe.held = Apps!InARow(pe.first, pe.frames)
    BY <2>4 DEF PeOk
  <2>6. QED
    BY <2>2, <2>3, <2>4, <2>5
<1>4. m = IF image.headers <= image.file THEN image.headers ELSE image.file
  BY <1>3, LargerAndSmaller
<1>5. \A c \in 1 .. image.size :
          memory[c] = IF c <= image.headers /\ c <= image.file THEN c - 1 ELSE Apps!Zero
  BY <1>3, <1>4 DEF Apps!Copied
<1>6. memory \in [1 .. image.size -> Int]
  BY <1>3, <1>4 DEF Apps!Copied, Apps!Zero
<1> HIDE DEF memory
<1>7. memory \in Seq(Int) /\ Len(memory) = image.size
  BY <1>3, <1>6
<1>8. /\ pe' \in PeStates /\ pe'.phase = "copy" /\ pe'.image = image /\ pe'.memory = memory
      /\ pe'.next = pe.next /\ pe'.held = pe.held /\ pe'.first = pe.first /\ pe'.frames = pe.frames
  <2> HIDE DEF image
  <2>1. pe.image = image
    BY DEF image
  <2>2. QED
    BY <1>1, <1>2, <1>7, <2>1 DEF PeStates
<1>9. ASSUME NEW c \in 1 .. image.size
      PROVE  /\ LinkedBy(image, 0, c, memory[c])
             /\ memory[c] \in {Apps!Zero} \cup 0 .. image.file - 1
  BY <1>3, <1>5 DEF LinkedBy
<1> HIDE DEF image, m, empty
<1>10. QED
  BY <1>3, <1>7, <1>8, <1>9 DEF PeOk

(* A section over the ones before it. *)
LEMMA CopyStep ==
    ASSUME PeOk, Apps!CopySection
    PROVE  PeOk'
<1> DEFINE image == pe.image
           n == pe.next
           s == image.sections[n]
<1>1. /\ pe.phase = "copy" /\ n \in Nat /\ n >= 1 /\ n <= Len(image.sections)
      /\ image \in PeImages /\ image.sections \in Seq(SectionRow) /\ s \in SectionRow
      /\ image.size \in Nat /\ image.file \in Nat
      /\ pe.memory \in Seq(Int) /\ Len(pe.memory) = image.size
      /\ pe.held = Apps!InARow(pe.first, pe.frames) /\ pe.frames = Apps!FrameCount(image.size)
  <2>1. /\ pe.phase = "copy" /\ n \in Nat /\ n >= 1 /\ n <= Len(image.sections)
        /\ image \in PeImages /\ pe.memory \in Seq(Int) /\ Len(pe.memory) = image.size
        /\ pe.held = Apps!InARow(pe.first, pe.frames) /\ pe.frames = Apps!FrameCount(image.size)
    BY DEF Apps!CopySection, PeOk, PeStates
  <2>2. image.sections \in Seq(SectionRow) /\ image.size \in Nat /\ image.file \in Nat
    BY <2>1 DEF PeImages
  <2>3. s \in SectionRow
    BY <2>1, <2>2
  <2>4. QED
    BY <2>1, <2>2, <2>3
<1>2. CASE ~Apps!SectionFits(image, s)
  <2>1. pe' = Apps!Freed
    BY <1>2 DEF Apps!CopySection
  <2>2. pe.held \ Apps!InARow(pe.first, Apps!FrameCount(image.size)) = {}
    BY <1>1
  <2>3. QED
    BY <2>1, <2>2, IdleIsOk DEF Apps!Freed
<1>3. CASE Apps!SectionFits(image, s)
  <2> DEFINE memory == Apps!Copied(pe.memory, s.virtual_address, s.raw_at, s.raw_size)
  <2>1. pe' = [pe EXCEPT !.memory = memory, !.next = n + 1]
    BY <1>3 DEF Apps!CopySection
  <2>2. /\ s.virtual_address \in Nat /\ s.raw_at \in Nat /\ s.raw_size \in Nat
        /\ s.raw_size = 0 \/ s.raw_at + s.raw_size <= image.file
    <3>1. s.virtual_address \in Nat /\ s.raw_at \in Nat /\ s.raw_size \in Nat /\ image.file \in Nat
      BY <1>1 DEF SectionRow
    <3>2. s.raw_size = 0 \/ s.raw_size <= image.file - s.raw_at
      BY <1>3 DEF Apps!SectionFits
    <3> HIDE DEF s, image
    <3>3. QED
      BY <3>1, <3>2
  <2>3. /\ memory \in [1 .. image.size -> Int]
        /\ \A c \in 1 .. image.size :
              memory[c] = IF Covers(s, c) THEN s.raw_at + (c - 1 - s.virtual_address) ELSE pe.memory[c]
    <3>1. DOMAIN pe.memory = 1 .. image.size /\ \A c \in 1 .. image.size : c \in Nat /\ pe.memory[c] \in Int
      BY <1>1
    <3> HIDE DEF s, image
    <3>2. QED
      BY <2>2, <3>1 DEF Apps!Copied, Covers
  <2> HIDE DEF memory
  <2>4. memory \in Seq(Int) /\ Len(memory) = image.size
    BY <1>1, <2>3
  <2>5. /\ pe' \in PeStates /\ pe'.phase = "copy" /\ pe'.image = image /\ pe'.memory = memory
        /\ pe'.next = n + 1 /\ pe'.held = pe.held /\ pe'.first = pe.first /\ pe'.frames = pe.frames
    <3>1. PICK old \in PeStates : old = pe
      BY DEF PeOk
    <3>2. pe' = [old EXCEPT !.memory = memory, !.next = n + 1] /\ n + 1 \in Nat
      BY <1>1, <2>1, <3>1
    <3> HIDE DEF n
    <3>3. QED
      BY <1>1, <2>4, <3>1, <3>2 DEF PeStates
  <2>6. ASSUME NEW c \in 1 .. image.size
        PROVE  /\ LinkedBy(image, n, c, memory[c])
               /\ memory[c] \in {Apps!Zero} \cup 0 .. image.file - 1
    <3>1. /\ LinkedBy(image, n - 1, c, pe.memory[c])
          /\ pe.memory[c] \in {Apps!Zero} \cup 0 .. image.file - 1
      BY <1>1 DEF PeOk
    <3>2. CASE Covers(s, c)
      <4>1. memory[c] = s.raw_at + (c - 1 - s.virtual_address)
        BY <2>3, <3>2
      <4>2. n \in 1 .. n /\ \A j \in n + 1 .. n : ~Covers(image.sections[j], c)
        BY <1>1
      <4>3. LinkedBy(image, n, c, memory[c])
        BY <3>2, <4>1, <4>2 DEF LinkedBy
      <4>4. memory[c] \in 0 .. image.file - 1
        <5>1. s.virtual_address < c /\ c <= s.virtual_address + s.raw_size /\ image.file \in Nat /\ c \in Nat
          BY <1>1, <3>2 DEF Covers
        <5> HIDE DEF s, image
        <5>2. QED
          BY <2>2, <4>1, <5>1
      <4>5. QED
        BY <4>3, <4>4
    <3>3. CASE ~Covers(s, c)
      <4>1. memory[c] = pe.memory[c]
        BY <2>3, <3>3
      <4>2. /\ 1 .. n = (1 .. n - 1) \cup {n}
            /\ \A k \in 1 .. n - 1 : k + 1 .. n = (k + 1 .. n - 1) \cup {n}
        BY SMTT(30), <1>1
      <4>3. LinkedBy(image, n, c, memory[c])
        BY <3>1, <3>3, <4>1, <4>2 DEF LinkedBy
      <4>4. QED
        BY <3>1, <4>1, <4>3
    <3>4. QED
      BY <3>2, <3>3
  <2>7. \A k \in 1 .. n : Apps!SectionFits(image, image.sections[k])
    BY <1>1, <1>3 DEF PeOk
  <2>8. QED
    BY SMTT(30), <1>1, <2>4, <2>5, <2>6, <2>7 DEF PeOk
<1>4. QED
  BY <1>2, <1>3

LEMMA PeStep ==
    ASSUME PeOk, [Apps!PeNext]_appVars
    PROVE  PeOk'
<1>1. CASE Apps!Launch
  BY <1>1, LaunchStep
<1>2. CASE Apps!CopySection
  BY <1>2, CopyStep
<1>3. CASE Apps!Enter
  <2>1. /\ pe.phase = "copy" /\ pe.next > Len(pe.image.sections) /\ pe' = [pe EXCEPT !.phase = "running"]
    BY <1>3 DEF Apps!Enter
  <2>2. /\ pe' \in PeStates /\ pe'.phase = "running" /\ pe'.image = pe.image /\ pe'.memory = pe.memory
        /\ pe'.next = pe.next /\ pe'.held = pe.held /\ pe'.first = pe.first /\ pe'.frames = pe.frames
    BY <2>1 DEF PeOk, PeStates
  <2>3. pe.next = Len(pe.image.sections) + 1
    <3>1. pe.image.sections \in Seq(SectionRow)
      BY DEF PeOk, PeStates, PeImages
    <3>2. QED
      BY <2>1, <3>1 DEF PeOk
  <2>4. QED
    BY <2>1, <2>2, <2>3 DEF PeOk
<1>4. CASE Apps!Return
  <2>1. pe.held \ Apps!InARow(pe.first, Apps!FrameCount(pe.image.size)) = {}
    BY <1>4 DEF Apps!Return, PeOk
  <2>2. QED
    BY <1>4, <2>1, IdleIsOk DEF Apps!Return, Apps!Freed
<1>5. ASSUME NEW frame \in FrameNumbers, Apps!TakeFrame(frame)
      PROVE  PeOk'
  BY <1>5, ImageAssumption, TakeFrameStep
<1>6. CASE Apps!OutOfFrames
  <2>1. pe.held \ Apps!InARow(pe.first, pe.frames) = {}
    BY DEF PeOk
  <2>2. QED
    BY <1>6, <2>1, IdleIsOk DEF Apps!OutOfFrames
<1>7. CASE Apps!CopyHeaders
  BY <1>7, CopyHeadersStep
<1>8. CASE UNCHANGED appVars
  BY <1>8 DEF appVars, PeOk
<1>9. QED
  BY <1>1, <1>2, <1>3, <1>4, <1>5, <1>6, <1>7, <1>8 DEF Apps!PeNext

(* As many frames as the image takes, rounded up, hold each of its cells.  *)
LEMMA CellInFrame ==
    ASSUME NEW size \in Nat, NEW c \in 1 .. size
    PROVE  (c - 1) \div FrameSize \in 0 .. Apps!FrameCount(size) - 1
<1> DEFINE q == (c - 1) \div FrameSize
           n == (size + FrameSize - 1) \div FrameSize
<1>1. FrameSize \in Nat \ {0}
  BY ImageAssumption
<1>2. ASSUME NEW F \in Nat \ {0}, NEW a \in Int
      PROVE  a \div F \in Int /\ F * (a \div F) <= a /\ a < F * (a \div F) + F
  OBVIOUS
<1>3. ASSUME NEW F \in Nat \ {0}, NEW a \in Int, NEW b \in Int, a <= b
      PROVE  F * a <= F * b
  BY <1>3
<1>4. q \in Int /\ FrameSize * q <= c - 1 /\ c - 1 < FrameSize * q + FrameSize
  BY <1>1, <1>2
<1>5. n \in Int /\ FrameSize * n <= size + FrameSize - 1 /\ size + FrameSize - 1 < FrameSize * n + FrameSize
  BY <1>1, <1>2
<1> HIDE DEF q, n
<1>6. q >= 0
  <2>1. ASSUME q <= -1 PROVE FALSE
    <3>1. FrameSize * q <= FrameSize * (-1)
      BY <1>1, <1>3, <1>4, <2>1
    <3>2. QED
      BY <1>1, <1>4, <3>1
  <2>2. QED
    BY <1>4, <2>1
<1>7. q < n
  <2>1. ASSUME n <= q PROVE FALSE
    <3>1. FrameSize * n <= FrameSize * q
      BY <1>1, <1>3, <1>4, <1>5, <2>1
    <3>2. FrameSize * n \in Int /\ FrameSize * q \in Int
      BY <1>1, <1>4, <1>5
    <3>3. QED
      BY <1>1, <1>4, <1>5, <3>1, <3>2
  <2>2. QED
    BY <1>4, <1>5, <2>1
<1>8. Apps!FrameCount(size) = n
  BY DEF Apps!FrameCount, n
<1>9. QED
  BY <1>4, <1>5, <1>6, <1>7, <1>8 DEF q

(* A cell of an image with all its sections is what Linked says. *)
LEMMA LinkedIsLinked ==
    ASSUME NEW image \in PeImages, NEW c \in Nat, NEW v, LinkedBy(image, Len(image.sections), c, v)
    PROVE  v = Apps!Linked(image, c)
<1> DEFINE n == Len(image.sections)
           over == {k \in DOMAIN image.sections : /\ image.sections[k].virtual_address < c
                                                  /\ c <= image.sections[k].virtual_address
                                                            + image.sections[k].raw_size}
<1>1. image.sections \in Seq(SectionRow) /\ n \in Nat /\ DOMAIN image.sections = 1 .. n
  BY DEF PeImages
<1>2. over = {k \in 1 .. n : Covers(image.sections[k], c)}
  BY <1>1 DEF Covers
<1>3. Apps!Linked(image, c)
          = IF over # {}
            THEN image.sections[Apps!Max(over)].raw_at + (c - 1 - image.sections[Apps!Max(over)].virtual_address)
            ELSE IF c <= image.headers /\ c <= image.file THEN c - 1 ELSE Apps!Zero
  BY DEF Apps!Linked
<1> HIDE DEF over
<1>4. CASE \A k \in 1 .. n : ~Covers(image.sections[k], c)
  BY <1>2, <1>3, <1>4 DEF LinkedBy
<1>5. CASE \E k \in 1 .. n : Covers(image.sections[k], c)
  <2>1. PICK k \in 1 .. n :
            /\ Covers(image.sections[k], c) /\ \A j \in k + 1 .. n : ~Covers(image.sections[j], c)
            /\ v = image.sections[k].raw_at + (c - 1 - image.sections[k].virtual_address)
    BY <1>5 DEF LinkedBy
  <2>2. k \in over /\ \A j \in over : j \in 1 .. n /\ ~(j \in k + 1 .. n)
    BY <1>2, <2>1
  <2>3. \A j \in over : k >= j
    BY <1>1, <2>2
  <2>4. \A m \in over : (\A j \in over : m >= j) <=> m = k
    BY <1>1, <2>2, <2>3
  <2>5. Apps!Max(over) = k
    BY <2>2, <2>4 DEF Apps!Max
  <2>6. QED
    BY <1>3, <2>1, <2>2, <2>5
<1>6. QED
  BY <1>4, <1>5

(* An application runs only in an image that is what its file says, and    *)
(* its memory returns whichever way a launch ends (pe_launch_image).       *)
THEOREM ApplicationsRunAsLinked == Spec => []RunsAsLinked
<1>1. Init => PeOk
  <2>1. ASSUME Init PROVE pe = Apps!Idle({})
    BY <2>1 DEF Init, Apps!PeInit
  <2>2. ASSUME pe = Apps!Idle({}) PROVE PeOk
    BY <2>2, IdleState DEF PeOk
  <2>3. QED
    BY <2>1, <2>2
<1>2. PeOk /\ [Next]_partsVars => PeOk'
  BY PartsMove, PeStep
<1>3. ASSUME PeOk, pe.phase = "running"
      PROVE  /\ \A c \in DOMAIN pe.memory : pe.memory[c] = Apps!Linked(pe.image, c)
             /\ \A c \in DOMAIN pe.memory : pe.memory[c] \in {Apps!Zero} \cup 0 .. pe.image.file - 1
             /\ \A k \in DOMAIN pe.image.sections :
                   pe.image.sections[k].virtual_address
                       + Apps!Max({pe.image.sections[k].virtual_size, pe.image.sections[k].raw_size})
                       <= Len(pe.memory)
             /\ \A c \in DOMAIN pe.memory : pe.first + (c - 1) \div FrameSize \in pe.held
  <2>1. /\ pe.image \in PeImages /\ pe.image.sections \in Seq(SectionRow) /\ pe.image.size \in Nat
        /\ pe.memory \in Seq(Int) /\ Len(pe.memory) = pe.image.size
        /\ pe.next - 1 = Len(pe.image.sections)
    BY <1>3 DEF PeOk, PeStates, PeImages
  <2>2. DOMAIN pe.memory = 1 .. pe.image.size /\ \A c \in DOMAIN pe.memory : c \in Nat
    BY <2>1
  <2>3. \A c \in DOMAIN pe.memory : /\ LinkedBy(pe.image, Len(pe.image.sections), c, pe.memory[c])
                                    /\ pe.memory[c] \in {Apps!Zero} \cup 0 .. pe.image.file - 1
    BY <1>3, <2>1, <2>2 DEF PeOk
  <2>4. \A c \in DOMAIN pe.memory : pe.memory[c] = Apps!Linked(pe.image, c)
    BY <2>1, <2>2, <2>3, LinkedIsLinked
  <2>5. ASSUME NEW k \in DOMAIN pe.image.sections
        PROVE  pe.image.sections[k].virtual_address
                   + Apps!Max({pe.image.sections[k].virtual_size, pe.image.sections[k].raw_size})
                   <= Len(pe.memory)
    <3> DEFINE s == pe.image.sections[k]
               larger == Apps!Max({s.virtual_size, s.raw_size})
    <3>1. Apps!SectionFits(pe.image, s) /\ s \in SectionRow
      <4>1. DOMAIN pe.image.sections = 1 .. Len(pe.image.sections) /\ s \in SectionRow
        BY <2>1
      <4>2. k \in 1 .. pe.next - 1
        BY <2>1, <4>1
      <4>3. \A j \in 1 .. pe.next - 1 : Apps!SectionFits(pe.image, pe.image.sections[j])
        BY <1>3 DEF PeOk
      <4>4. QED
        BY <4>1, <4>2, <4>3
    <3>2. s.virtual_address \in Nat /\ s.virtual_size \in Nat /\ s.raw_size \in Nat
      BY <3>1 DEF SectionRow
    <3>3. larger \in Nat
      BY <3>2, LargerAndSmaller
    <3>4. larger <= pe.image.size - s.virtual_address
      BY <3>1 DEF Apps!SectionFits
    <3> HIDE DEF larger
    <3>5. QED
      BY SMTT(30), <2>1, <3>2, <3>3, <3>4 DEF larger
  <2>6. ASSUME NEW c \in DOMAIN pe.memory
        PROVE  pe.first + (c - 1) \div FrameSize \in pe.held
    <3>1. (c - 1) \div FrameSize \in 0 .. Apps!FrameCount(pe.image.size) - 1
      BY <2>1, <2>2, CellInFrame
    <3>2. pe.held = Apps!InARow(pe.first, Apps!FrameCount(pe.image.size))
      BY <1>3 DEF PeOk
    <3>3. QED
      BY <3>1, <3>2 DEF Apps!InARow
  <2>7. QED
    BY <2>3, <2>4, <2>5, <2>6
<1>4. PeOk => RunsAsLinked
  <2>1. ASSUME PeOk, pe.phase = "idle" PROVE pe.held = {}
    BY <2>1, Rows DEF PeOk, PeStates
  <2>2. QED
    BY <1>3, <2>1 DEF RunsAsLinked, Apps!RunsAsLinked
<1>5. QED
  BY <1>1, <1>2, <1>4, PTL DEF Spec

-----------------------------------------------------------------------------
(* Browser: what a request has brought is of the server it is about, and   *)
(* no longer than what has been taken.                                     *)
FetchFields == {"what", "given", "url", "hop", "open", "taken", "body", "truncated", "late"}
ShownFields == {"address", "edited", "page", "source", "saved", "savedFrom"}

FetchOk(f) ==
    /\ DOMAIN f = FetchFields
    /\ f.taken \in Nat /\ f.body \in Seq({Web!Request(f.url)})
    /\ Len(f.body) <= BodyCapacity
    /\ f.taken > 0 => Len(f.body) <= f.taken - Web!Header
    /\ f.taken = 0 => f.body = <<>>

WebOk ==
    /\ FetchOk(fetch)
    /\ fetch.what = "none" => ~fetch.open
    /\ fetch.open => server.asked = Web!Request(fetch.url)
    /\ fetch.open => server.length \in Nat /\ fetch.taken <= Web!Header + server.length
    /\ ~fetch.open => fetch.taken = 0 /\ fetch.body = <<>>
    /\ DOMAIN shown = ShownFields
    /\ Web!ShownIsItsAnswer

LEMMA EmptyRange == Web!Range(<<>>) = {}
BY DEF Web!Range

LEMMA RangeOf ==
    ASSUME NEW v, NEW s \in Seq({v})
    PROVE  Web!Range(s) \subseteq {v}
<1>1. \A k \in DOMAIN s : s[k] = v
  OBVIOUS
<1>2. QED
  BY <1>1 DEF Web!Range

LEMMA FreshFetch ==
    ASSUME NEW what, NEW given, NEW url, NEW hop
    PROVE  LET f == Web!Hop(what, given, url, hop)
           IN  FetchOk(f) /\ ~f.open /\ f.taken = 0 /\ f.body = <<>> /\ f.what = what
BY BodyAssumption DEF Web!Hop, FetchOk, FetchFields, BodyAssumption

LEMMA NoFetchOk == FetchOk(Web!NoFetch) /\ ~Web!NoFetch.open /\ Web!NoFetch.what = "none"
                   /\ Web!NoFetch.taken = 0 /\ Web!NoFetch.body = <<>>
BY BodyAssumption DEF Web!NoFetch, FetchOk, FetchFields, BodyAssumption

LEMMA FailedStep ==
    ASSUME WebOk, NEW s, Web!Failed(s)
    PROVE  WebOk'
<1> DEFINE error == Web!Page("error", <<>>, TRUE)
<1>1. fetch' = Web!NoFetch
  BY DEF Web!Failed
<1>2. error.what = "error" /\ error.body = <<>> /\ error.whole
  BY DEF Web!Page
<1>3. CASE fetch.what = "page"
  <2>1. shown' = [shown EXCEPT !.address = fetch.given, !.edited = FALSE, !.page = error, !.source = s]
    BY <1>3 DEF Web!Failed
  <2> HIDE DEF error
  <2>2. DOMAIN shown' = ShownFields /\ shown'.page = error /\ shown'.saved = shown.saved
        /\ shown'.savedFrom = shown.savedFrom
    BY <2>1 DEF WebOk, ShownFields
  <2>3. Web!ShownIsItsAnswer'
    BY <1>2, <2>2, EmptyRange DEF WebOk, Web!ShownIsItsAnswer
  <2>4. QED
    BY <1>1, <2>2, <2>3, NoFetchOk DEF WebOk
<1>4. CASE fetch.what # "page"
  <2>1. shown' = [shown EXCEPT !.saved = error, !.savedFrom = fetch.given]
    BY <1>4 DEF Web!Failed
  <2> HIDE DEF error
  <2>2. DOMAIN shown' = ShownFields /\ shown'.page = shown.page /\ shown'.source = shown.source
        /\ shown'.edited = shown.edited /\ shown'.address = shown.address /\ shown'.saved = error
    BY <2>1 DEF WebOk, ShownFields
  <2>3. Web!ShownIsItsAnswer'
    BY <1>2, <2>2, EmptyRange DEF WebOk, Web!ShownIsItsAnswer
  <2>4. QED
    BY <1>1, <2>2, <2>3, NoFetchOk DEF WebOk
<1>5. QED
  BY <1>3, <1>4

LEMMA SucceededStep ==
    ASSUME WebOk, NEW f, FetchOk(f),
           f.taken = Web!Header + server.length \/ f.late \/ f.truncated,
           Web!Succeeded(f), fetch' = Web!NoFetch
    PROVE  WebOk'
<1> DEFINE got == Web!Page("body", f.body, f.taken = Web!Header + server.length \/ f.late \/ f.truncated)
<1>1. got.body = f.body /\ got.whole
  BY DEF Web!Page
<1>2. Web!Range(f.body) \subseteq {Web!Request(f.url)}
  BY RangeOf DEF FetchOk
<1>3. CASE f.what = "page"
  <2>1. shown' = [shown EXCEPT !.address = f.url, !.edited = FALSE, !.page = got, !.source = f.body]
    BY <1>3 DEF Web!Succeeded
  <2> HIDE DEF got
  <2>2. DOMAIN shown' = ShownFields /\ shown'.page = got /\ shown'.source = f.body
        /\ shown'.address = f.url /\ shown'.saved = shown.saved /\ shown'.savedFrom = shown.savedFrom
    BY <2>1 DEF WebOk, ShownFields
  <2>3. Web!ShownIsItsAnswer'
    BY <1>1, <1>2, <2>2 DEF WebOk, Web!ShownIsItsAnswer
  <2>4. QED
    BY <2>2, <2>3, NoFetchOk DEF WebOk
<1>4. CASE f.what # "page"
  <2>1. shown' = [shown EXCEPT !.saved = got, !.savedFrom = f.url]
    BY <1>4 DEF Web!Succeeded
  <2> HIDE DEF got
  <2>2. DOMAIN shown' = ShownFields /\ shown'.page = shown.page /\ shown'.source = shown.source
        /\ shown'.edited = shown.edited /\ shown'.address = shown.address
        /\ shown'.saved = got /\ shown'.savedFrom = f.url
    BY <2>1 DEF WebOk, ShownFields
  <2>3. Web!ShownIsItsAnswer'
    BY <1>1, <1>2, <2>2 DEF WebOk, Web!ShownIsItsAnswer
  <2>4. QED
    BY <2>2, <2>3, NoFetchOk DEF WebOk
<1>5. QED
  BY <1>3, <1>4

LEMMA PendingStep ==
    ASSUME WebOk, NEW url, Web!Pending(url), UNCHANGED <<fetch, server>>
    PROVE  WebOk'
<1> DEFINE notice == Web!Page("notice", <<>>, TRUE)
<1>1. notice.what = "notice" /\ notice.body = <<>> /\ notice.whole
  BY DEF Web!Page
<1>2. shown' = [shown EXCEPT !.address = url, !.edited = FALSE, !.page = notice, !.source = <<>>]
  BY DEF Web!Pending
<1> HIDE DEF notice
<1>3. DOMAIN shown' = ShownFields /\ shown'.page = notice /\ shown'.saved = shown.saved
      /\ shown'.savedFrom = shown.savedFrom
  BY <1>2 DEF WebOk, ShownFields
<1>4. Web!ShownIsItsAnswer'
  BY <1>1, <1>3, EmptyRange DEF WebOk, Web!ShownIsItsAnswer
<1>5. QED
  BY <1>3, <1>4 DEF WebOk, FetchOk

(* A request begins, or goes on at another address.                        *)
LEMMA HopStep ==
    ASSUME WebOk, NEW what, NEW given, NEW url, NEW hop,
           fetch' = Web!Hop(what, given, url, hop), UNCHANGED shown
    PROVE  WebOk'
<1>1. FetchOk(fetch') /\ ~fetch'.open /\ fetch'.taken = 0 /\ fetch'.body = <<>>
  BY FreshFetch
<1>2. Web!ShownIsItsAnswer'
  BY DEF WebOk, Web!ShownIsItsAnswer
<1>3. QED
  BY <1>1, <1>2 DEF WebOk

(* After the loop, with all that was taken.                                *)
LEMMA FinishStep ==
    ASSUME WebOk, NEW f, FetchOk(f),
           f.taken = Web!Header + server.length \/ f.late \/ f.truncated, Web!Finish(f)
    PROVE  WebOk'
<1>1. CASE Web!Failed(<<>>)
  BY <1>1, FailedStep
<1>2. CASE Web!Redirected(f)
  <2>1. CASE Web!Failed(f.body)
    BY <2>1, FailedStep
  <2>2. CASE ~Web!Failed(f.body)
    <3>1. /\ fetch' = Web!Hop(f.what, f.given, Web!Target(Web!Location(server), f.url), f.hop + 1)
          /\ UNCHANGED shown
      BY <1>2, <2>2 DEF Web!Redirected
    <3>2. QED
      BY <3>1, HopStep
  <2>3. QED
    BY <2>1, <2>2
<1>3. CASE Web!Succeeded(f) /\ fetch' = Web!NoFetch
  BY <1>3, SucceededStep
<1>4. QED
  BY <1>1, <1>2, <1>3 DEF Web!Finish

LEMMA ChunkTaken ==
    ASSUME WebOk, fetch.open, NEW n \in 1 .. Web!Header + server.length - fetch.taken
    PROVE  LET f == Web!WithChunk(n)
           IN  /\ FetchOk(f) /\ f.url = fetch.url /\ f.open
               /\ f.what = fetch.what /\ f.taken = fetch.taken + n
<1> DEFINE after == IF Web!HeaderComplete(fetch) THEN n ELSE n - Web!Header
           kept == IF after < BodyCapacity - Len(fetch.body) THEN after
                   ELSE BodyCapacity - Len(fetch.body)
           units == [k \in 1 .. kept |-> server.asked]
           f == Web!WithChunk(n)
           R == {Web!Request(fetch.url)}
<1>1. /\ fetch.taken \in Nat /\ server.length \in Nat /\ BodyCapacity \in Nat /\ n \in Nat /\ n >= 1
      /\ fetch.body \in Seq(R) /\ Len(fetch.body) \in Nat /\ Len(fetch.body) <= BodyCapacity
      /\ server.asked \in R
  BY BodyAssumption DEF WebOk, FetchOk, Web!Header, BodyAssumption
<1>2. after \in Nat /\ kept \in Nat /\ kept <= after /\ kept <= BodyCapacity - Len(fetch.body)
  <2>1. after \in Nat
    BY <1>1 DEF Web!HeaderComplete, Web!Header
  <2> DEFINE room == BodyCapacity - Len(fetch.body)
  <2>2. room \in Nat
    BY <1>1
  <2>3. kept = IF after < room THEN after ELSE room
    OBVIOUS
  <2> HIDE DEF after, kept, room
  <2>4. kept \in Nat /\ kept <= after /\ kept <= room
    BY <2>1, <2>2, <2>3
  <2>5. QED
    BY <2>1, <2>4 DEF room
<1>3. f = [fetch EXCEPT !.taken = @ + n, !.body = @ \o units, !.truncated = @ \/ kept < after]
  BY DEF Web!WithChunk
<1>4. units \in Seq(R) /\ Len(units) = kept
  BY <1>1, <1>2
<1>5. Len(fetch.body) + after <= (fetch.taken + n) - Web!Header
  <2>1. CASE fetch.taken = 0
    <3>1. Len(fetch.body) = 0 /\ after = n - Web!Header
      BY <2>1 DEF WebOk, FetchOk, Web!HeaderComplete, Web!Header
    <3>2. QED
      BY <1>1, <2>1, <3>1 DEF Web!Header
  <2>2. CASE fetch.taken > 0
    <3>1. Len(fetch.body) <= fetch.taken - Web!Header /\ after = n
      BY <1>1, <2>2 DEF WebOk, FetchOk, Web!HeaderComplete, Web!Header
    <3> HIDE DEF after
    <3>2. QED
      BY <1>1, <3>1 DEF Web!Header
  <2>3. QED
    BY <1>1, <2>1, <2>2
<1> HIDE DEF after, kept, units
<1>6. /\ DOMAIN f = FetchFields /\ f.what = fetch.what /\ f.url = fetch.url /\ f.open = fetch.open
      /\ f.taken = fetch.taken + n /\ f.body = fetch.body \o units
  BY <1>3 DEF WebOk, FetchOk, FetchFields
<1> HIDE DEF f, R
<1>7. f.body \in Seq(R) /\ Len(f.body) = Len(fetch.body) + kept
  <2>1. ASSUME NEW S, NEW a \in Seq(S), NEW b \in Seq(S)
        PROVE  a \o b \in Seq(S) /\ Len(a \o b) = Len(a) + Len(b)
    OBVIOUS
  <2>2. fetch.body \o units \in Seq(R) /\ Len(fetch.body \o units) = Len(fetch.body) + Len(units)
    BY <1>1, <1>4, <2>1
  <2>3. QED
    BY <1>4, <1>6, <2>2
<1>8. f.taken \in Nat /\ Len(f.body) <= BodyCapacity /\ Len(f.body) <= f.taken - Web!Header
  BY SMTT(30), <1>1, <1>2, <1>5, <1>6, <1>7 DEF Web!Header
<1>9. FetchOk(f)
  <2>1. R = {Web!Request(f.url)}
    BY <1>6 DEF R
  <2>2. QED
    BY <1>1, <1>6, <1>7, <1>8, <2>1 DEF FetchOk
<1>10. QED
  BY <1>6, <1>9 DEF f

(* Whole as soon as it is enough, for no more has come than was declared.  *)
LEMMA ReceiveStep ==
    ASSUME WebOk, NEW n \in 1 .. Web!Header + server.length, Web!Receive(n)
    PROVE  WebOk'
<1> DEFINE f == Web!WithChunk(n)
<1>1. fetch.open /\ n \in 1 .. Web!Header + server.length - fetch.taken
  BY DEF Web!Receive
<1>2. /\ FetchOk(f) /\ f.url = fetch.url /\ f.open /\ f.what = fetch.what
      /\ f.taken = fetch.taken + n
  BY <1>1, ChunkTaken
<1>3. fetch.taken \in Nat /\ server.length \in Nat /\ f.taken <= Web!Header + server.length
  BY <1>1, <1>2 DEF WebOk, FetchOk, Web!Header
<1>4. CASE Web!Enough(f)
  <2>1. Web!Finish(f)
    BY <1>4 DEF Web!Receive
  <2>2. Len(f.body) >= server.length /\ f.taken >= Web!Header
    BY <1>4 DEF Web!Enough, Web!HeaderComplete
  <2>3. Len(f.body) \in Nat /\ Len(f.body) <= f.taken - Web!Header
    BY <1>2, <2>2 DEF FetchOk, Web!Header
  <2>4. f.taken = Web!Header + server.length
    BY <1>2, <1>3, <2>2, <2>3 DEF Web!Header
  <2> HIDE DEF f
  <2>5. QED
    BY <1>2, <2>1, <2>4, FinishStep
<1>5. CASE ~Web!Enough(f)
  <2>1. fetch' = f /\ UNCHANGED <<server, shown>>
    BY <1>5 DEF Web!Receive
  <2> HIDE DEF f
  <2>2. Web!ShownIsItsAnswer'
    BY <2>1 DEF WebOk, Web!ShownIsItsAnswer
  <2>3. FetchOk(fetch') /\ fetch'.open /\ fetch'.what = fetch.what /\ fetch'.url = fetch.url
    BY <1>2, <2>1
  <2>4. fetch.what # "none" /\ fetch'.taken <= Web!Header + server.length
    BY <1>1, <1>3, <2>1 DEF WebOk
  <2>5. QED
    BY <1>1, <1>3, <2>1, <2>2, <2>3, <2>4 DEF WebOk
<1>6. QED
  BY <1>4, <1>5

LEMMA WebStep ==
    ASSUME WebOk, [Web!BrowserNext]_webVars
    PROVE  WebOk'
<1>1. CASE UNCHANGED webVars
  BY <1>1 DEF webVars, WebOk, FetchOk, Web!ShownIsItsAnswer
<1>2. ASSUME NEW text \in Texts, Web!Type(text)
      PROVE  WebOk'
  <2>1. shown' = [shown EXCEPT !.address = text, !.edited = TRUE] /\ UNCHANGED <<fetch, server>>
    BY <1>2 DEF Web!Type
  <2>2. /\ DOMAIN shown' = ShownFields /\ shown'.page = shown.page /\ shown'.source = shown.source
        /\ shown'.edited /\ shown'.saved = shown.saved /\ shown'.savedFrom = shown.savedFrom
    BY <2>1 DEF WebOk, ShownFields
  <2>3. Web!ShownIsItsAnswer'
    BY <2>2 DEF WebOk, Web!ShownIsItsAnswer
  <2>4. QED
    BY <2>1, <2>2, <2>3 DEF WebOk, FetchOk
<1>3. ASSUME NEW text, Web!Navigate(text)
      PROVE  WebOk'
  <2>1. CASE Web!Pending(Web!Search) /\ UNCHANGED <<fetch, server>>
    BY <2>1, PendingStep
  <2>2. CASE Web!Pending(Web!Normalized(text)) /\ UNCHANGED <<fetch, server>>
    BY <2>2, PendingStep
  <2>3. CASE /\ fetch' = Web!Hop("page", Web!Normalized(text), Web!Normalized(text), 0)
             /\ UNCHANGED shown
    BY <2>3, HopStep
  <2>4. QED
    BY <1>3, <2>1, <2>2, <2>3 DEF Web!Navigate
<1>4. CASE Web!Download
  BY <1>4, HopStep DEF Web!Download
<1>5. CASE Web!Connect
  <2>1. /\ fetch.what # "none" /\ ~fetch.open /\ fetch' = [fetch EXCEPT !.open = TRUE]
        /\ server' \in Web!Answers(fetch.url) /\ UNCHANGED shown
    BY <1>5 DEF Web!Connect
  <2>2. /\ DOMAIN fetch' = FetchFields /\ fetch'.what = fetch.what /\ fetch'.url = fetch.url
        /\ fetch'.open /\ fetch'.taken = fetch.taken /\ fetch'.body = fetch.body
    BY <2>1 DEF WebOk, FetchOk, FetchFields
  <2>3. server'.asked = Web!Request(fetch.url) /\ server'.length \in Nat
    BY <2>1, BodyAssumption DEF Web!Answers, BodyAssumption
  <2>4. Web!ShownIsItsAnswer'
    BY <2>1 DEF WebOk, Web!ShownIsItsAnswer
  <2>5. fetch.taken = 0
    BY <2>1 DEF WebOk
  <2>6. FetchOk(fetch')
    BY <2>2 DEF WebOk, FetchOk
  <2>7. fetch'.taken <= Web!Header + server'.length
    BY <2>2, <2>3, <2>5 DEF Web!Header
  <2>8. QED
    BY <2>1, <2>2, <2>3, <2>4, <2>6, <2>7 DEF WebOk
<1>6. ASSUME NEW n \in 1 .. Web!Header + server.length, Web!Receive(n)
      PROVE  WebOk'
  BY <1>6, ReceiveStep
<1>7. CASE Web!ServerCloses
  BY <1>7, FinishStep DEF Web!ServerCloses, Web!AllTaken, WebOk
<1>8. CASE Web!WaitTimesOut
  <2> DEFINE f == [fetch EXCEPT !.late = TRUE]
  <2>1. CASE Web!Finish(f)
    <3>1. FetchOk(f) /\ f.late
      BY DEF WebOk, FetchOk, FetchFields
    <3> HIDE DEF f
    <3>2. QED
      BY <2>1, <3>1, FinishStep
  <2>2. CASE Web!Failed(<<>>)
    BY <2>2, FailedStep
  <2>3. QED
    BY <1>8, <2>1, <2>2 DEF Web!WaitTimesOut
<1>9. CASE Web!Unreachable \/ Web!HeadersTooLarge
  BY <1>9, FailedStep DEF Web!Unreachable, Web!HeadersTooLarge
<1>10. QED
  BY <1>1, <1>2, <1>3, <1>4, <1>5, <1>6, <1>7, <1>8, <1>9 DEF Web!BrowserNext, Web!Click

(* What is shown under an address is what that address answered, through   *)
(* any redirects, failures and downloads, and all of it unless the buffer  *)
(* or the clock has cut it (net_http_get, browser_load_url).               *)
THEOREM AnswersAreShown == Spec => []ShownIsItsAnswer
<1>1. Init => WebOk
  <2> SUFFICES ASSUME Web!BrowserInit PROVE WebOk
    BY DEF Init
  <2> DEFINE welcome == Web!Page("welcome", <<>>, TRUE)
             none == Web!Page("none", <<>>, TRUE)
  <2>1. /\ welcome.what = "welcome" /\ welcome.body = <<>> /\ welcome.whole
        /\ none.body = <<>> /\ none.whole
    BY DEF Web!Page
  <2>2. fetch = Web!NoFetch
    BY DEF Web!BrowserInit
  <2>3. shown = [address |-> Web!Google, edited |-> FALSE, page |-> welcome,
                 source |-> <<>>, saved |-> none, savedFrom |-> Web!Nothing]
    BY DEF Web!BrowserInit
  <2> HIDE DEF welcome, none
  <2>4. DOMAIN shown = ShownFields /\ shown.page = welcome /\ shown.saved = none
    BY <2>3 DEF ShownFields
  <2>5. Web!ShownIsItsAnswer
    BY <2>1, <2>4, EmptyRange DEF Web!ShownIsItsAnswer
  <2>6. QED
    BY <2>2, <2>4, <2>5, NoFetchOk DEF WebOk
<1>2. WebOk /\ [Next]_partsVars => WebOk'
  BY PartsMove, WebStep
<1>3. WebOk => ShownIsItsAnswer
  BY DEF WebOk, ShownIsItsAnswer
<1>4. QED
  BY <1>1, <1>2, <1>3, PTL DEF Spec
-----------------------------------------------------------------------------
(* Devices: the bytes on the wire. *)
Scans == {Devices!Scancode(key, released) : key \in Devices!Key, released \in BOOLEAN}
PacketBytes == {Devices!PacketByte(n, left) : n \in 1 .. 3, left \in BOOLEAN}
Bytes == {Devices!Prefix} \cup Scans \cup PacketBytes
IsScan(byte, flag) == byte \in Scans /\ Devices!FlagOf(byte.code) = flag

(* Whether a modifier counts as down once i bytes of w were taken.         *)
DownAfter(w, down, i, flag) ==
    \/ \E j \in 1 .. i : /\ IsScan(w[j], flag) /\ ~w[j].released
                         /\ \A k \in j + 1 .. i : ~IsScan(w[k], flag)
    \/ flag \in down /\ \A k \in 1 .. i : ~IsScan(w[k], flag)

(* And once everything was taken that was sent or is still to be sent.     *)
DownLast(w, down, t, flag) ==
    IF t # <<>> /\ IsScan(t[Len(t)], flag) THEN ~t[Len(t)].released
    ELSE DownAfter(w, down, Len(w), flag)

(* The prefix stands before a byte, or was the last thing taken.           *)
PrefixBefore(w, j, extended) ==
    \/ extended /\ \A l \in 1 .. j - 1 : w[l] \in PacketBytes
    \/ \E k \in 1 .. j - 1 : w[k] = Devices!Prefix /\ \A l \in k + 1 .. j - 1 : w[l] \in PacketBytes

LEMMA FlagFacts ==
    ASSUME NEW key \in Devices!Key
    PROVE  /\ Devices!FlagOf(key) \in Devices!Flag
           /\ Devices!FlagOf(key) = "super" <=> key = "super"
BY DEF Devices!Key, Devices!FlagOf, Devices!Flag

LEMMA ByteFacts ==
    ASSUME NEW byte \in Bytes
    PROVE  /\ byte.from \in {"keyboard", "mouse"}
           /\ byte.from = "mouse" <=> byte \in PacketBytes
           /\ byte.from = "keyboard" <=> byte = Devices!Prefix \/ byte \in Scans
           /\ byte = Devices!Prefix => byte \notin Scans
           /\ byte \in Scans => /\ byte.code \in Devices!Key /\ byte.released \in BOOLEAN
                                /\ byte = Devices!Scancode(byte.code, byte.released)
           /\ byte \in PacketBytes => /\ byte.nth \in 1 .. 3 /\ byte.left \in BOOLEAN
                                      /\ byte = Devices!PacketByte(byte.nth, byte.left)
<1>1. CASE byte = Devices!Prefix
  <2>1. byte.from = "keyboard" /\ byte.code = "E0"
    BY <1>1 DEF Devices!Prefix
  <2>2. ASSUME NEW key \in Devices!Key, NEW released \in BOOLEAN
        PROVE  Devices!Scancode(key, released).code = key /\ key # "E0"
    BY DEF Devices!Scancode, Devices!Key
  <2>3. ASSUME NEW n \in 1 .. 3, NEW left \in BOOLEAN
        PROVE  Devices!PacketByte(n, left).from = "mouse"
    BY DEF Devices!PacketByte
  <2>4. byte \notin Scans
    BY <2>1, <2>2 DEF Scans
  <2>5. byte \notin PacketBytes
    <3>1. "keyboard" # "mouse"
      OBVIOUS
    <3>2. QED
      BY <2>1, <2>3, <3>1 DEF PacketBytes
  <2>6. QED
    BY <1>1, <2>1, <2>4, <2>5
<1>2. CASE byte \in Scans
  BY <1>2 DEF Scans, PacketBytes, Devices!Prefix, Devices!Scancode, Devices!PacketByte, Devices!Key
<1>3. CASE byte \in PacketBytes
  BY <1>3 DEF Scans, PacketBytes, Devices!Prefix, Devices!Scancode, Devices!PacketByte, Devices!Key
<1>4. QED
  BY <1>1, <1>2, <1>3 DEF Bytes

LEMMA DownAppend ==
    ASSUME NEW w \in Seq(Bytes), NEW byte \in Bytes, NEW down, NEW flag
    PROVE  /\ \A i \in 0 .. Len(w) : DownAfter(Append(w, byte), down, i, flag) <=> DownAfter(w, down, i, flag)
           /\ DownAfter(Append(w, byte), down, Len(w) + 1, flag)
                <=> IF IsScan(byte, flag) THEN ~byte.released ELSE DownAfter(w, down, Len(w), flag)
<1> DEFINE v == Append(w, byte)
           n == Len(w)
<1>1. n \in Nat /\ v[n + 1] = byte /\ \A i \in 1 .. n : v[i] = w[i]
  OBVIOUS
<1> HIDE DEF v, n
<1>2. \A i \in 0 .. n : DownAfter(v, down, i, flag) <=> DownAfter(w, down, i, flag)
  <2> TAKE i \in 0 .. n
  <2>1. \A k \in 1 .. i : v[k] = w[k]
    BY <1>1
  <2> QED
    BY <1>1, <2>1 DEF DownAfter
<1>3. CASE IsScan(byte, flag)
  BY <1>1, <1>3 DEF DownAfter
<1>4. CASE ~IsScan(byte, flag)
  <2>1. DownAfter(v, down, n + 1, flag) => DownAfter(v, down, n, flag)
    BY <1>1, <1>4 DEF DownAfter
  <2>2. DownAfter(v, down, n, flag) => DownAfter(v, down, n + 1, flag)
    BY <1>1, <1>4 DEF DownAfter
  <2>3. DownAfter(v, down, n, flag) <=> DownAfter(w, down, n, flag)
    BY <1>1, <1>2
  <2>4. QED
    BY Zenon, <1>2, <1>4, <2>1, <2>2, <2>3 DEF v, n
<1>5. QED
  BY <1>1, <1>2, <1>3, <1>4 DEF v, n

LEMMA DownTail ==
    ASSUME NEW w \in Seq(Bytes), w # <<>>, NEW down, NEW then, NEW flag,
           flag \in then <=> IF IsScan(w[1], flag) THEN ~w[1].released ELSE flag \in down
    PROVE  \A i \in 0 .. Len(w) - 1 :
               DownAfter(Tail(w), then, i, flag) <=> DownAfter(w, down, i + 1, flag)
<1> DEFINE v == Tail(w)
           n == Len(w)
<1>1. n \in Nat /\ n >= 1 /\ \A i \in 1 .. n - 1 : v[i] = w[i + 1]
  OBVIOUS
<1> HIDE DEF v, n
<1>2. SUFFICES ASSUME NEW i \in 0 .. n - 1
               PROVE  DownAfter(v, then, i, flag) <=> DownAfter(w, down, i + 1, flag)
  BY DEF v, n
<1>3. \A k \in 1 .. i : v[k] = w[k + 1]
  BY <1>1
<1>4. (\A k \in 1 .. i : ~IsScan(v[k], flag)) <=> (\A k \in 2 .. i + 1 : ~IsScan(w[k], flag))
  <2>1. ASSUME \A k \in 1 .. i : ~IsScan(v[k], flag), NEW k \in 2 .. i + 1 PROVE ~IsScan(w[k], flag)
    <3>1. k - 1 \in 1 .. i /\ v[k - 1] = w[k]
      BY <1>3
    <3>2. QED
      BY <2>1, <3>1
  <2>2. ASSUME \A k \in 2 .. i + 1 : ~IsScan(w[k], flag), NEW k \in 1 .. i PROVE ~IsScan(v[k], flag)
    <3>1. k + 1 \in 2 .. i + 1 /\ v[k] = w[k + 1]
      BY <1>3
    <3>2. QED
      BY <2>2, <3>1
  <2>3. QED
    BY <2>1, <2>2
<1> DEFINE Pressed(u, j, m) == IsScan(u[j], flag) /\ ~u[j].released /\ \A k \in j + 1 .. m : ~IsScan(u[k], flag)
<1>5. \A j \in 1 .. i : Pressed(v, j, i) <=> Pressed(w, j + 1, i + 1)
  <2> TAKE j \in 1 .. i
  <2>1. v[j] = w[j + 1]
    BY <1>3
  <2>2. ASSUME \A k \in j + 1 .. i : ~IsScan(v[k], flag), NEW k \in j + 2 .. i + 1 PROVE ~IsScan(w[k], flag)
    <3>1. k - 1 \in j + 1 .. i /\ k - 1 \in 1 .. i /\ v[k - 1] = w[k]
      BY <1>3
    <3>2. QED
      BY <2>2, <3>1
  <2>3. ASSUME \A k \in j + 2 .. i + 1 : ~IsScan(w[k], flag), NEW k \in j + 1 .. i PROVE ~IsScan(v[k], flag)
    <3>1. k + 1 \in j + 2 .. i + 1 /\ v[k] = w[k + 1]
      BY <1>3
    <3>2. QED
      BY <2>3, <3>1
  <2>4. QED
    BY <2>1, <2>2, <2>3
<1>6. (\E j \in 1 .. i : Pressed(v, j, i)) <=> (\E j \in 2 .. i + 1 : Pressed(w, j, i + 1))
  <2>1. ASSUME NEW j \in 1 .. i, Pressed(v, j, i) PROVE \E l \in 2 .. i + 1 : Pressed(w, l, i + 1)
    BY <1>5, <2>1
  <2>2. ASSUME NEW j \in 2 .. i + 1, Pressed(w, j, i + 1) PROVE \E l \in 1 .. i : Pressed(v, l, i)
    <3> DEFINE l == j - 1
    <3>1. l \in 1 .. i /\ l + 1 = j
      OBVIOUS
    <3> HIDE DEF l
    <3>2. Pressed(v, l, i)
      BY <1>5, <2>2, <3>1
    <3>3. QED
      BY <3>1, <3>2
  <2>3. QED
    BY <2>1, <2>2
<1>7. DownAfter(v, then, i, flag)
        <=> \/ \E j \in 1 .. i : Pressed(v, j, i)
            \/ flag \in then /\ \A k \in 1 .. i : ~IsScan(v[k], flag)
  BY DEF DownAfter
<1>8. DownAfter(w, down, i + 1, flag)
        <=> \/ \E j \in 1 .. i + 1 : Pressed(w, j, i + 1)
            \/ flag \in down /\ \A k \in 1 .. i + 1 : ~IsScan(w[k], flag)
  BY DEF DownAfter
<1>9. Pressed(w, 1, i + 1) <=> IsScan(w[1], flag) /\ ~w[1].released /\ \A k \in 2 .. i + 1 : ~IsScan(w[k], flag)
  OBVIOUS
<1> HIDE DEF Pressed
<1>10. (\E j \in 1 .. i + 1 : Pressed(w, j, i + 1))
         <=> Pressed(w, 1, i + 1) \/ \E j \in 2 .. i + 1 : Pressed(w, j, i + 1)
  OBVIOUS
<1>11. (\A k \in 1 .. i + 1 : ~IsScan(w[k], flag))
         <=> ~IsScan(w[1], flag) /\ \A k \in 2 .. i + 1 : ~IsScan(w[k], flag)
  OBVIOUS
<1>12. QED
  BY <1>4, <1>6, <1>7, <1>8, <1>9, <1>10, <1>11

LEMMA DownAtStart ==
    ASSUME NEW w, NEW down, NEW flag
    PROVE  DownAfter(w, down, 0, flag) <=> flag \in down
BY DEF DownAfter
-----------------------------------------------------------------------------
InputTypeOK ==
    /\ wire \in Seq(Bytes) /\ packet \in Seq(PacketBytes)
    /\ \/ typing = <<>>
       \/ \E byte \in Scans : typing = <<byte>> \/ typing = <<Devices!Prefix, byte>>
    /\ DOMAIN hand = {"held", "keys", "left", "moves", "both"}
    /\ hand.held \in SUBSET Devices!Key /\ hand.both \in BOOLEAN /\ hand.left \in BOOLEAN
    /\ hand.moves \in Nat
    /\ poll \in [at : {"idle", "mouse", "keyboard"}, extended : BOOLEAN]
    /\ flags \in [down : SUBSET Devices!Flag, hotkey : BOOLEAN]

OneOfAKind(held) ==
    \A k, l \in held : Devices!FlagOf(k) = Devices!FlagOf(l) => k = l

Agrees(w, down, t, held) ==
    \A flag \in Devices!Flag :
        DownLast(w, down, t, flag) <=> flag \in {Devices!FlagOf(key) : key \in held}

NeverBoth(w, down) ==
    \A i \in 0 .. Len(w) : ~(DownAfter(w, down, i, "ctrl") /\ DownAfter(w, down, i, "shift"))

PrefixesStand(w, t, extended) ==
    /\ \A j \in 1 .. Len(w) : IsScan(w[j], "super") => PrefixBefore(w, j, extended)
    /\ Len(t) = 1 /\ IsScan(t[1], "super") => PrefixBefore(w, Len(w) + 1, extended)

(* Unless the history tells of something poll_input cannot know: what was  *)
(* taken, is on the wire and is still to be sent makes the keys held; ctrl *)
(* and shift never come to be down together unless they were held so; and  *)
(* every super key has its prefix.                                         *)
KeysOk ==
    /\ poll.extended => poll.at = "keyboard"
    /\ history = {} =>
        /\ OneOfAKind(hand.held)
        /\ Agrees(wire, flags.down, typing, hand.held)
        /\ ~hand.both => /\ ~Devices!BothHeld(hand.held) /\ ~flags.hotkey
                         /\ NeverBoth(wire, flags.down)
        /\ PrefixesStand(wire, typing, poll.extended)

LEMMA PrefixAppend ==
    ASSUME NEW w \in Seq(Bytes), NEW byte \in Bytes, NEW extended,
           NEW j \in 1 .. Len(w) + 1
    PROVE  PrefixBefore(Append(w, byte), j, extended) <=> PrefixBefore(w, j, extended)
<1> DEFINE v == Append(w, byte)
           n == Len(w)
<1>1. n \in Nat /\ \A i \in 1 .. n : v[i] = w[i]
  OBVIOUS
<1> HIDE DEF v, n
<1>2. j \in 1 .. n + 1
  BY DEF n
<1>3. \A k \in 1 .. j - 1 : v[k] = w[k]
  BY <1>1, <1>2
<1>4. PrefixBefore(v, j, extended) <=> PrefixBefore(w, j, extended)
  BY <1>1, <1>2, <1>3 DEF PrefixBefore
<1>5. QED
  BY <1>4 DEF v

LEMMA PrefixTail ==
    ASSUME NEW w \in Seq(Bytes), w # <<>>, NEW j \in 1 .. Len(w),
           NEW extended, NEW then,
           PrefixBefore(w, j + 1, extended),
           w[1] = Devices!Prefix => then,
           w[1] \in PacketBytes /\ extended => then
    PROVE  PrefixBefore(Tail(w), j, then)
<1> DEFINE v == Tail(w)
           n == Len(w)
<1>1. n \in Nat /\ n >= 1 /\ j \in 1 .. n /\ \A i \in 1 .. n - 1 : v[i] = w[i + 1]
  OBVIOUS
<1> HIDE DEF v, n
<1>2. CASE extended /\ \A l \in 1 .. j : w[l] \in PacketBytes
  <2>1. then /\ \A l \in 1 .. j - 1 : v[l] \in PacketBytes
    BY <1>1, <1>2
  <2>2. QED
    BY <2>1 DEF PrefixBefore, v
<1>3. ASSUME NEW k \in 1 .. j, w[k] = Devices!Prefix, \A l \in k + 1 .. j : w[l] \in PacketBytes
      PROVE  PrefixBefore(v, j, then)
  <2>1. \A l \in k .. j - 1 : l >= 1 => v[l] \in PacketBytes
    BY <1>1, <1>3
  <2>2. CASE k = 1
    <3>1. then
      BY <1>3, <2>2
    <3>2. \A l \in 1 .. j - 1 : v[l] \in PacketBytes
      BY <2>1, <2>2
    <3>3. QED
      BY <3>1, <3>2 DEF PrefixBefore
  <2>3. CASE k # 1
    <3> DEFINE h == k - 1
    <3>1. h \in 1 .. j - 1 /\ h + 1 = k
      BY <2>3
    <3> HIDE DEF h
    <3>2. v[h] = Devices!Prefix
      BY <1>1, <1>3, <3>1
    <3>3. \A l \in h + 1 .. j - 1 : v[l] \in PacketBytes
      BY <2>1, <3>1
    <3>4. QED
      BY <3>1, <3>2, <3>3 DEF PrefixBefore
  <2>4. QED
    BY <2>2, <2>3
<1>4. (extended /\ \A l \in 1 .. j : w[l] \in PacketBytes)
        \/ \E k \in 1 .. j : w[k] = Devices!Prefix /\ \A l \in k + 1 .. j : w[l] \in PacketBytes
  <2>1. (j + 1) - 1 = j
    BY <1>1
  <2>2. QED
    BY <2>1 DEF PrefixBefore
<1>5. QED
  BY <1>2, <1>3, <1>4 DEF v

LEMMA KeysCounted ==
    ASSUME NEW S
    PROVE  Devices!Cardinality(S) = Cardinality(S)
BY DEF Devices!Cardinality, Cardinality, Devices!IsFiniteSet, IsFiniteSet

(* Not more than two keys are of a kind. *)
LEMMA TwoOfAKind ==
    ASSUME NEW held \in SUBSET Devices!Key, NEW key \in held, NEW other \in held,
           other # key, Devices!FlagOf(other) = Devices!FlagOf(key)
    PROVE  Cardinality({k \in held : Devices!FlagOf(k) = Devices!FlagOf(key)}) = 2
<1>1. \A k \in Devices!Key : Devices!FlagOf(k) = Devices!FlagOf(key) => k \in {key, other}
  BY DEF Devices!Key, Devices!FlagOf
<1>2. {k \in held : Devices!FlagOf(k) = Devices!FlagOf(key)} = {key, other}
  BY <1>1
<1>3. {key, other} = {other} \cup {key} /\ key \notin {other}
  OBVIOUS
<1>4. IsFiniteSet({other}) /\ Cardinality({other}) = 1
  BY FS_Singleton
<1>5. Cardinality({other} \cup {key}) = Cardinality({other}) + 1
  BY <1>3, <1>4, FS_AddElement, Zenon
<1>6. QED
  BY <1>2, <1>3, <1>4, <1>5

LEMMA PressStep ==
    ASSUME InputTypeOK, KeysOk, NEW key \in Devices!Key, Devices!PressOrRelease(key)
    PROVE  InputTypeOK' /\ KeysOk'
<1> DEFINE then == Devices!Toggled(key)
           byte == Devices!Scancode(key, key \in hand.held)
           sort == Devices!FlagOf(key)
<1>1. /\ typing = <<>> /\ UNCHANGED <<wire, packet, poll, mouse, flags>>
      /\ hand' = [hand EXCEPT !.held = then, !.keys = @ + 1,
                              !.both = @ \/ Devices!BothHeld(then)]
      /\ typing' = (IF Devices!Extended(key) THEN <<Devices!Prefix>> ELSE <<>>) \o <<byte>>
      /\ history' = history \cup
            (IF Cardinality({k \in then : Devices!FlagOf(k) = sort}) = 2 THEN {"twoOfOneKind"} ELSE {})
  BY KeysCounted DEF Devices!PressOrRelease
<1>2. byte \in Scans /\ byte.code = key /\ byte.released = (key \in hand.held)
  <2>1. \E released \in BOOLEAN : byte = Devices!Scancode(key, released)
    <3>1. CASE key \in hand.held
      BY <3>1 DEF Devices!Scancode
    <3>2. CASE key \notin hand.held
      <4>1. (key \in hand.held) = FALSE
        BY <3>2
      <4>2. byte = Devices!Scancode(key, FALSE)
        BY Zenon, <4>1
      <4>3. QED
        BY Zenon, <4>2
    <3>3. QED
      BY <3>1, <3>2
  <2>2. byte \in Scans
    <3> HIDE DEF byte
    <3>1. QED
      BY <2>1 DEF Scans
  <2>3. QED
    BY <2>2 DEF Devices!Scancode
<1>3. then \in SUBSET Devices!Key /\ then = (IF key \in hand.held THEN hand.held \ {key} ELSE hand.held \cup {key})
  BY DEF InputTypeOK, Devices!Toggled
<1>4. sort \in Devices!Flag /\ (sort = "super" <=> key = "super")
  BY FlagFacts
<1> HIDE DEF then, byte, sort
<1>5. /\ DOMAIN hand' = {"held", "keys", "left", "moves", "both"}
      /\ hand'.held = then /\ hand'.left = hand.left /\ hand'.moves = hand.moves
      /\ hand'.both = (hand.both \/ Devices!BothHeld(then))
  BY <1>1 DEF InputTypeOK
<1>6. \/ typing' = <<byte>> /\ key # "super"
      \/ typing' = <<Devices!Prefix, byte>>
  <2>1. CASE Devices!Extended(key)
    <3>1. typing' = <<Devices!Prefix>> \o <<byte>>
      BY <1>1, <2>1
    <3>2. <<Devices!Prefix>> \in Seq(Bytes) /\ <<byte>> \in Seq(Bytes)
      BY <1>2 DEF Bytes
    <3>3. /\ Len(typing') = 2 /\ typing' \in Seq(Bytes)
          /\ typing'[1] = Devices!Prefix /\ typing'[2] = byte
      BY <3>1, <3>2
    <3>4. QED
      BY <3>3
  <2>2. CASE ~Devices!Extended(key)
    BY <1>1, <2>2 DEF Devices!Extended
  <2>3. QED
    BY <2>1, <2>2
<1>7. InputTypeOK'
  <2>1. \E b \in Scans : typing' = <<b>> \/ typing' = <<Devices!Prefix, b>>
    BY <1>2, <1>6
  <2>2. hand'.both \in BOOLEAN
    BY <1>5 DEF Devices!BothHeld, InputTypeOK
  <2>3. QED
    BY <1>1, <1>3, <1>5, <2>1, <2>2 DEF InputTypeOK
<1>8. SUFFICES ASSUME history' = {}
               PROVE  /\ OneOfAKind(then)
                      /\ Agrees(wire, flags.down, typing', then)
                      /\ ~hand'.both => /\ ~Devices!BothHeld(then) /\ ~flags.hotkey
                                        /\ NeverBoth(wire, flags.down)
                      /\ PrefixesStand(wire, typing', poll.extended)
  BY <1>1, <1>5, <1>7 DEF KeysOk
<1>9. history = {} /\ Cardinality({k \in then : Devices!FlagOf(k) = sort}) # 2
  BY <1>1, <1>8
<1>10. /\ OneOfAKind(hand.held) /\ Agrees(wire, flags.down, <<>>, hand.held)
       /\ ~hand.both => ~flags.hotkey /\ NeverBoth(wire, flags.down)
       /\ PrefixesStand(wire, <<>>, poll.extended)
  BY <1>1, <1>9 DEF KeysOk
<1>11. OneOfAKind(then)
  <2>1. ASSUME key \notin hand.held, NEW k \in hand.held, Devices!FlagOf(k) = sort PROVE FALSE
    <3>1. key \in then /\ k \in then /\ k # key
      BY <1>3, <2>1
    <3>2. QED
      BY <1>3, <1>9, <2>1, <3>1, TwoOfAKind DEF sort
  <2>2. QED
    BY <1>3, <1>10, <2>1 DEF OneOfAKind, sort
<1>12. \A flag \in Devices!Flag :
          DownLast(wire, flags.down, typing', flag)
            <=> IF flag = sort THEN key \notin hand.held ELSE DownAfter(wire, flags.down, Len(wire), flag)
  <2>1. typing' # <<>> /\ typing'[Len(typing')] = byte
    BY <1>6
  <2>2. \A flag : IsScan(byte, flag) <=> flag = sort
    BY <1>2 DEF IsScan, sort
  <2>3. \A flag : typing' # <<>> /\ IsScan(typing'[Len(typing')], flag) <=> flag = sort
    BY <2>1, <2>2
  <2>4. ~typing'[Len(typing')].released <=> key \notin hand.held
    BY <1>2, <2>1
  <2>5. QED
    BY <2>3, <2>4 DEF DownLast
<1>13. \A flag \in Devices!Flag :
          DownAfter(wire, flags.down, Len(wire), flag) <=> flag \in {Devices!FlagOf(k) : k \in hand.held}
  BY <1>10 DEF Agrees, DownLast
<1>14. Agrees(wire, flags.down, typing', then)
  <2>1. SUFFICES ASSUME NEW flag \in Devices!Flag
                 PROVE  (\E k \in then : flag = Devices!FlagOf(k))
                          <=> IF flag = sort THEN key \notin hand.held
                              ELSE \E k \in hand.held : flag = Devices!FlagOf(k)
    BY <1>12, <1>13 DEF Agrees
  <2>2. CASE flag = sort /\ key \in hand.held
    BY <1>3, <1>10, <2>2 DEF OneOfAKind, sort
  <2>3. CASE flag = sort /\ key \notin hand.held
    BY <1>3, <2>3 DEF sort
  <2>4. CASE flag # sort
    BY <1>3, <2>4 DEF sort
  <2>5. QED
    BY <2>2, <2>3, <2>4
<1>15. PrefixesStand(wire, typing', poll.extended)
  <2>1. ~(Len(typing') = 1 /\ IsScan(typing'[1], "super"))
    BY <1>2, <1>4, <1>6 DEF IsScan, sort
  <2>2. QED
    BY <1>10, <2>1 DEF PrefixesStand
<1>16. QED
  BY <1>5, <1>10, <1>11, <1>14, <1>15

LEMMA KeyboardSendsStep ==
    ASSUME InputTypeOK, KeysOk, Devices!KeyboardSends
    PROVE  InputTypeOK' /\ KeysOk'
<1> DEFINE next == typing[1]
<1>1. /\ typing # <<>> /\ wire' = Append(wire, Head(typing)) /\ typing' = Tail(typing)
      /\ UNCHANGED <<packet, hand, poll, mouse, flags, history>>
  BY DEF Devices!KeyboardSends
<1>2. PICK byte \in Scans : typing = <<byte>> \/ typing = <<Devices!Prefix, byte>>
  BY <1>1 DEF InputTypeOK
<1>3. byte \in Bytes /\ byte # Devices!Prefix /\ Devices!Prefix \in Bytes /\ wire \in Seq(Bytes)
  BY <1>2, ByteFacts DEF Bytes, InputTypeOK
<1>4. next \in Bytes /\ wire' = Append(wire, next) /\ wire' \in Seq(Bytes)
  BY <1>1, <1>2, <1>3
<1>5. /\ typing = <<byte>> => next = byte /\ typing' = <<>>
      /\ typing = <<Devices!Prefix, byte>> => next = Devices!Prefix /\ typing' = <<byte>>
  <2>1. CASE typing = <<byte>>
    BY <1>1, <1>3, <2>1
  <2>2. CASE typing = <<Devices!Prefix, byte>>
    <3>1. typing' \in Seq(Bytes) /\ Len(typing') = 1 /\ typing'[1] = byte
      BY <1>1, <1>3, <2>2
    <3>2. next = Devices!Prefix /\ typing' = <<byte>> /\ Len(typing) = 2
      BY <2>2, <3>1
    <3>3. QED
      BY <3>2
  <2>3. QED
    BY <1>2, <2>1, <2>2
<1>6. InputTypeOK'
  BY <1>1, <1>2, <1>4, <1>5 DEF InputTypeOK
<1> HIDE DEF next
<1>7. SUFFICES ASSUME history = {}
               PROVE  /\ Agrees(wire', flags.down, typing', hand.held)
                      /\ ~hand.both => NeverBoth(wire', flags.down)
                      /\ PrefixesStand(wire', typing', poll.extended)
  BY <1>1, <1>6 DEF KeysOk
<1>8. /\ Agrees(wire, flags.down, typing, hand.held)
      /\ ~hand.both => ~Devices!BothHeld(hand.held) /\ NeverBoth(wire, flags.down)
      /\ PrefixesStand(wire, typing, poll.extended)
  BY <1>7 DEF KeysOk
<1>9. Len(wire) \in Nat /\ Len(wire') = Len(wire) + 1
  BY <1>3, <1>4
<1>10. /\ \A i \in 0 .. Len(wire), flag \in Devices!Flag :
             DownAfter(wire', flags.down, i, flag) <=> DownAfter(wire, flags.down, i, flag)
       /\ \A flag \in Devices!Flag :
             DownAfter(wire', flags.down, Len(wire'), flag)
               <=> IF IsScan(next, flag) THEN ~next.released ELSE DownAfter(wire, flags.down, Len(wire), flag)
  BY <1>3, <1>4, <1>9, DownAppend
<1>11. \A j \in 1 .. Len(wire) + 1 : PrefixBefore(wire', j, poll.extended) <=> PrefixBefore(wire, j, poll.extended)
  BY <1>3, <1>4, PrefixAppend
<1>12. wire'[Len(wire) + 1] = next /\ \A j \in 1 .. Len(wire) : wire'[j] = wire[j]
  BY <1>3, <1>4
<1>13. CASE typing = <<byte>>
  <2>1. typing # <<>> /\ typing[Len(typing)] = next /\ Len(typing) = 1 /\ typing[1] = next
    BY <1>5, <1>13
  <2>2. \A flag \in Devices!Flag : DownAfter(wire', flags.down, Len(wire'), flag)
                                     <=> flag \in {Devices!FlagOf(key) : key \in hand.held}
    BY <1>8, <1>10, <2>1 DEF Agrees, DownLast
  <2>3. Agrees(wire', flags.down, typing', hand.held)
    BY <1>5, <1>13, <2>2 DEF Agrees, DownLast
  <2>4. ASSUME ~hand.both PROVE NeverBoth(wire', flags.down)
    <3>1. ~(DownAfter(wire', flags.down, Len(wire'), "ctrl") /\ DownAfter(wire', flags.down, Len(wire'), "shift"))
      BY <1>8, <2>2, <2>4 DEF Devices!BothHeld, Devices!Flag
    <3>2. \A i \in 0 .. Len(wire) :
             ~(DownAfter(wire', flags.down, i, "ctrl") /\ DownAfter(wire', flags.down, i, "shift"))
      BY <1>8, <1>10, <2>4 DEF NeverBoth, Devices!Flag
    <3>3. QED
      BY <1>9, <3>1, <3>2 DEF NeverBoth
  <2>5. PrefixesStand(wire', typing', poll.extended)
    <3>1. Len(typing') # 1
      BY <1>5, <1>13
    <3>2. ASSUME NEW j \in 1 .. Len(wire) + 1, IsScan(wire'[j], "super")
          PROVE  PrefixBefore(wire', j, poll.extended)
      <4>1. CASE j = Len(wire) + 1
        BY <1>8, <1>11, <1>12, <2>1, <3>2, <4>1 DEF PrefixesStand
      <4>2. CASE j # Len(wire) + 1
        BY <1>8, <1>9, <1>11, <1>12, <3>2, <4>2 DEF PrefixesStand
      <4>3. QED
        BY <4>1, <4>2
    <3>3. QED
      BY <1>9, <3>1, <3>2 DEF PrefixesStand
  <2>6. QED
    BY <2>3, <2>4, <2>5
<1>14. CASE typing = <<Devices!Prefix, byte>>
  <2>1. /\ typing # <<>> /\ typing[Len(typing)] = byte
        /\ typing' # <<>> /\ typing'[Len(typing')] = byte /\ typing'[1] = byte
    BY <1>5, <1>14
  <2>2. next = Devices!Prefix /\ \A flag : ~IsScan(next, flag)
    BY <1>3, <1>5, <1>14, ByteFacts DEF IsScan
  <2>3. \A flag \in Devices!Flag :
           DownAfter(wire', flags.down, Len(wire'), flag) <=> DownAfter(wire, flags.down, Len(wire), flag)
    BY <1>10, <2>2
  <2>4. Agrees(wire', flags.down, typing', hand.held)
    BY <1>8, <2>1, <2>3 DEF Agrees, DownLast
  <2>5. ASSUME ~hand.both PROVE NeverBoth(wire', flags.down)
    <3>1. \A flag \in {"ctrl", "shift"} : flag \in Devices!Flag
      BY DEF Devices!Flag
    <3>2. \A i \in 0 .. Len(wire) :
             ~(DownAfter(wire, flags.down, i, "ctrl") /\ DownAfter(wire, flags.down, i, "shift"))
      BY <1>8, <2>5 DEF NeverBoth
    <3>3. \A i \in 0 .. Len(wire) :
             ~(DownAfter(wire', flags.down, i, "ctrl") /\ DownAfter(wire', flags.down, i, "shift"))
      BY <1>10, <3>1, <3>2
    <3>4. ~(DownAfter(wire', flags.down, Len(wire'), "ctrl") /\ DownAfter(wire', flags.down, Len(wire'), "shift"))
      BY <1>9, <2>3, <3>1, <3>2
    <3>5. QED
      BY <1>9, <3>3, <3>4 DEF NeverBoth
  <2>6. PrefixesStand(wire', typing', poll.extended)
    <3>1. \A j \in 1 .. Len(wire') : IsScan(wire'[j], "super") => PrefixBefore(wire', j, poll.extended)
      BY <1>8, <1>9, <1>11, <1>12, <2>2 DEF PrefixesStand
    <3>2. PrefixBefore(wire', Len(wire') + 1, poll.extended)
      BY <1>9, <1>12, <2>2 DEF PrefixBefore
    <3>3. QED
      BY <3>1, <3>2 DEF PrefixesStand
  <2>7. QED
    BY <2>4, <2>5, <2>6
<1>15. QED
  BY <1>2, <1>13, <1>14

LEMMA MouseSendsStep ==
    ASSUME InputTypeOK, KeysOk, Devices!MouseSends
    PROVE  InputTypeOK' /\ KeysOk'
<1> DEFINE next == packet[1]
<1>1. /\ packet # <<>> /\ wire' = Append(wire, Head(packet)) /\ packet' = Tail(packet)
      /\ UNCHANGED <<typing, hand, poll, mouse, flags, history>>
  BY DEF Devices!MouseSends
<1>2. /\ next \in PacketBytes /\ next \in Bytes /\ wire \in Seq(Bytes)
      /\ wire' = Append(wire, next) /\ wire' \in Seq(Bytes) /\ packet' \in Seq(PacketBytes)
  BY <1>1 DEF InputTypeOK, Bytes
<1> HIDE DEF next
<1>3. next # Devices!Prefix /\ \A flag : ~IsScan(next, flag)
  BY <1>2, ByteFacts DEF IsScan
<1>4. InputTypeOK'
  BY <1>1, <1>2 DEF InputTypeOK
<1>5. SUFFICES ASSUME history = {}
               PROVE  /\ Agrees(wire', flags.down, typing, hand.held)
                      /\ ~hand.both => NeverBoth(wire', flags.down)
                      /\ PrefixesStand(wire', typing, poll.extended)
  BY <1>1, <1>4 DEF KeysOk
<1>6. /\ Agrees(wire, flags.down, typing, hand.held)
      /\ ~hand.both => NeverBoth(wire, flags.down)
      /\ PrefixesStand(wire, typing, poll.extended)
  BY <1>5 DEF KeysOk
<1>7. Len(wire) \in Nat /\ Len(wire') = Len(wire) + 1
  BY <1>2
<1>8. /\ \A i \in 0 .. Len(wire), flag \in Devices!Flag :
             DownAfter(wire', flags.down, i, flag) <=> DownAfter(wire, flags.down, i, flag)
      /\ \A flag \in Devices!Flag :
             DownAfter(wire', flags.down, Len(wire'), flag) <=> DownAfter(wire, flags.down, Len(wire), flag)
  <2> SUFFICES ASSUME NEW flag \in Devices!Flag
               PROVE  /\ \A i \in 0 .. Len(wire) :
                            DownAfter(wire', flags.down, i, flag) <=> DownAfter(wire, flags.down, i, flag)
                      /\ DownAfter(wire', flags.down, Len(wire) + 1, flag)
                            <=> DownAfter(wire, flags.down, Len(wire), flag)
    BY <1>7
  <2> QED
    BY <1>2, <1>3, DownAppend
<1>9. \A j \in 1 .. Len(wire) + 1 : PrefixBefore(wire', j, poll.extended) <=> PrefixBefore(wire, j, poll.extended)
  BY <1>2, PrefixAppend
<1>10. wire'[Len(wire) + 1] = next /\ \A j \in 1 .. Len(wire) : wire'[j] = wire[j]
  BY <1>2
<1>11. Agrees(wire', flags.down, typing, hand.held)
  BY <1>6, <1>8 DEF Agrees, DownLast
<1>12. ASSUME ~hand.both PROVE NeverBoth(wire', flags.down)
  <2>1. \A flag \in {"ctrl", "shift"} : flag \in Devices!Flag
    BY DEF Devices!Flag
  <2>2. \A i \in 0 .. Len(wire) :
           ~(DownAfter(wire, flags.down, i, "ctrl") /\ DownAfter(wire, flags.down, i, "shift"))
    BY <1>6, <1>12 DEF NeverBoth
  <2>3. QED
    BY <1>7, <1>8, <2>1, <2>2 DEF NeverBoth
<1>13. PrefixesStand(wire', typing, poll.extended)
  <2>1. \A j \in 1 .. Len(wire') : IsScan(wire'[j], "super") => PrefixBefore(wire', j, poll.extended)
    BY <1>3, <1>6, <1>7, <1>9, <1>10 DEF PrefixesStand
  <2>2. ASSUME PrefixBefore(wire, Len(wire) + 1, poll.extended)
        PROVE  PrefixBefore(wire', Len(wire') + 1, poll.extended)
    <3>1. CASE poll.extended /\ \A l \in 1 .. Len(wire) : wire[l] \in PacketBytes
      BY <1>2, <1>7, <1>10, <3>1 DEF PrefixBefore
    <3>2. CASE \E k \in 1 .. Len(wire) :
                  wire[k] = Devices!Prefix /\ \A l \in k + 1 .. Len(wire) : wire[l] \in PacketBytes
      BY SMTT(30), <1>2, <1>7, <1>10, <3>2 DEF PrefixBefore
    <3>3. (Len(wire) + 1) - 1 = Len(wire)
      BY <1>7
    <3>4. QED
      BY <2>2, <3>1, <3>2, <3>3 DEF PrefixBefore
  <2>3. QED
    BY <1>6, <2>1, <2>2 DEF PrefixesStand
<1>14. QED
  BY <1>11, <1>12, <1>13

(* Taking a byte leaves what is down after the rest.                       *)
LEMMA TakeByte ==
    ASSUME NEW w \in Seq(Bytes), w # <<>>, NEW down, NEW then, NEW t, NEW held,
           NEW extended, NEW after,
           \A flag \in Devices!Flag :
               flag \in then <=> IF IsScan(w[1], flag) THEN ~w[1].released ELSE flag \in down,
           w[1] = Devices!Prefix => after,
           w[1] \in PacketBytes /\ extended => after
    PROVE  /\ Agrees(w, down, t, held) => Agrees(Tail(w), then, t, held)
           /\ NeverBoth(w, down) => NeverBoth(Tail(w), then)
           /\ PrefixesStand(w, t, extended) => PrefixesStand(Tail(w), t, after)
<1> DEFINE v == Tail(w)
<1>1. v \in Seq(Bytes) /\ Len(w) \in Nat \ {0} /\ Len(v) = Len(w) - 1
      /\ \A j \in 1 .. Len(v) : v[j] = w[j + 1]
  OBVIOUS
<1>2. \A flag \in Devices!Flag : \A i \in 0 .. Len(w) - 1 :
          DownAfter(v, then, i, flag) <=> DownAfter(w, down, i + 1, flag)
  BY DownTail
<1>3. \A j \in 1 .. Len(w) : PrefixBefore(w, j + 1, extended) => PrefixBefore(v, j, after)
  BY PrefixTail
<1> HIDE DEF v
<1>4. ASSUME Agrees(w, down, t, held) PROVE Agrees(v, then, t, held)
  <2>1. \A flag \in Devices!Flag : DownAfter(v, then, Len(v), flag) <=> DownAfter(w, down, Len(w), flag)
    BY <1>1, <1>2
  <2>2. QED
    BY <1>4, <2>1 DEF Agrees, DownLast
<1>5. ASSUME NeverBoth(w, down) PROVE NeverBoth(v, then)
  <2>1. "ctrl" \in Devices!Flag /\ "shift" \in Devices!Flag
    BY DEF Devices!Flag
  <2>2. ASSUME NEW i \in 0 .. Len(v)
        PROVE  ~(DownAfter(v, then, i, "ctrl") /\ DownAfter(v, then, i, "shift"))
    <3>1. i \in 0 .. Len(w) - 1 /\ i + 1 \in 0 .. Len(w)
      BY <1>1
    <3>2. QED
      BY <1>2, <1>5, <2>1, <3>1 DEF NeverBoth
  <2>3. QED
    BY <2>2 DEF NeverBoth
<1>6. ASSUME PrefixesStand(w, t, extended) PROVE PrefixesStand(v, t, after)
  <2>1. ASSUME NEW j \in 1 .. Len(v), IsScan(v[j], "super") PROVE PrefixBefore(v, j, after)
    <3>1. j \in 1 .. Len(w) /\ j + 1 \in 1 .. Len(w) /\ v[j] = w[j + 1]
      BY <1>1
    <3>2. PrefixBefore(w, j + 1, extended)
      BY <1>6, <2>1, <3>1 DEF PrefixesStand
    <3>3. QED
      BY <1>3, <3>1, <3>2
  <2>2. ASSUME Len(t) = 1, IsScan(t[1], "super") PROVE PrefixBefore(v, Len(v) + 1, after)
    <3>1. PrefixBefore(w, Len(w) + 1, extended)
      BY <1>6, <2>2 DEF PrefixesStand
    <3>2. QED
      BY <1>1, <1>3, <3>1
  <2>3. QED
    BY <2>1, <2>2 DEF PrefixesStand
<1>7. QED
  BY <1>4, <1>5, <1>6 DEF v

LEMMA PollMouseStep ==
    ASSUME InputTypeOK, KeysOk, Devices!PollMouse
    PROVE  InputTypeOK' /\ KeysOk'
<1>1. poll.at = "mouse" /\ ~poll.extended /\ UNCHANGED <<typing, packet, hand, flags, history>>
  BY DEF Devices!PollMouse, KeysOk, InputTypeOK
<1>2. CASE Devices!FromMouse
  <2>1. wire # <<>> /\ wire[1].from = "mouse" /\ wire' = Tail(wire) /\ UNCHANGED poll
    BY <1>2 DEF Devices!PollMouse, Devices!FromMouse
  <2>2. wire \in Seq(Bytes) /\ wire' \in Seq(Bytes) /\ wire[1] \in Bytes
    BY <2>1 DEF InputTypeOK
  <2>3. wire[1] # Devices!Prefix /\ \A flag : ~IsScan(wire[1], flag)
    BY <2>1, <2>2, ByteFacts DEF IsScan
  <2>4. InputTypeOK'
    BY <1>1, <2>1, <2>2 DEF InputTypeOK
  <2>5. /\ Agrees(wire, flags.down, typing, hand.held) => Agrees(wire', flags.down, typing, hand.held)
        /\ NeverBoth(wire, flags.down) => NeverBoth(wire', flags.down)
        /\ PrefixesStand(wire, typing, poll.extended) => PrefixesStand(wire', typing, poll.extended)
    BY <2>1, <2>2, <2>3, TakeByte
  <2>6. QED
    BY <1>1, <2>1, <2>4, <2>5 DEF KeysOk
<1>3. CASE ~Devices!FromMouse
  <2>1. poll' = [at |-> "keyboard", extended |-> FALSE] /\ UNCHANGED wire
    BY <1>3 DEF Devices!PollMouse
  <2>2. poll' \in [at : {"idle", "mouse", "keyboard"}, extended : BOOLEAN]
        /\ poll'.at = "keyboard" /\ ~poll'.extended
    BY <2>1
  <2>3. InputTypeOK'
    BY <1>1, <2>1, <2>2 DEF InputTypeOK
  <2>4. PrefixesStand(wire, typing, poll.extended) => PrefixesStand(wire, typing, poll'.extended)
    BY <1>1, <2>2 DEF PrefixesStand, PrefixBefore
  <2>5. QED
    BY <1>1, <2>1, <2>2, <2>3, <2>4 DEF KeysOk
<1>4. QED
  BY <1>2, <1>3

(* What the case of a key does to its modifier, and to the hotkey.         *)
LEMMA ScancodeTaken ==
    ASSUME InputTypeOK, NEW byte \in Scans, NEW extended,
           IsScan(byte, "super") => extended
    PROVE  LET after == Devices!WithScancode(flags, byte, extended)
           IN  /\ after \in [down : SUBSET Devices!Flag, hotkey : BOOLEAN]
               /\ \A flag \in Devices!Flag :
                      flag \in after.down
                        <=> IF IsScan(byte, flag) THEN ~byte.released ELSE flag \in flags.down
               /\ after.hotkey => flags.hotkey \/ ("ctrl" \in after.down /\ "shift" \in after.down)
<1> DEFINE flag == Devices!FlagOf(byte.code)
           down == IF byte.released THEN flags.down \ {flag} ELSE flags.down \cup {flag}
           after == Devices!WithScancode(flags, byte, extended)
           fires == ~byte.released /\ flag # "super" /\ {"ctrl", "shift"} \subseteq down
<1>1. byte \in Bytes /\ byte.code \in Devices!Key /\ byte.released \in BOOLEAN
  BY ByteFacts DEF Bytes
<1>2. flag \in Devices!Flag /\ (\A f : IsScan(byte, f) <=> f = flag)
  BY <1>1, FlagFacts DEF IsScan
<1>3. flags.down \in SUBSET Devices!Flag /\ flags.hotkey \in BOOLEAN
  BY DEF InputTypeOK
<1>4. flag = "super" => extended
  BY <1>2
<1>5. after = [down |-> down, hotkey |-> flags.hotkey \/ fires]
  BY <1>4 DEF Devices!WithScancode
<1> HIDE DEF flag, after
<1>6. after.down = down /\ after.hotkey = (flags.hotkey \/ fires)
  BY <1>5
<1>7. down \in SUBSET Devices!Flag
  BY <1>2, <1>3
<1>8. after \in [down : SUBSET Devices!Flag, hotkey : BOOLEAN]
  <2>1. (flags.hotkey \/ fires) \in BOOLEAN
    OBVIOUS
  <2> HIDE DEF down, fires
  <2>2. QED
    BY Zenon, <1>5, <1>7, <2>1
<1>9. \A f \in Devices!Flag : f \in down <=> IF f = flag THEN ~byte.released ELSE f \in flags.down
  BY <1>2
<1>10. fires => "ctrl" \in down /\ "shift" \in down
  OBVIOUS
<1>11. QED
  BY <1>2, <1>6, <1>8, <1>9, <1>10 DEF after

LEMMA PollKeyboardStep ==
    ASSUME InputTypeOK, KeysOk, Devices!PollKeyboard
    PROVE  InputTypeOK' /\ KeysOk'
<1> DEFINE byte == wire[1]
           after == Devices!WithScancode(flags, byte, poll.extended)
<1>1. /\ poll.at = "keyboard" /\ wire # <<>> /\ byte.from = "keyboard"
      /\ wire' = Tail(wire) /\ UNCHANGED <<typing, packet, hand, mouse, history>>
      /\ IF byte = Devices!Prefix
         THEN poll' = [poll EXCEPT !.extended = TRUE] /\ UNCHANGED flags
         ELSE /\ flags' = after
              /\ poll' = [poll EXCEPT !.extended = @ /\ after.hotkey /\ ~flags.hotkey]
  BY DEF Devices!PollKeyboard, Devices!FromKeyboard
<1>2. wire \in Seq(Bytes) /\ wire' \in Seq(Bytes) /\ byte \in Bytes
  BY <1>1 DEF InputTypeOK
<1> HIDE DEF byte, after
<1>3. byte \notin PacketBytes /\ (byte = Devices!Prefix \/ byte \in Scans)
  BY <1>1, <1>2, ByteFacts
<1>4. CASE byte = Devices!Prefix
  <2>1. poll' \in [at : {"idle", "mouse", "keyboard"}, extended : BOOLEAN]
        /\ poll'.at = "keyboard" /\ poll'.extended = TRUE /\ flags' = flags
    BY <1>1, <1>4 DEF InputTypeOK
  <2>2. \A flag : ~IsScan(byte, flag)
    BY <1>2, <1>4, ByteFacts DEF IsScan
  <2>3. InputTypeOK'
    BY <1>1, <1>2, <2>1 DEF InputTypeOK
  <2>4. /\ Agrees(wire, flags.down, typing, hand.held) => Agrees(wire', flags.down, typing, hand.held)
        /\ NeverBoth(wire, flags.down) => NeverBoth(wire', flags.down)
        /\ PrefixesStand(wire, typing, poll.extended) => PrefixesStand(wire', typing, TRUE)
    BY <1>1, <1>2, <2>2, TakeByte DEF byte
  <2>5. QED
    BY <1>1, <2>1, <2>3, <2>4 DEF KeysOk
<1>5. CASE byte # Devices!Prefix
  <2>1. byte \in Scans /\ flags' = after
        /\ poll' = [poll EXCEPT !.extended = @ /\ after.hotkey /\ ~flags.hotkey]
    BY <1>1, <1>3, <1>5
  <2>2. poll' \in [at : {"idle", "mouse", "keyboard"}, extended : BOOLEAN] /\ poll'.at = "keyboard"
    BY <1>1, <2>1 DEF InputTypeOK
  <2>3. after \in [down : SUBSET Devices!Flag, hotkey : BOOLEAN]
    <3>1. after.down \in SUBSET Devices!Flag
      BY <1>2, <2>1, ByteFacts, FlagFacts DEF after, Devices!WithScancode, InputTypeOK
    <3>2. PICK down, hot : after = [down |-> down, hotkey |-> flags.hotkey \/ hot]
      BY DEF after, Devices!WithScancode
    <3>3. (flags.hotkey \/ hot) \in BOOLEAN /\ after.down = down
      BY <3>2
    <3>4. QED
      BY Zenon, <3>1, <3>2, <3>3
  <2>4. InputTypeOK'
    BY <1>1, <1>2, <2>1, <2>2, <2>3 DEF InputTypeOK
  <2>5. SUFFICES ASSUME history = {}
                 PROVE  /\ Agrees(wire', after.down, typing, hand.held)
                        /\ ~hand.both => ~after.hotkey /\ NeverBoth(wire', after.down)
                        /\ PrefixesStand(wire', typing, poll'.extended)
    BY <1>1, <2>1, <2>2, <2>4 DEF KeysOk
  <2>6. /\ Agrees(wire, flags.down, typing, hand.held)
        /\ ~hand.both => ~flags.hotkey /\ NeverBoth(wire, flags.down)
        /\ PrefixesStand(wire, typing, poll.extended)
    BY <2>5 DEF KeysOk
  <2>7. IsScan(byte, "super") => poll.extended
    <3>1. 1 \in 1 .. Len(wire)
      BY <1>1, <1>2
    <3>2. QED
      BY <2>6, <3>1 DEF PrefixesStand, PrefixBefore, byte
  <2>8. /\ \A flag \in Devices!Flag :
               flag \in after.down <=> IF IsScan(byte, flag) THEN ~byte.released ELSE flag \in flags.down
        /\ after.hotkey => flags.hotkey \/ ("ctrl" \in after.down /\ "shift" \in after.down)
    BY <2>1, <2>7, ScancodeTaken DEF after
  <2>9. /\ Agrees(wire', after.down, typing, hand.held)
        /\ NeverBoth(wire, flags.down) => NeverBoth(wire', after.down)
        /\ PrefixesStand(wire', typing, poll'.extended)
    BY <1>1, <1>2, <1>3, <1>5, <2>6, <2>8, TakeByte DEF byte
  <2>10. ASSUME NeverBoth(wire', after.down) PROVE ~("ctrl" \in after.down /\ "shift" \in after.down)
    <3>1. 0 \in 0 .. Len(wire')
      BY <1>2
    <3>2. QED
      BY <2>10, <3>1, DownAtStart DEF NeverBoth
  <2>11. QED
    BY <2>6, <2>8, <2>9, <2>10
<1>6. QED
  BY <1>4, <1>5

LEMMA KeysStep ==
    ASSUME InputTypeOK, KeysOk, [Devices!InputNext]_deviceVars
    PROVE  InputTypeOK' /\ KeysOk'
<1>1. CASE \E key \in Devices!Key : Devices!PressOrRelease(key)
  BY <1>1, PressStep
<1>2. ASSUME NEW left \in BOOLEAN, Devices!MoveOrClick(left)
      PROVE  InputTypeOK' /\ KeysOk'
  <2> DEFINE sent == [n \in 1 .. 3 |-> Devices!PacketByte(n, left)]
  <2>1. /\ hand' = [hand EXCEPT !.left = left, !.moves = @ + 1]
        /\ packet' = sent /\ UNCHANGED <<wire, typing, poll, mouse, flags, history>>
    BY <1>2 DEF Devices!MoveOrClick
  <2>2. /\ DOMAIN hand' = {"held", "keys", "left", "moves", "both"} /\ hand'.held = hand.held
        /\ hand'.both = hand.both /\ hand'.left = left /\ hand'.moves = hand.moves + 1
    BY <2>1 DEF InputTypeOK
  <2>3. sent \in Seq(PacketBytes)
    <3>1. \A n \in 1 .. 3 : Devices!PacketByte(n, left) \in PacketBytes
      BY <1>2 DEF PacketBytes
    <3>2. QED
      BY <3>1
  <2>4. InputTypeOK'
    BY <1>2, <2>1, <2>2, <2>3 DEF InputTypeOK
  <2>5. QED
    BY <2>1, <2>2, <2>4 DEF KeysOk
<1>3. CASE Devices!KeyboardSends
  BY <1>3, KeyboardSendsStep
<1>4. CASE Devices!MouseSends
  BY <1>4, MouseSendsStep
<1>5. CASE Devices!BeginPoll
  <2>1. /\ poll.at = "idle" /\ poll' = [poll EXCEPT !.at = "mouse"]
        /\ UNCHANGED <<wire, typing, packet, hand, mouse, flags, history>>
    BY <1>5 DEF Devices!BeginPoll
  <2>2. /\ poll' \in [at : {"idle", "mouse", "keyboard"}, extended : BOOLEAN]
        /\ poll'.extended = poll.extended /\ ~poll.extended
    BY <2>1 DEF InputTypeOK, KeysOk
  <2>3. QED
    BY <2>1, <2>2 DEF InputTypeOK, KeysOk
<1>6. CASE Devices!PollMouse
  BY <1>6, PollMouseStep
<1>7. CASE Devices!PollKeyboard
  BY <1>7, PollKeyboardStep
<1>8. CASE Devices!EndPoll
  <2>1. /\ poll' = [at |-> "idle", extended |-> FALSE]
        /\ history' = history \cup (IF poll.extended THEN {"splitPrefix"} ELSE {})
        /\ UNCHANGED <<wire, typing, packet, hand, mouse, flags>>
    BY <1>8 DEF Devices!EndPoll
  <2>2. /\ poll' \in [at : {"idle", "mouse", "keyboard"}, extended : BOOLEAN]
        /\ ~poll'.extended /\ (history' = {} => history = {} /\ ~poll.extended)
    BY <2>1
  <2>3. ~poll.extended /\ PrefixesStand(wire, typing, poll.extended)
          => PrefixesStand(wire, typing, poll'.extended)
    BY <2>2 DEF PrefixesStand, PrefixBefore
  <2>4. QED
    BY <2>1, <2>2, <2>3 DEF InputTypeOK, KeysOk
<1>9. CASE UNCHANGED deviceVars
  BY <1>9 DEF deviceVars, InputTypeOK, KeysOk
<1>10. QED
  BY <1>1, <1>2, <1>3, <1>4, <1>5, <1>6, <1>7, <1>8, <1>9 DEF Devices!InputNext
-----------------------------------------------------------------------------
(* The mouse: which byte may follow a byte, or come first.                 *)
Follows(a, b) == b.nth = (a.nth % 3) + 1 /\ (a.nth # 3 => b.left = a.left)
Begins(m, b) == b.nth = m.index + 1 /\ (m.index # 0 => b.left = m.first)

NoneWithin(w, i, j) == \A k \in i .. j : w[k] \notin PacketBytes
LastOnWire(w, i) == w[i] \in PacketBytes /\ NoneWithin(w, i + 1, Len(w))
Ends(w) == {i \in 1 .. Len(w) : w[i] \in PacketBytes /\ w[i].nth = 3}

(* The bytes on the wire are packets in order, the first of them the rest  *)
(* of the one that the driver has begun.                                   *)
InPackets(w, m) ==
    /\ \A i, j \in 1 .. Len(w) :
          i < j /\ w[i] \in PacketBytes /\ w[j] \in PacketBytes /\ NoneWithin(w, i + 1, j - 1)
              => Follows(w[i], w[j])
    /\ \A j \in 1 .. Len(w) : w[j] \in PacketBytes /\ NoneWithin(w, 1, j - 1) => Begins(m, w[j])

MayCome(w, m, byte) ==
    /\ \A i \in 1 .. Len(w) : LastOnWire(w, i) => Follows(w[i], byte)
    /\ NoneWithin(w, 1, Len(w)) => Begins(m, byte)

Complete(w, m, left) ==
    /\ \A i \in 1 .. Len(w) : LastOnWire(w, i) => w[i].nth = 3 /\ w[i].left = left
    /\ NoneWithin(w, 1, Len(w)) => m.index = 0 /\ m.left = left

(* What the mouse has yet to send is the rest of one packet.               *)
RestOfPacket(t, left) ==
    /\ Len(t) = 4 - t[1].nth
    /\ \A n \in 1 .. Len(t) : t[n] = Devices!PacketByte(t[1].nth + n - 1, left)

MouseOk ==
    /\ DOMAIN mouse = {"initialized", "index", "first", "left", "moves"}
    /\ mouse.initialized \in BOOLEAN
    /\ mouse.initialized =>
        /\ mouse.index \in 0 .. 2 /\ mouse.first \in BOOLEAN /\ mouse.moves \in Nat
        /\ InPackets(wire, mouse)
        /\ packet # <<>> => MayCome(wire, mouse, packet[1]) /\ RestOfPacket(packet, hand.left)
        /\ packet = <<>> => Complete(wire, mouse, hand.left)
        /\ hand.moves = mouse.moves + Cardinality(Ends(wire)) + (IF packet = <<>> THEN 0 ELSE 1)

LEMMA EndsFinite ==
    ASSUME NEW w \in Seq(Bytes)
    PROVE  IsFiniteSet(Ends(w)) /\ Cardinality(Ends(w)) \in Nat
<1>1. Len(w) \in Int /\ 1 \in Int
  OBVIOUS
<1>2. IsFiniteSet(1 .. Len(w))
  BY <1>1, FS_Interval, Zenon
<1>3. Ends(w) \subseteq 1 .. Len(w)
  BY DEF Ends
<1>4. IsFiniteSet(Ends(w))
  BY <1>2, <1>3, FS_Subset, Zenon
<1>5. QED
  BY <1>4, FS_CardinalityType, Zenon

LEMMA EndsAppend ==
    ASSUME NEW w \in Seq(Bytes), NEW byte \in Bytes
    PROVE  Cardinality(Ends(Append(w, byte)))
             = Cardinality(Ends(w)) + (IF byte \in PacketBytes /\ byte.nth = 3 THEN 1 ELSE 0)
<1> DEFINE v == Append(w, byte)
           n == Len(w)
<1>1. n \in Nat /\ Len(v) = n + 1 /\ v[n + 1] = byte /\ \A i \in 1 .. n : v[i] = w[i]
  OBVIOUS
<1>2. IsFiniteSet(Ends(w)) /\ Cardinality(Ends(w)) \in Nat
  BY EndsFinite
<1> HIDE DEF v
<1>3. CASE byte \in PacketBytes /\ byte.nth = 3
  <2>1. Ends(v) = Ends(w) \cup {n + 1} /\ n + 1 \notin Ends(w)
    BY <1>1, <1>3 DEF Ends
  <2>2. Cardinality(Ends(w) \cup {n + 1}) = Cardinality(Ends(w)) + 1
    BY <1>2, <2>1, FS_AddElement, Zenon
  <2>3. QED
    BY <1>3, <2>1, <2>2 DEF v
<1>4. CASE ~(byte \in PacketBytes /\ byte.nth = 3)
  <2>1. Ends(v) = Ends(w)
    BY <1>1, <1>4 DEF Ends
  <2>2. QED
    BY <1>2, <1>4, <2>1 DEF v
<1>5. QED
  BY <1>3, <1>4

LEMMA EndsTail ==
    ASSUME NEW w \in Seq(Bytes), w # <<>>
    PROVE  Cardinality(Ends(w))
             = Cardinality(Ends(Tail(w))) + (IF w[1] \in PacketBytes /\ w[1].nth = 3 THEN 1 ELSE 0)
<1> DEFINE v == Tail(w)
           n == Len(w)
           rest == Ends(w) \ {1}
           f == [i \in Ends(v) |-> i + 1]
<1>1. /\ v \in Seq(Bytes) /\ n \in Nat \ {0} /\ Len(v) = n - 1
      /\ \A i \in 1 .. n - 1 : v[i] = w[i + 1]
  OBVIOUS
<1>2. IsFiniteSet(Ends(v)) /\ Cardinality(Ends(v)) \in Nat
  BY <1>1, EndsFinite
<1> HIDE DEF v
<1>3. f \in Bijection(Ends(v), rest)
  <2>1. ASSUME NEW i \in Ends(v) PROVE i \in Nat /\ i + 1 \in rest
    <3>1. i \in 1 .. n - 1 /\ i + 1 \in 1 .. n /\ v[i] = w[i + 1]
      BY <1>1, <2>1 DEF Ends
    <3>2. QED
      BY <2>1, <3>1 DEF Ends
  <2>2. ASSUME NEW i \in rest PROVE \E j \in Ends(v) : j + 1 = i
    <3> DEFINE h == i - 1
    <3>1. i \in 1 .. n /\ i # 1 /\ w[i] \in PacketBytes /\ w[i].nth = 3
      BY <2>2 DEF Ends
    <3>2. h \in 1 .. n - 1 /\ h + 1 = i
      BY <3>1
    <3> HIDE DEF h
    <3>3. h \in Ends(v)
      BY <1>1, <3>1, <3>2 DEF Ends
    <3>4. QED
      BY <3>2, <3>3
  <2>3. f \in [Ends(v) -> rest] /\ \A i, j \in Ends(v) : f[i] = f[j] => i = j
    BY <2>1
  <2>4. \A i \in rest : \E j \in Ends(v) : f[j] = i
    BY <2>2
  <2> HIDE DEF f, rest
  <2>5. QED
    BY <2>3, <2>4 DEF Bijection, Injection, Surjection, IsInjective
<1>4. IsFiniteSet(rest) /\ Cardinality(rest) = Cardinality(Ends(v))
  <2> HIDE DEF f, rest
  <2>1. ExistsBijection(Ends(v), rest)
    BY <1>3 DEF ExistsBijection
  <2>2. QED
    BY <1>2, <2>1, FS_Bijection
<1>5. CASE w[1] \in PacketBytes /\ w[1].nth = 3
  <2>1. Ends(w) = rest \cup {1} /\ 1 \notin rest
    BY <1>1, <1>5 DEF Ends
  <2> HIDE DEF rest
  <2>2. Cardinality(rest \cup {1}) = Cardinality(rest) + 1
    BY <1>4, <2>1, FS_AddElement, Zenon
  <2>3. QED
    BY <1>4, <1>5, <2>1, <2>2 DEF v
<1>6. CASE ~(w[1] \in PacketBytes /\ w[1].nth = 3)
  <2>1. Ends(w) = rest
    BY <1>6 DEF Ends
  <2> HIDE DEF rest
  <2>2. QED
    BY <1>2, <1>4, <1>6, <2>1 DEF v
<1>7. QED
  BY <1>5, <1>6

LEMMA WireGrows ==
    ASSUME NEW w \in Seq(Bytes), NEW byte \in Bytes, NEW m, InPackets(w, m)
    PROVE  LET v == Append(w, byte)
           IN  /\ byte \notin PacketBytes =>
                      /\ InPackets(v, m)
                      /\ \A x : MayCome(w, m, x) => MayCome(v, m, x)
                      /\ \A left : Complete(w, m, left) => Complete(v, m, left)
               /\ byte \in PacketBytes /\ MayCome(w, m, byte) =>
                      /\ InPackets(v, m)
                      /\ \A x : Follows(byte, x) => MayCome(v, m, x)
                      /\ \A left : byte.nth = 3 /\ byte.left = left => Complete(v, m, left)
<1> DEFINE v == Append(w, byte)
           n == Len(w)
<1>1. n \in Nat /\ Len(v) = n + 1 /\ v[n + 1] = byte /\ \A i \in 1 .. n : v[i] = w[i]
  OBVIOUS
<1> HIDE DEF v, n
<1>2. \A i \in 1 .. n + 1, j \in 0 .. n : NoneWithin(v, i, j) <=> NoneWithin(w, i, j)
  BY SMTT(30), <1>1 DEF NoneWithin
<1>3. \A i \in 1 .. n + 1 : NoneWithin(v, i, n + 1) <=> NoneWithin(w, i, n) /\ byte \notin PacketBytes
  BY <1>1 DEF NoneWithin
<1>4. \A i \in 1 .. n : LastOnWire(v, i) <=> LastOnWire(w, i) /\ byte \notin PacketBytes
  BY <1>1, <1>3 DEF LastOnWire, n
<1>5. LastOnWire(v, n + 1) <=> byte \in PacketBytes
  BY <1>1 DEF LastOnWire, NoneWithin
<1>6. NoneWithin(v, 1, Len(v)) <=> NoneWithin(w, 1, n) /\ byte \notin PacketBytes
  BY <1>1, <1>3
<1>7. ASSUME byte \in PacketBytes => MayCome(w, m, byte)
      PROVE  InPackets(v, m)
  <2>1. ASSUME NEW i \in 1 .. n + 1, NEW j \in 1 .. n + 1, i < j,
               v[i] \in PacketBytes, v[j] \in PacketBytes, NoneWithin(v, i + 1, j - 1)
        PROVE  Follows(v[i], v[j])
    <3>1. i \in 1 .. n /\ v[i] = w[i] /\ NoneWithin(w, i + 1, j - 1)
      <4>1. i \in 1 .. n /\ i + 1 \in 1 .. n + 1 /\ j - 1 \in 0 .. n
        BY <1>1, <2>1
      <4>2. QED
        BY <1>1, <1>2, <2>1, <4>1
    <3>2. CASE j = n + 1
      <4>1. LastOnWire(w, i) /\ v[j] = byte
        BY <1>1, <2>1, <3>1, <3>2 DEF LastOnWire, n
      <4>2. QED
        BY <1>7, <2>1, <3>1, <4>1 DEF MayCome, n
    <3>3. CASE j # n + 1
      <4>1. j \in 1 .. n /\ v[j] = w[j]
        BY <1>1, <2>1, <3>3
      <4>2. QED
        BY <2>1, <3>1, <4>1 DEF InPackets, n
    <3>4. QED
      BY <3>2, <3>3
  <2>2. ASSUME NEW j \in 1 .. n + 1, v[j] \in PacketBytes, NoneWithin(v, 1, j - 1)
        PROVE  Begins(m, v[j])
    <3>1. NoneWithin(w, 1, j - 1)
      <4>1. 1 \in 1 .. n + 1 /\ j - 1 \in 0 .. n
        BY <1>1, <2>2
      <4>2. QED
        BY <1>2, <2>2, <4>1
    <3>2. CASE j = n + 1
      <4>1. NoneWithin(w, 1, n) /\ v[j] = byte
        BY <1>1, <3>1, <3>2
      <4>2. QED
        BY <1>7, <2>2, <4>1 DEF MayCome, n
    <3>3. CASE j # n + 1
      <4>1. j \in 1 .. n /\ v[j] = w[j]
        BY <1>1, <2>2, <3>3
      <4>2. QED
        BY <2>2, <3>1, <4>1 DEF InPackets, n
    <3>4. QED
      BY <3>2, <3>3
  <2>3. QED
    BY <1>1, <2>1, <2>2 DEF InPackets
<1>8. ASSUME byte \notin PacketBytes
      PROVE  /\ \A x : MayCome(w, m, x) => MayCome(v, m, x)
             /\ \A left : Complete(w, m, left) => Complete(v, m, left)
  <2>1. \A i \in 1 .. n + 1 : LastOnWire(v, i) => i \in 1 .. n /\ LastOnWire(w, i) /\ v[i] = w[i]
    BY <1>1, <1>4, <1>5, <1>8
  <2>2. NoneWithin(v, 1, Len(v)) => NoneWithin(w, 1, n)
    BY <1>6
  <2>3. QED
    BY <1>1, <2>1, <2>2 DEF MayCome, Complete, n
<1>9. ASSUME byte \in PacketBytes
      PROVE  /\ \A x : Follows(byte, x) => MayCome(v, m, x)
             /\ \A left : byte.nth = 3 /\ byte.left = left => Complete(v, m, left)
  <2>1. \A i \in 1 .. n + 1 : LastOnWire(v, i) => v[i] = byte
    BY <1>1, <1>4, <1>9
  <2>2. ~NoneWithin(v, 1, Len(v))
    BY <1>6, <1>9
  <2>3. QED
    BY <1>1, <2>1, <2>2 DEF MayCome, Complete
<1>10. QED
  BY <1>7, <1>8, <1>9 DEF v

LEMMA WireTaken ==
    ASSUME NEW w \in Seq(Bytes), w # <<>>, NEW m, NEW then, InPackets(w, m),
           w[1] \notin PacketBytes => then = m,
           w[1] \in PacketBytes => /\ \A x : Follows(w[1], x) => Begins(then, x)
                                   /\ w[1].nth = 3 => then.index = 0 /\ then.left = w[1].left
    PROVE  LET v == Tail(w)
           IN  /\ InPackets(v, then)
               /\ \A x : MayCome(w, m, x) => MayCome(v, then, x)
               /\ \A left : Complete(w, m, left) => Complete(v, then, left)
<1> DEFINE v == Tail(w)
           n == Len(w)
<1>1. n \in Nat \ {0} /\ Len(v) = n - 1 /\ \A i \in 1 .. n - 1 : v[i] = w[i + 1]
  OBVIOUS
<1> HIDE DEF v, n
<1>2. \A i \in 1 .. n, j \in 0 .. n - 1 : NoneWithin(v, i, j) <=> NoneWithin(w, i + 1, j + 1)
  <2> TAKE i \in 1 .. n, j \in 0 .. n - 1
  <2>1. ASSUME NoneWithin(v, i, j), NEW k \in i + 1 .. j + 1 PROVE w[k] \notin PacketBytes
    <3>1. k - 1 \in i .. j /\ k - 1 \in 1 .. n - 1 /\ v[k - 1] = w[k]
      BY <1>1
    <3>2. QED
      BY <2>1, <3>1 DEF NoneWithin
  <2>2. ASSUME NoneWithin(w, i + 1, j + 1), NEW k \in i .. j PROVE v[k] \notin PacketBytes
    <3>1. k + 1 \in i + 1 .. j + 1 /\ v[k] = w[k + 1]
      BY <1>1
    <3>2. QED
      BY <2>2, <3>1 DEF NoneWithin
  <2>3. QED
    BY <2>1, <2>2 DEF NoneWithin
<1>3. \A j \in 0 .. n - 1 : NoneWithin(v, 1, j) <=> NoneWithin(w, 2, j + 1)
  BY <1>1, <1>2
<1>4. \A j \in 0 .. n - 1 : NoneWithin(w, 1, j + 1) <=> w[1] \notin PacketBytes /\ NoneWithin(w, 2, j + 1)
  BY <1>1 DEF NoneWithin
<1>5. \A i \in 1 .. n - 1 : LastOnWire(v, i) <=> LastOnWire(w, i + 1)
  <2> TAKE i \in 1 .. n - 1
  <2>1. i + 1 \in 1 .. n /\ n - 1 \in 0 .. n - 1 /\ v[i] = w[i + 1] /\ (n - 1) + 1 = n
        /\ (i + 1) + 1 = i + 1 + 1
    BY <1>1
  <2>2. NoneWithin(v, i + 1, n - 1) <=> NoneWithin(w, (i + 1) + 1, n)
    BY <1>2, <2>1
  <2>3. QED
    BY <1>1, <2>1, <2>2 DEF LastOnWire, n
<1>6. InPackets(v, then)
  <2>1. ASSUME NEW i \in 1 .. n - 1, NEW j \in 1 .. n - 1, i < j,
               v[i] \in PacketBytes, v[j] \in PacketBytes, NoneWithin(v, i + 1, j - 1)
        PROVE  Follows(v[i], v[j])
    <3> DEFINE k == i + 1
               l == j + 1
    <3>1. /\ k \in 1 .. n /\ l \in 1 .. n /\ k < l
          /\ i + 1 \in 1 .. n /\ j - 1 \in 0 .. n - 1 /\ (i + 1) + 1 = k + 1 /\ (j - 1) + 1 = l - 1
      <4>1. i \in Int /\ j \in Int /\ 1 <= i /\ i < j /\ j <= n - 1
        BY <1>1, <2>1
      <4>2. QED
        BY <1>1, <4>1
    <3>4. v[i] = w[k] /\ v[j] = w[l]
      BY <1>1, <2>1
    <3>2. NoneWithin(w, k + 1, l - 1)
      BY <1>2, <2>1, <3>1
    <3> HIDE DEF k, l
    <3>3. QED
      BY <2>1, <3>1, <3>2, <3>4 DEF InPackets, n
  <2>2. ASSUME NEW j \in 1 .. n - 1, v[j] \in PacketBytes, NoneWithin(v, 1, j - 1)
        PROVE  Begins(then, v[j])
    <3> DEFINE l == j + 1
    <3>1. l \in 1 .. n /\ 1 \in 1 .. n /\ 1 < l /\ v[j] = w[l] /\ j - 1 \in 0 .. n - 1
          /\ (j - 1) + 1 = l - 1
      BY <1>1, <2>2
    <3>2. NoneWithin(w, 1 + 1, l - 1)
      BY <1>3, <2>2, <3>1
    <3>3. CASE w[1] \in PacketBytes
      <4> HIDE DEF l
      <4>1. Follows(w[1], w[l])
        BY <2>2, <3>1, <3>2, <3>3 DEF InPackets, n
      <4>2. QED
        BY <3>1, <3>3, <4>1
    <3>4. CASE w[1] \notin PacketBytes
      <4>1. NoneWithin(w, 1, l - 1)
        BY <1>4, <3>1, <3>2, <3>4
      <4> HIDE DEF l
      <4>2. QED
        BY <2>2, <3>1, <3>4, <4>1 DEF InPackets, n
    <3>5. QED
      BY <3>3, <3>4
  <2>3. QED
    BY <1>1, <2>1, <2>2 DEF InPackets
<1>7. ASSUME NoneWithin(v, 1, n - 1)
      PROVE  /\ w[1] \in PacketBytes => LastOnWire(w, 1)
             /\ w[1] \notin PacketBytes => NoneWithin(w, 1, n)
  <2>1. n - 1 \in 0 .. n - 1 /\ (n - 1) + 1 = n
    BY <1>1
  <2>2. NoneWithin(w, 2, n)
    BY <1>3, <1>7, <2>1
  <2>3. QED
    BY <1>4, <2>1, <2>2 DEF LastOnWire, n
<1>8. \A x : MayCome(w, m, x) => MayCome(v, then, x)
  <2> SUFFICES ASSUME NEW x, MayCome(w, m, x) PROVE MayCome(v, then, x)
    OBVIOUS
  <2>1. ASSUME NEW i \in 1 .. n - 1, LastOnWire(v, i) PROVE Follows(v[i], x)
    <3>1. i + 1 \in 1 .. n /\ v[i] = w[i + 1] /\ LastOnWire(w, i + 1)
      BY <1>1, <1>5, <2>1
    <3>2. QED
      BY <3>1 DEF MayCome, n
  <2>2. ASSUME NoneWithin(v, 1, n - 1) PROVE Begins(then, x)
    <3>1. 1 \in 1 .. n
      BY <1>1
    <3>2. QED
      BY <1>7, <2>2, <3>1 DEF MayCome, n
  <2>3. QED
    BY <1>1, <2>1, <2>2 DEF MayCome
<1>9. \A left : Complete(w, m, left) => Complete(v, then, left)
  <2> SUFFICES ASSUME NEW left, Complete(w, m, left) PROVE Complete(v, then, left)
    OBVIOUS
  <2>1. ASSUME NEW i \in 1 .. n - 1, LastOnWire(v, i) PROVE v[i].nth = 3 /\ v[i].left = left
    <3>1. i + 1 \in 1 .. n /\ v[i] = w[i + 1] /\ LastOnWire(w, i + 1)
      BY <1>1, <1>5, <2>1
    <3>2. QED
      BY <3>1 DEF Complete, n
  <2>2. ASSUME NoneWithin(v, 1, n - 1) PROVE then.index = 0 /\ then.left = left
    <3>1. 1 \in 1 .. n
      BY <1>1
    <3>2. QED
      BY <1>7, <2>2, <3>1 DEF Complete, n
  <2>3. QED
    BY <1>1, <2>1, <2>2 DEF Complete
<1>10. QED
  BY <1>6, <1>8, <1>9 DEF v

LEMMA ByteHandled ==
    ASSUME MouseOk, mouse.initialized, NEW byte \in PacketBytes, Begins(mouse, byte)
    PROVE  LET then == Devices!HandleByte(mouse, byte)
           IN  /\ DOMAIN then = DOMAIN mouse /\ then.initialized = mouse.initialized
               /\ then.index \in 0 .. 2 /\ then.first \in BOOLEAN
               /\ then.moves = mouse.moves + (IF byte.nth = 3 THEN 1 ELSE 0)
               /\ \A x : Follows(byte, x) => Begins(then, x)
               /\ byte.nth = 3 => then.index = 0 /\ then.left = byte.left
<1> DEFINE then == Devices!HandleByte(mouse, byte)
<1>1. byte.nth \in 1 .. 3 /\ byte.left \in BOOLEAN
  BY ByteFacts DEF Bytes
<1>2. /\ mouse.index \in 0 .. 2 /\ mouse.first \in BOOLEAN /\ byte.nth = mouse.index + 1
      /\ mouse.index # 0 => byte.left = mouse.first
      /\ mouse.moves \in Nat /\ DOMAIN mouse = {"initialized", "index", "first", "left", "moves"}
  BY DEF MouseOk, Begins
<1>3. CASE mouse.index < 2
  <2>1. then = [mouse EXCEPT !.index = @ + 1, !.first = IF mouse.index = 0 THEN byte.left ELSE @]
    BY <1>2, <1>3 DEF Devices!HandleByte
  <2>2. /\ DOMAIN then = DOMAIN mouse /\ then.initialized = mouse.initialized
        /\ then.index = mouse.index + 1 /\ then.moves = mouse.moves
        /\ then.first = IF mouse.index = 0 THEN byte.left ELSE mouse.first
    BY <1>2, <2>1
  <2> HIDE DEF then
  <2>3. byte.nth \in {1, 2} /\ (byte.nth % 3) + 1 = byte.nth + 1 /\ then.first = byte.left
    BY <1>1, <1>2, <1>3, <2>2
  <2>4. \A x : Follows(byte, x) => Begins(then, x)
    BY <1>2, <2>2, <2>3 DEF Follows, Begins
  <2>5. QED
    BY <1>1, <1>2, <1>3, <2>2, <2>3, <2>4 DEF then
<1>4. CASE mouse.index = 2
  <2>1. then = [mouse EXCEPT !.index = 0, !.left = mouse.first, !.moves = @ + 1]
    BY <1>2, <1>4 DEF Devices!HandleByte
  <2>2. /\ DOMAIN then = DOMAIN mouse /\ then.initialized = mouse.initialized
        /\ then.index = 0 /\ then.moves = mouse.moves + 1
        /\ then.left = mouse.first /\ then.first = mouse.first
    BY <1>2, <2>1
  <2> HIDE DEF then
  <2>3. byte.nth = 3 /\ (byte.nth % 3) + 1 = 1 /\ then.left = byte.left
    BY <1>1, <1>2, <1>4, <2>2
  <2>4. \A x : Follows(byte, x) => Begins(then, x)
    BY <2>2, <2>3 DEF Follows, Begins
  <2>5. QED
    BY <1>1, <1>2, <1>4, <2>2, <2>3, <2>4 DEF then
<1>5. mouse.index < 2 \/ mouse.index = 2
  BY <1>2
<1> HIDE DEF then
<1>6. QED
  BY <1>3, <1>4, <1>5 DEF then

LEMMA ByteSent ==
    ASSUME InputTypeOK, MouseOk, mouse.initialized, Devices!MouseSends
    PROVE  MouseOk'
<1> DEFINE byte == packet[1]
<1>1. /\ packet # <<>> /\ wire' = Append(wire, byte) /\ packet' = Tail(packet)
      /\ UNCHANGED <<typing, hand, poll, mouse, flags, history>>
  BY DEF Devices!MouseSends
<1>2. /\ wire \in Seq(Bytes) /\ packet \in Seq(PacketBytes) /\ byte \in PacketBytes /\ byte \in Bytes
      /\ Len(packet) \in Nat \ {0} /\ Len(packet') = Len(packet) - 1
      /\ \A n \in 1 .. Len(packet) - 1 : packet'[n] = packet[n + 1]
  BY <1>1 DEF InputTypeOK, Bytes
<1>3. byte.nth \in 1 .. 3 /\ byte.left \in BOOLEAN /\ byte = Devices!PacketByte(byte.nth, byte.left)
  BY <1>2, ByteFacts
<1>4. /\ InPackets(wire, mouse) /\ MayCome(wire, mouse, byte) /\ Len(packet) = 4 - byte.nth
      /\ \A n \in 1 .. Len(packet) : packet[n] = Devices!PacketByte(byte.nth + n - 1, hand.left)
      /\ hand.moves = mouse.moves + Cardinality(Ends(wire)) + 1
  BY <1>1 DEF MouseOk, RestOfPacket
<1> HIDE DEF byte
<1>5. /\ InPackets(wire', mouse)
      /\ \A x : Follows(byte, x) => MayCome(wire', mouse, x)
      /\ \A left : byte.nth = 3 /\ byte.left = left => Complete(wire', mouse, left)
  BY <1>1, <1>2, <1>4, WireGrows
<1>6. byte.left = hand.left
  <2>1. 1 \in 1 .. Len(packet) /\ packet[1] = byte
    BY <1>2 DEF byte
  <2>2. byte = Devices!PacketByte(byte.nth + 1 - 1, hand.left)
    BY <1>4, <2>1
  <2>3. QED
    BY <2>2 DEF Devices!PacketByte
<1>7. Cardinality(Ends(wire')) = Cardinality(Ends(wire)) + (IF byte.nth = 3 THEN 1 ELSE 0)
  BY <1>1, <1>2, EndsAppend
<1>8. Cardinality(Ends(wire)) \in Nat /\ mouse.moves \in Nat
  BY <1>2, EndsFinite DEF MouseOk
<1>9. CASE byte.nth = 3
  <2>1. Len(packet) = 1 /\ packet' = <<>>
    BY <1>1, <1>2, <1>4, <1>9
  <2>2. Complete(wire', mouse, hand.left)
    BY <1>5, <1>6, <1>9
  <2>3. UNCHANGED <<hand, mouse>>
    BY <1>1
  <2>4. hand.moves = mouse.moves + Cardinality(Ends(wire')) + 0
    <3>1. Cardinality(Ends(wire')) = Cardinality(Ends(wire)) + 1
      BY <1>7, <1>9
    <3>2. QED
      BY <1>4, <1>8, <3>1
  <2>5. QED
    BY <1>5, <2>1, <2>2, <2>3, <2>4 DEF MouseOk
<1>10. CASE byte.nth # 3
  <2>1. byte.nth \in {1, 2} /\ Len(packet) >= 2 /\ packet' # <<>>
    <3>1. byte.nth \in {1, 2}
      BY <1>3, <1>10
    <3>2. Len(packet) \in {2, 3}
      BY <1>4, <3>1
    <3>3. Len(packet') = Len(packet) - 1
      BY <1>2
    <3>4. Len(packet') \in {1, 2} /\ Len(packet) >= 2
      BY <3>2, <3>3
    <3>5. packet' # <<>>
      BY <3>4
    <3>6. QED
      BY <3>1, <3>4, <3>5
  <2>2. packet'[1] = Devices!PacketByte(byte.nth + 1, hand.left)
    BY <1>2, <1>4, <2>1
  <2>3. packet'[1].nth = byte.nth + 1 /\ packet'[1].left = hand.left
    BY <2>2 DEF Devices!PacketByte
  <2>4. Follows(byte, packet'[1])
    BY <1>6, <2>1, <2>3 DEF Follows
  <2>5. MayCome(wire', mouse, packet'[1])
    BY <1>5, <2>4
  <2>6. RestOfPacket(packet', hand.left)
    <3>1. Len(packet') = 4 - packet'[1].nth
      BY <1>2, <1>4, <2>1, <2>3
    <3>2. ASSUME NEW n \in 1 .. Len(packet')
          PROVE  packet'[n] = Devices!PacketByte(packet'[1].nth + n - 1, hand.left)
      <4>1. n + 1 \in 1 .. Len(packet) /\ packet'[n] = packet[n + 1]
        BY <1>2, <3>2
      <4>2. byte.nth + (n + 1) - 1 = packet'[1].nth + n - 1
        BY <2>1, <2>3, <3>2
      <4>3. QED
        BY <1>4, <4>1, <4>2
    <3>3. QED
      BY <3>1, <3>2 DEF RestOfPacket
  <2>7. UNCHANGED <<hand, mouse>>
    BY <1>1
  <2>8. hand.moves = mouse.moves + Cardinality(Ends(wire')) + 1
    <3>1. Cardinality(Ends(wire')) = Cardinality(Ends(wire))
      BY <1>7, <1>8, <1>10
    <3>2. QED
      BY <1>4, <3>1
  <2>9. QED
    BY <1>5, <2>1, <2>5, <2>6, <2>7, <2>8 DEF MouseOk
<1>11. QED
  BY <1>9, <1>10

LEMMA PacketBegun ==
    ASSUME InputTypeOK, MouseOk, mouse.initialized, NEW left \in BOOLEAN, Devices!MoveOrClick(left)
    PROVE  MouseOk'
<1>1. /\ packet = <<>> /\ hand' = [hand EXCEPT !.left = left, !.moves = @ + 1]
      /\ packet' = [n \in 1 .. 3 |-> Devices!PacketByte(n, left)]
      /\ UNCHANGED <<wire, typing, poll, mouse, flags, history>>
  BY DEF Devices!MoveOrClick
<1>2. hand'.left = left /\ hand'.moves = hand.moves + 1
  BY <1>1 DEF InputTypeOK
<1>3. /\ packet' # <<>> /\ Len(packet') = 3 /\ packet'[1] = Devices!PacketByte(1, left)
      /\ \A n \in 1 .. 3 : packet'[n] = Devices!PacketByte(n, left)
  BY <1>1
<1>4. packet'[1].nth = 1
  BY <1>3 DEF Devices!PacketByte
<1>5. /\ InPackets(wire, mouse) /\ Complete(wire, mouse, hand.left)
      /\ hand.moves = mouse.moves + Cardinality(Ends(wire)) + 0
  BY <1>1 DEF MouseOk
<1>6. MayCome(wire, mouse, packet'[1])
  <2>1. \A a : a.nth = 3 => Follows(a, packet'[1])
    BY <1>4 DEF Follows
  <2>2. mouse.index = 0 => Begins(mouse, packet'[1])
    BY <1>4 DEF Begins
  <2>3. QED
    BY <1>5, <2>1, <2>2 DEF MayCome, Complete
<1>7. RestOfPacket(packet', left)
  <2>1. \A n \in 1 .. 3 : 1 + n - 1 = n
    OBVIOUS
  <2>2. QED
    BY <1>3, <1>4, <2>1 DEF RestOfPacket
<1>8. Cardinality(Ends(wire)) \in Nat /\ mouse.moves \in Nat
  BY EndsFinite DEF MouseOk, InputTypeOK
<1>9. hand'.moves = mouse.moves + Cardinality(Ends(wire)) + 1
  BY <1>2, <1>5, <1>8
<1>10. QED
  BY <1>1, <1>2, <1>3, <1>5, <1>6, <1>7, <1>9 DEF MouseOk

LEMMA ByteTaken ==
    ASSUME InputTypeOK, MouseOk, mouse.initialized, wire # <<>>, wire' = Tail(wire),
           UNCHANGED <<packet, hand>>,
           wire[1] \in PacketBytes => mouse' = Devices!HandleByte(mouse, wire[1]),
           wire[1] \notin PacketBytes => mouse' = mouse
    PROVE  MouseOk'
<1>1. /\ wire \in Seq(Bytes) /\ InPackets(wire, mouse)
      /\ packet # <<>> => MayCome(wire, mouse, packet[1]) /\ RestOfPacket(packet, hand.left)
      /\ packet = <<>> => Complete(wire, mouse, hand.left)
      /\ hand.moves = mouse.moves + Cardinality(Ends(wire)) + (IF packet = <<>> THEN 0 ELSE 1)
      /\ mouse.moves \in Nat
  BY DEF InputTypeOK, MouseOk
<1>2. wire[1] \in PacketBytes => Begins(mouse, wire[1])
  <2>1. 1 \in 1 .. Len(wire)
    BY <1>1
  <2>2. NoneWithin(wire, 1, 1 - 1)
    BY DEF NoneWithin
  <2>3. QED
    BY <1>1, <2>1, <2>2 DEF InPackets
<1>3. /\ DOMAIN mouse' = {"initialized", "index", "first", "left", "moves"}
      /\ mouse'.initialized = mouse.initialized /\ mouse'.index \in 0 .. 2 /\ mouse'.first \in BOOLEAN
      /\ mouse'.moves = mouse.moves + (IF wire[1] \in PacketBytes /\ wire[1].nth = 3 THEN 1 ELSE 0)
      /\ wire[1] \in PacketBytes => /\ \A x : Follows(wire[1], x) => Begins(mouse', x)
                                    /\ wire[1].nth = 3 => mouse'.index = 0 /\ mouse'.left = wire[1].left
  <2>1. CASE wire[1] \in PacketBytes
    <3>1. DOMAIN mouse = {"initialized", "index", "first", "left", "moves"}
      BY DEF MouseOk
    <3>2. QED
      BY <1>2, <2>1, <3>1, ByteHandled
  <2>2. CASE wire[1] \notin PacketBytes
    <3>1. /\ DOMAIN mouse = {"initialized", "index", "first", "left", "moves"}
          /\ mouse.index \in 0 .. 2 /\ mouse.first \in BOOLEAN
      BY DEF MouseOk
    <3>2. mouse' = mouse
      BY <2>2
    <3>3. mouse'.moves = mouse.moves + 0
      BY <1>1, <3>2
    <3>4. mouse'.initialized = mouse.initialized
      BY <3>2
    <3>5. QED
      BY <2>2, <3>1, <3>2, <3>3, <3>4
  <2>3. QED
    BY <2>1, <2>2
<1>4. /\ InPackets(wire', mouse')
      /\ packet # <<>> => MayCome(wire', mouse', packet[1])
      /\ packet = <<>> => Complete(wire', mouse', hand.left)
  BY <1>1, <1>3, WireTaken
<1>5. /\ Cardinality(Ends(wire)) = Cardinality(Ends(wire'))
                + (IF wire[1] \in PacketBytes /\ wire[1].nth = 3 THEN 1 ELSE 0)
      /\ Cardinality(Ends(wire')) \in Nat
  <2>1. wire' \in Seq(Bytes)
    BY <1>1
  <2>2. QED
    BY <1>1, <2>1, EndsTail, EndsFinite
<1>6. mouse'.moves \in Nat
      /\ hand.moves = mouse'.moves + Cardinality(Ends(wire')) + (IF packet = <<>> THEN 0 ELSE 1)
  <2> DEFINE d == IF wire[1] \in PacketBytes /\ wire[1].nth = 3 THEN 1 ELSE 0
             e == IF packet = <<>> THEN 0 ELSE 1
             c == Cardinality(Ends(wire))
             k == Cardinality(Ends(wire'))
             a == mouse.moves
             b == mouse'.moves
             h == hand.moves
  <2>1. d \in Nat /\ e \in Nat
    OBVIOUS
  <2>2. b = a + d /\ c = k + d /\ h = a + c + e /\ a \in Nat /\ k \in Nat
    BY <1>1, <1>3, <1>5
  <2>3. c \in Nat
    BY <1>1, EndsFinite
  <2> HIDE DEF d, e, c, k, a, b, h
  <2>4. b \in Nat /\ h = b + k + e
    BY <2>1, <2>2, <2>3
  <2>5. QED
    BY <2>4 DEF k, e, b, h
<1>7. QED
  BY <1>1, <1>3, <1>4, <1>6 DEF MouseOk

LEMMA MouseStep ==
    ASSUME InputTypeOK, MouseOk, [Devices!InputNext]_deviceVars
    PROVE  MouseOk'
<1>1. DOMAIN mouse = {"initialized", "index", "first", "left", "moves"} /\ mouse.initialized \in BOOLEAN
  BY DEF MouseOk
<1>2. CASE ~mouse.initialized
  <2>1. mouse' = mouse
    BY <1>2 DEF Devices!InputNext, Devices!PressOrRelease, Devices!MoveOrClick, Devices!KeyboardSends,
                Devices!MouseSends, Devices!BeginPoll, Devices!PollMouse, Devices!PollKeyboard,
                Devices!EndPoll, Devices!HandleByte, deviceVars
  <2>2. QED
    BY <1>1, <1>2, <2>1 DEF MouseOk
<1>3. ASSUME mouse.initialized, NEW left \in BOOLEAN, Devices!MoveOrClick(left) PROVE MouseOk'
  BY <1>3, PacketBegun
<1>4. CASE mouse.initialized /\ Devices!MouseSends
  BY <1>4, ByteSent
<1>5. CASE mouse.initialized /\ Devices!KeyboardSends
  <2> DEFINE byte == typing[1]
  <2>1. /\ typing # <<>> /\ wire' = Append(wire, byte)
        /\ UNCHANGED <<packet, hand, poll, mouse, flags, history>>
    BY <1>5 DEF Devices!KeyboardSends
  <2>2. byte \in Bytes /\ byte \notin PacketBytes
    <3>1. byte = Devices!Prefix \/ byte \in Scans
      BY <2>1 DEF InputTypeOK
    <3>2. byte \in Bytes /\ byte.from = "keyboard"
      BY <3>1, ByteFacts DEF Bytes
    <3>3. QED
      BY <3>2, ByteFacts
  <2> HIDE DEF byte
  <2>3. wire \in Seq(Bytes) /\ InPackets(wire, mouse)
    BY <1>5 DEF InputTypeOK, MouseOk
  <2>4. /\ InPackets(wire', mouse)
        /\ \A x : MayCome(wire, mouse, x) => MayCome(wire', mouse, x)
        /\ \A left : Complete(wire, mouse, left) => Complete(wire', mouse, left)
    BY <2>1, <2>2, <2>3, WireGrows
  <2>5. Cardinality(Ends(wire')) = Cardinality(Ends(wire)) + 0 /\ Cardinality(Ends(wire)) \in Nat
    BY <2>1, <2>2, <2>3, EndsAppend, EndsFinite
  <2>6. QED
    BY <2>1, <2>4, <2>5 DEF MouseOk
<1>6. CASE mouse.initialized /\ Devices!PollMouse
  <2>1. CASE Devices!FromMouse
    <3>1. /\ wire # <<>> /\ wire[1].from = "mouse" /\ wire' = Tail(wire) /\ UNCHANGED <<packet, hand>>
          /\ mouse' = Devices!HandleByte(mouse, wire[1])
      BY <1>6, <2>1 DEF Devices!PollMouse, Devices!FromMouse
    <3>2. wire[1] \in Bytes
      BY <3>1 DEF InputTypeOK
    <3>3. wire[1] \in PacketBytes
      BY <3>1, <3>2, ByteFacts
    <3>4. QED
      BY <1>6, <3>1, <3>3, ByteTaken
  <2>2. CASE ~Devices!FromMouse
    BY <1>6, <2>2 DEF Devices!PollMouse, MouseOk
  <2>3. QED
    BY <2>1, <2>2
<1>7. CASE mouse.initialized /\ Devices!PollKeyboard
  <2>1. /\ wire # <<>> /\ wire[1].from = "keyboard" /\ wire' = Tail(wire)
        /\ UNCHANGED <<packet, hand, mouse>>
    BY <1>7 DEF Devices!PollKeyboard, Devices!FromKeyboard
  <2>2. wire[1] \in Bytes
    BY <2>1 DEF InputTypeOK
  <2>3. wire[1] \notin PacketBytes
    BY <2>1, <2>2, ByteFacts
  <2>4. QED
    BY <1>7, <2>1, <2>3, ByteTaken
<1>8. CASE mouse.initialized /\ \E key \in Devices!Key : Devices!PressOrRelease(key)
  <2>1. UNCHANGED <<wire, packet, mouse>> /\ hand'.left = hand.left /\ hand'.moves = hand.moves
    BY <1>8 DEF Devices!PressOrRelease, InputTypeOK
  <2>2. QED
    BY <2>1 DEF MouseOk
<1>9. CASE mouse.initialized /\ (Devices!BeginPoll \/ Devices!EndPoll \/ UNCHANGED deviceVars)
  <2>1. UNCHANGED <<wire, packet, mouse, hand>>
    BY <1>9 DEF Devices!BeginPoll, Devices!EndPoll, deviceVars
  <2>2. QED
    BY <2>1 DEF MouseOk
<1>10. QED
  BY <1>1, <1>2, <1>3, <1>4, <1>5, <1>6, <1>7, <1>8, <1>9 DEF Devices!InputNext

LEMMA InputBegins ==
    ASSUME Init
    PROVE  InputTypeOK /\ KeysOk /\ MouseOk
<1>1. /\ wire = <<>> /\ typing = <<>> /\ packet = <<>>
      /\ hand = [held |-> {}, keys |-> 0, left |-> FALSE, moves |-> 0, both |-> FALSE]
      /\ poll = [at |-> "idle", extended |-> FALSE]
      /\ \E answered \in BOOLEAN :
            mouse = [initialized |-> answered, index |-> 0, first |-> FALSE, left |-> FALSE, moves |-> 0]
      /\ flags = [down |-> {}, hotkey |-> FALSE] /\ history = {}
  BY DEF Init, Devices!InputInit
<1>2. InputTypeOK
  BY <1>1 DEF InputTypeOK
<1>3. KeysOk
  <2>1. \A i, flag : i \in 0 .. Len(wire) => ~DownAfter(wire, flags.down, i, flag)
    BY <1>1 DEF DownAfter
  <2>2. OneOfAKind(hand.held) /\ ~Devices!BothHeld(hand.held)
    BY <1>1 DEF OneOfAKind, Devices!BothHeld
  <2>3. Agrees(wire, flags.down, typing, hand.held)
    BY <1>1, <2>1 DEF Agrees, DownLast
  <2>4. QED
    BY <1>1, <2>1, <2>2, <2>3 DEF KeysOk, NeverBoth, PrefixesStand
<1>4. MouseOk
  <2>1. Ends(wire) = {}
    BY <1>1 DEF Ends
  <2>2. Cardinality(Ends(wire)) = 0
    BY <2>1, FS_EmptySet
  <2>3. InPackets(wire, mouse) /\ Complete(wire, mouse, hand.left)
    BY <1>1 DEF InPackets, Complete
  <2>4. /\ DOMAIN mouse = {"initialized", "index", "first", "left", "moves"}
        /\ mouse.initialized \in BOOLEAN /\ mouse.index = 0 /\ mouse.first = FALSE /\ mouse.moves = 0
        /\ hand.moves = 0
    BY <1>1
  <2>5. mouse.moves \in Nat /\ mouse.index \in 0 .. 2
        /\ hand.moves = mouse.moves + Cardinality(Ends(wire)) + 0
    BY <2>2, <2>4
  <2>6. mouse.first \in BOOLEAN
    BY Zenon, <2>4
  <2>7. packet = <<>>
    BY <1>1
  <2>8. QED
    BY <2>3, <2>4, <2>5, <2>6, <2>7 DEF MouseOk
<1>5. QED
  BY <1>2, <1>3, <1>4

(* Once nothing waits, modifiers and mouse follow the user, in whatever    *)
(* order the bytes of the two devices came and were taken; the crash       *)
(* hotkey fires only with ctrl and shift held together (poll_input,        *)
(* mouse_handle_byte).                                                     *)
THEOREM InputDoesFollow == Spec => []InputFollowsHand
<1>1. Init => InputTypeOK /\ KeysOk /\ MouseOk
  BY InputBegins
<1>2. InputTypeOK /\ KeysOk /\ MouseOk /\ [Next]_partsVars => (InputTypeOK /\ KeysOk /\ MouseOk)'
  BY PartsMove, KeysStep, MouseStep
<1>3. ASSUME InputTypeOK, KeysOk, MouseOk PROVE InputFollowsHand
  <2>1. ASSUME Devices!Quiet, history = {}
        PROVE  flags.down = {Devices!FlagOf(key) : key \in hand.held}
    <3>1. wire = <<>> /\ typing = <<>>
      BY <2>1 DEF Devices!Quiet
    <3>2. \A flag \in Devices!Flag :
             flag \in flags.down <=> flag \in {Devices!FlagOf(key) : key \in hand.held}
      <4>1. Len(wire) = 0
        BY <3>1
      <4>2. QED
        BY <1>3, <2>1, <3>1, <4>1, DownAtStart DEF KeysOk, Agrees, DownLast
    <3>3. flags.down \subseteq Devices!Flag /\ \A key \in hand.held : Devices!FlagOf(key) \in Devices!Flag
      BY <1>3, FlagFacts DEF InputTypeOK
    <3>4. QED
      BY <3>2, <3>3
  <2>2. ASSUME Devices!Quiet, mouse.initialized
        PROVE  mouse.left = hand.left /\ mouse.moves = hand.moves
    <3>1. wire = <<>> /\ packet = <<>>
      BY <2>2 DEF Devices!Quiet
    <3>2. Complete(wire, mouse, hand.left) /\ hand.moves = mouse.moves + Cardinality(Ends(wire)) + 0
          /\ mouse.moves \in Nat
      BY <1>3, <2>2, <3>1 DEF MouseOk
    <3>3. Ends(wire) = {} /\ NoneWithin(wire, 1, Len(wire))
      BY <3>1 DEF Ends, NoneWithin
    <3>4. Cardinality(Ends(wire)) = 0
      BY <3>3, FS_EmptySet
    <3>5. QED
      BY <3>2, <3>3, <3>4 DEF Complete
  <2>3. history = {} /\ flags.hotkey => hand.both
    BY <1>3 DEF KeysOk
  <2>4. QED
    BY <2>1, <2>2, <2>3 DEF InputFollowsHand, Devices!InputFollowsHand
<1>4. InputTypeOK /\ KeysOk /\ MouseOk => InputFollowsHand
  BY <1>3
<1>5. QED
  BY <1>1, <1>2, <1>4, PTL DEF Spec
-----------------------------------------------------------------------------
(* Boot: rounding up to blocks loses nothing.                              *)
LEMMA AlignedUp ==
    ASSUME NEW n \in Nat
    PROVE  Start!ALIGN_UP(n) \in Nat /\ n <= Start!ALIGN_UP(n)
<1> DEFINE q == (n + Block - 1) \div Block
           r == (n + Block - 1) % Block
<1>1. Block \in Nat /\ Block > 0
  BY ArchiveAssumption DEF ArchiveAssumption
<1>2. q \in Nat /\ r \in 0 .. Block - 1 /\ n + Block - 1 = Block * q + r
  BY <1>1
<1>3. q * Block \in Nat /\ q * Block = Block * q
  BY <1>1, <1>2
<1>4. Start!ALIGN_UP(n) = q * Block
  BY DEF Start!ALIGN_UP
<1> HIDE DEF q, r
<1>5. QED
  BY <1>1, <1>2, <1>3, <1>4

(* Files of an archive, as Start!Archives has them.                        *)
PackedFiles == Seq([name : STRING, size : Nat])

LEMMA SizeOfPacked ==
    ASSUME NEW files \in PackedFiles, NEW k \in 1 .. Len(files)
    PROVE  files[k].size \in Nat /\ files[k].name \in STRING
<1>1. files[k] \in [name : STRING, size : Nat]
  BY ElementOfSeq DEF PackedFiles
<1>2. QED
  BY <1>1

(* There is a place for each of the first files, one behind the other.     *)
PlacesUpTo(files, n, g) ==
    /\ g \in [1 .. n -> Nat]
    /\ n >= 1 => g[1] = 0
    /\ \A k \in 1 .. n - 1 : g[k + 1] = g[k] + Block + Start!ALIGN_UP(files[k].size)

LEMMA PlacesExist ==
    ASSUME NEW files \in PackedFiles, NEW n \in 1 .. Len(files) + 1
    PROVE  \E g : PlacesUpTo(files, n, g)
<1> DEFINE Bad == {m \in Nat : m \in 1 .. Len(files) + 1 /\ ~\E g : PlacesUpTo(files, m, g)}
<1>1. Block \in Nat /\ Len(files) \in Nat
  BY ArchiveAssumption DEF ArchiveAssumption, PackedFiles
<1> SUFFICES ASSUME Bad # {} PROVE FALSE
  BY <1>1
<1>2. PICK m \in Bad : \A l \in Bad : m <= l
  <2>1. Bad \subseteq Nat
    OBVIOUS
  <2>2. QED
    BY <2>1, LeastOfNaturals
<1>3. CASE m = 1
  <2>1. PlacesUpTo(files, 1, [k \in 1 .. 1 |-> 0])
    BY DEF PlacesUpTo
  <2>2. QED
    BY <1>2, <1>3, <2>1
<1>4. CASE m # 1
  <2>1. m - 1 \in 1 .. Len(files) + 1 /\ m - 1 \notin Bad /\ m \in Nat
    BY <1>1, <1>2, <1>4
  <2>2. PICK g : PlacesUpTo(files, m - 1, g)
    BY <2>1
  <2> DEFINE h == [k \in 1 .. m |-> IF k = m THEN g[m - 1] + Block + Start!ALIGN_UP(files[m - 1].size) ELSE g[k]]
  <2>3. m - 1 \in 1 .. Len(files)
    BY <1>1, <1>2, <1>4, <2>1
  <2>4. Start!ALIGN_UP(files[m - 1].size) \in Nat
    BY <2>3, SizeOfPacked, AlignedUp
  <2>5. h \in [1 .. m -> Nat]
    <3>1. \A k \in 1 .. m - 1 : g[k] \in Nat
      BY <2>2 DEF PlacesUpTo
    <3>2. m - 1 \in 1 .. m - 1 /\ Block \in Nat
      BY <1>1, <2>1
    <3>3. g[m - 1] + Block + Start!ALIGN_UP(files[m - 1].size) \in Nat
      BY <2>4, <3>1, <3>2
    <3>4. \A k \in 1 .. m : k = m \/ k \in 1 .. m - 1
      BY <2>1
    <3>5. QED
      BY <3>1, <3>3, <3>4
  <2>6. h[1] = 0
    BY <1>1, <1>4, <2>1, <2>2 DEF PlacesUpTo
  <2>7. ASSUME NEW k \in 1 .. m - 1 PROVE h[k + 1] = h[k] + Block + Start!ALIGN_UP(files[k].size)
    <3>1. CASE k = m - 1
      BY <2>1, <3>1
    <3>2. CASE k # m - 1
      BY <2>1, <2>2, <3>2 DEF PlacesUpTo
    <3>3. QED
      BY <3>1, <3>2
  <2>8. PlacesUpTo(files, m, h)
    <3> HIDE DEF h
    <3>1. QED
      BY <2>5, <2>6, <2>7 DEF PlacesUpTo
  <2>9. QED
    BY <1>2, <2>8
<1>5. QED
  BY <1>3, <1>4

LEMMA PlacedIs ==
    ASSUME NEW files \in PackedFiles
    PROVE  /\ Start!Placed(files)[1] = 0
           /\ \A k \in 1 .. Len(files) :
                Start!Placed(files)[k + 1] = Start!Placed(files)[k] + Block + Start!ALIGN_UP(files[k].size)
<1> DEFINE N == 1 .. Len(files) + 1
           Recursion(p) == p = [k \in N |-> IF k = 1 THEN 0
                                  ELSE p[k - 1] + Block + Start!ALIGN_UP(files[k - 1].size)]
<1>1. Len(files) \in Nat /\ Block \in Nat
  BY ArchiveAssumption DEF ArchiveAssumption, PackedFiles
<1>2. PICK g : PlacesUpTo(files, Len(files) + 1, g)
  BY <1>1, PlacesExist
<1>3. Recursion(g)
  <2>1. ASSUME NEW k \in N, k # 1
        PROVE  g[k] = g[k - 1] + Block + Start!ALIGN_UP(files[k - 1].size)
    <3>1. k - 1 \in 1 .. Len(files)
      BY <1>1, <2>1
    <3>2. k - 1 + 1 = k
      BY <1>1
    <3>3. QED
      BY <1>1, <1>2, <3>1, <3>2 DEF PlacesUpTo
  <2>2. g = [k \in N |-> g[k]] /\ g[1] = 0
    BY <1>1, <1>2 DEF PlacesUpTo
  <2>3. QED
    BY <2>1, <2>2
<1>4. Start!Placed(files) = CHOOSE p : Recursion(p)
  BY DEF Start!Placed
<1>5. Recursion(Start!Placed(files))
  <2> HIDE DEF Recursion
  <2>1. QED
    BY <1>3, <1>4
<1> DEFINE P == Start!Placed(files)
<1>6. P = [k \in N |-> IF k = 1 THEN 0 ELSE P[k - 1] + Block + Start!ALIGN_UP(files[k - 1].size)]
  BY <1>5
<1> HIDE DEF P
<1>7. 1 \in N /\ P[1] = 0
  BY <1>1, <1>6
<1>8. \A k \in 1 .. Len(files) : P[k + 1] = P[k] + Block + Start!ALIGN_UP(files[k].size)
  BY <1>1, <1>6
<1>9. QED
  BY <1>7, <1>8 DEF P

(* The headers do not lie over each other, nor over the data before them.  *)
LEMMA PlacedApart ==
    ASSUME NEW files \in PackedFiles
    PROVE  /\ \A k \in 1 .. Len(files) + 1 : Start!Placed(files)[k] \in Nat
           /\ \A j, k \in 1 .. Len(files) + 1 : j < k =>
                 Start!Placed(files)[j] < Start!Placed(files)[k]
<1> DEFINE P == Start!Placed(files)
           n == Len(files)
           Filled(k) == Start!ALIGN_UP(files[k].size)
<1>1. n \in Nat /\ Block \in Nat /\ Block > 0
  BY ArchiveAssumption DEF ArchiveAssumption, PackedFiles
<1>2. \A k \in 1 .. n : Filled(k) \in Nat
  BY SizeOfPacked, AlignedUp
<1>3. P[1] = 0 /\ \A k \in 1 .. n : P[k + 1] = P[k] + Block + Filled(k)
  BY PlacedIs
<1> HIDE DEF P, n, Filled
<1>4. \A k \in 1 .. n + 1 : P[k] \in Nat
  <2> DEFINE Bad == {k \in 1 .. n + 1 : P[k] \notin Nat}
  <2> SUFFICES ASSUME Bad # {} PROVE FALSE
    OBVIOUS
  <2>1. PICK m \in Bad : \A l \in Bad : m <= l
    <3>1. Bad \subseteq Nat
      BY <1>1
    <3>2. QED
      BY <3>1, LeastOfNaturals
  <2>2. CASE m = 1
    BY <1>3, <2>1, <2>2
  <2>3. CASE m # 1
    <3>1. m - 1 \in 1 .. n /\ m - 1 \notin Bad /\ (m - 1) + 1 = m
      BY <1>1, <2>1, <2>3
    <3>2. P[m - 1] \in Nat /\ P[m] = P[m - 1] + Block + Filled(m - 1)
      BY <1>1, <1>3, <3>1
    <3>3. QED
      BY <1>1, <1>2, <2>1, <3>1, <3>2
  <2>4. QED
    BY <2>2, <2>3
<1>5. ASSUME NEW j \in 1 .. n + 1
      PROVE  \A k \in j + 1 .. n + 1 : P[j] < P[k]
  <2> DEFINE Bad == {k \in j + 1 .. n + 1 : ~(P[j] < P[k])}
  <2> SUFFICES ASSUME Bad # {} PROVE FALSE
    OBVIOUS
  <2>1. PICK m \in Bad : \A l \in Bad : m <= l
    <3>1. Bad \subseteq Nat
      BY <1>1
    <3>2. QED
      BY <3>1, LeastOfNaturals
  <2>2. m - 1 \in 1 .. n /\ (m - 1) + 1 = m /\ m - 1 \notin Bad
    BY <1>1, <2>1
  <2>3. P[m] = P[m - 1] + Block + Filled(m - 1) /\ P[m - 1] \in Nat /\ P[j] \in Nat
    BY <1>1, <1>3, <1>4, <2>2
  <2>4. P[j] <= P[m - 1]
    BY <1>1, <2>1, <2>2, <2>3
  <2>5. QED
    BY <1>1, <1>2, <2>1, <2>2, <2>3, <2>4
<1>6. QED
  BY <1>1, <1>4, <1>5 DEF P, n

-----------------------------------------------------------------------------
(* What the archive a holds whole of the files with one of these names,    *)
(* and the cursor of a walk at the header of the j-th file or at its end.  *)
HeldIn(a, names) ==
    {k \in DOMAIN a.files :
        /\ a.files[k].name \in names
        /\ Start!Placed(a.files)[k] + Block + a.files[k].size <= a.length}

IsAt(b, j) ==
    /\ j \in 1 .. Len(b.info.initrd.files) + 1
    /\ b.cursor = Start!Placed(b.info.initrd.files)[j]

(* No such file lies before the cursor.                                    *)
PassedBy(b, names) == \E j \in Nat : IsAt(b, j) /\ \A k \in HeldIn(b.info.initrd, names) : j <= k

FirstIn(a, k, names) ==
    IF HeldIn(a, names) = {} THEN k = 0
    ELSE k \in HeldIn(a, names) /\ \A other \in HeldIn(a, names) : k <= other

LEMMA Turn ==
    ASSUME boot.info.initrd \in Start!Archives, NEW j \in Nat, IsAt(boot, j)
    PROVE  /\ Start!Goes => /\ j \in DOMAIN boot.info.initrd.files /\ Start!FileHere = j
                            /\ Start!Placed(boot.info.initrd.files)[j + 1] = Start!Further(j)
           /\ ~Start!Goes => \A names : \A k \in HeldIn(boot.info.initrd, names) : k < j
           /\ j \in DOMAIN boot.info.initrd.files => \A names :
                j \in HeldIn(boot.info.initrd, names) <=>
                    boot.info.initrd.files[j].name \in names /\ Start!Whole(j)
<1> DEFINE files == boot.info.initrd.files
           P == Start!Placed(files)
           n == Len(files)
           length == boot.info.initrd.length
<1>1. files \in PackedFiles /\ length \in Nat /\ n \in Nat /\ DOMAIN files = 1 .. n
  BY DEF Start!Archives, PackedFiles
<1>2. Block \in Nat /\ Block > 0
  BY ArchiveAssumption DEF ArchiveAssumption
<1>3. j \in 1 .. n + 1 /\ boot.cursor = P[j]
  BY DEF IsAt
<1>4. \A k \in 1 .. n + 1 : P[k] \in Nat
  BY <1>1, PlacedApart
<1>5. \A i, k \in 1 .. n + 1 : i < k => P[i] < P[k]
  BY <1>1, PlacedApart
<1>6. \A k \in 1 .. n : P[k + 1] = P[k] + Block + Start!ALIGN_UP(files[k].size)
  BY <1>1, PlacedIs
<1>7. \A k \in 1 .. n : files[k].size \in Nat
  BY <1>1, SizeOfPacked
<1>8. \A k \in DOMAIN files : P[k] = boot.cursor <=> k = j
  <2> SUFFICES ASSUME NEW k \in 1 .. n, k # j PROVE P[k] # P[j]
    BY <1>1, <1>3
  <2>1. k \in 1 .. n + 1 /\ P[k] \in Nat /\ P[j] \in Nat
    BY <1>1, <1>3, <1>4
  <2>2. k < j \/ j < k
    BY <1>1, <1>3
  <2>3. QED
    BY <1>3, <1>5, <2>1, <2>2
<1>9. Start!FileHere = IF j \in DOMAIN files THEN j ELSE 0
  <2> DEFINE here == {k \in DOMAIN files : P[k] = boot.cursor}
  <2>1. here = IF j \in DOMAIN files THEN {j} ELSE {}
    BY <1>8
  <2>2. Start!FileHere = IF here = {} THEN 0 ELSE CHOOSE k \in here : TRUE
    BY DEF Start!FileHere, Start!Booted, Start!Nowhere
  <2> HIDE DEF here
  <2>3. QED
    BY <2>1, <2>2
<1>10. Start!Goes <=> P[j] + Block <= length /\ j \in DOMAIN files
  <2>1. Start!InReach <=> P[j] + Block <= length
    BY <1>3 DEF Start!InReach, Start!Booted
  <2>2. Start!FileHere # 0 <=> j \in DOMAIN files
    BY <1>1, <1>3, <1>9
  <2>3. QED
    BY <2>1, <2>2 DEF Start!Goes, Start!Nowhere
<1>11. ASSUME Start!Goes
       PROVE  j \in DOMAIN files /\ Start!FileHere = j /\ P[j + 1] = Start!Further(j)
  <2>1. Start!Further(j) = P[j] + Block + Start!ALIGN_UP(files[j].size)
    BY <1>3 DEF Start!Further, Start!Booted
  <2>2. QED
    BY <1>1, <1>6, <1>9, <1>10, <1>11, <2>1
<1>12. ASSUME ~Start!Goes, NEW names, NEW k \in HeldIn(boot.info.initrd, names)
       PROVE  k < j
  <2>1. k \in 1 .. n /\ P[k] + Block + files[k].size <= length
    BY <1>1 DEF HeldIn
  <2>2. SUFFICES ASSUME j <= k PROVE FALSE
    BY <1>1, <1>3, <2>1
  <2>3. j \in 1 .. n /\ P[j] <= P[k] /\ P[j] \in Nat /\ P[k] \in Nat
    BY <1>1, <1>3, <1>4, <1>5, <2>1, <2>2
  <2>4. P[j] + Block <= length
    <3>1. files[k].size \in Nat
      BY <1>7, <2>1
    <3> HIDE DEF P, files, length
    <3>2. QED
      BY <1>1, <1>2, <2>1, <2>3, <3>1
  <2>5. QED
    BY <1>1, <1>10, <1>12, <2>3, <2>4
<1>13. ASSUME j \in DOMAIN files, NEW names
       PROVE  j \in HeldIn(boot.info.initrd, names) <=> files[j].name \in names /\ Start!Whole(j)
  BY <1>3, <1>13 DEF HeldIn, Start!Whole, Start!Booted
<1>14. QED
  BY <1>11, <1>12, <1>13

LEMMA FreshWalk ==
    ASSUME NEW b, b.info.initrd \in Start!Archives, b.cursor = 0
    PROVE  IsAt(b, 1) /\ \A names : PassedBy(b, names)
<1>1. b.info.initrd.files \in PackedFiles /\ Len(b.info.initrd.files) \in Nat
      /\ DOMAIN b.info.initrd.files = 1 .. Len(b.info.initrd.files)
  BY DEF Start!Archives, PackedFiles
<1>2. IsAt(b, 1)
  BY <1>1, PlacedIs DEF IsAt
<1>3. \A names : \A k \in HeldIn(b.info.initrd, names) : 1 <= k
  BY <1>1 DEF HeldIn
<1>4. QED
  BY <1>2, <1>3 DEF PassedBy

(* A turn of a walk: nothing is found anywhere, or what is found is the    *)
(* first, or the walk goes on with nothing left behind.                    *)
LEMMA WalkTurn ==
    ASSUME boot.info.initrd \in Start!Archives, NEW names, PassedBy(boot, names),
           NEW found, NEW missed, Start!Walk(names, found, missed)
    PROVE  \/ /\ HeldIn(boot.info.initrd, names) = {}
              /\ boot' = [missed EXCEPT !.cursor = 0]
           \/ /\ HeldIn(boot.info.initrd, names) # {} /\ Start!FileHere \in Nat
              /\ FirstIn(boot.info.initrd, Start!FileHere, names)
              /\ boot' = [found EXCEPT !.cursor = 0]
           \/ \E j \in Nat : /\ j + 1 \in 1 .. Len(boot.info.initrd.files) + 1
                             /\ boot' = [boot EXCEPT !.cursor =
                                            Start!Placed(boot.info.initrd.files)[j + 1]]
                             /\ \A k \in HeldIn(boot.info.initrd, names) : j + 1 <= k
<1> DEFINE a == boot.info.initrd
<1>0. DOMAIN a.files = 1 .. Len(a.files) /\ Len(a.files) \in Nat
  BY DEF Start!Archives
<1>1. PICK j \in Nat : IsAt(boot, j) /\ \A k \in HeldIn(a, names) : j <= k
  BY DEF PassedBy
<1>2. /\ Start!Goes => /\ j \in DOMAIN a.files /\ Start!FileHere = j
                       /\ Start!Placed(a.files)[j + 1] = Start!Further(j)
      /\ ~Start!Goes => \A k \in HeldIn(a, names) : k < j
      /\ j \in DOMAIN a.files =>
            (j \in HeldIn(a, names) <=> a.files[j].name \in names /\ Start!Whole(j))
  BY <1>1, Turn
<1>3. HeldIn(a, names) \subseteq Nat
  BY <1>0 DEF HeldIn
<1>4. boot' = IF ~Start!Goes THEN [missed EXCEPT !.cursor = 0]
              ELSE IF a.files[Start!FileHere].name \in names /\ Start!Whole(Start!FileHere)
              THEN [found EXCEPT !.cursor = 0]
              ELSE [boot EXCEPT !.cursor = Start!Further(Start!FileHere)]
  BY DEF Start!Walk, Start!Booted
<1> HIDE DEF a
<1>5. CASE ~Start!Goes
  <2>1. HeldIn(a, names) = {}
    BY <1>1, <1>2, <1>3, <1>5
  <2>2. QED
    BY <1>4, <1>5, <2>1 DEF a
<1>6. CASE Start!Goes /\ j \in HeldIn(a, names)
  <2>1. Start!FileHere = j /\ boot' = [found EXCEPT !.cursor = 0]
    BY <1>2, <1>4, <1>6
  <2>2. FirstIn(a, j, names) /\ HeldIn(a, names) # {}
    BY <1>1, <1>6 DEF FirstIn
  <2>3. QED
    BY <2>1, <2>2 DEF a
<1>7. CASE Start!Goes /\ j \notin HeldIn(a, names)
  <2>1. boot' = [boot EXCEPT !.cursor = Start!Placed(a.files)[j + 1]]
    BY <1>2, <1>4, <1>7
  <2>2. j + 1 \in 1 .. Len(a.files) + 1
    BY <1>0, <1>2, <1>7
  <2>3. \A k \in HeldIn(a, names) : j + 1 <= k
    BY <1>1, <1>3, <1>7
  <2>4. QED
    BY <2>1, <2>2, <2>3 DEF a
<1>8. QED
  BY <1>5, <1>6, <1>7

-----------------------------------------------------------------------------
(* Boot: a module called initrd among the first n tags is the one taken;   *)
(* each asset that was looked for is the first the archive holds whole;    *)
(* and the songs before the j-th file are listed as far as there is room.  *)
IsNamed(tag) == tag.type = "module" /\ tag.initrd

Chosen(b, n) ==
    \A i \in 1 .. n : IsNamed(b.tags[i]) =>
        /\ b.info.module
        /\ \E j \in 1 .. n : IsNamed(b.tags[j]) /\ b.info.initrd = b.tags[j].archive

SongsUpTo(a, songs, j) ==
    /\ \A i \in DOMAIN songs : songs[i] \in HeldIn(a, {"song"}) /\ songs[i] < j
    /\ \A i, l \in DOMAIN songs : i < l => songs[i] < songs[l]
    /\ Len(songs) <= MaxItems
    /\ \A k \in HeldIn(a, {"song"}) : k < j /\ (\A i \in DOMAIN songs : songs[i] # k) =>
          Len(songs) = MaxItems /\ \A i \in DOMAIN songs : songs[i] < k

ShownOk(b) ==
    \A i \in DOMAIN b.shown :
        i \in DOMAIN Frames /\ FirstIn(b.info.initrd, b.shown[i], {Frames[i]})

WallpaperNames(a) == IF HeldIn(a, {"wallpaper"}) # {} THEN {"wallpaper"} ELSE Start!Pictures

BootTypeOK(b) ==
    b \in [at : {"tags", "halted", "splash", "wallpaper", "pictures", "frames", "list", "desktop"},
           tags : Seq(Start!Tag), cursor : Nat,
           info : [mmap : BOOLEAN, screen : BOOLEAN, module : BOOLEAN, initrd : Start!Archives],
           splash : Nat, wallpaper : Nat, shown : Seq(Nat), songs : Seq(Nat)]

BootOk(b) ==
    /\ BootTypeOK(b)
    /\ b.at = "tags" => b.cursor <= Len(b.tags) /\ Chosen(b, b.cursor)
    /\ b.at # "tags" => Chosen(b, Len(b.tags))
    /\ b.at \in {"tags", "splash"} => b.splash = 0
    /\ b.at \in {"tags", "splash", "wallpaper", "pictures"} => b.wallpaper = 0 /\ b.shown = <<>>
    /\ b.at \in {"tags", "splash", "wallpaper", "pictures", "frames"} => b.songs = <<>>
    /\ b.at = "splash" => PassedBy(b, {"splash"})
    /\ b.at \in {"wallpaper", "pictures", "frames", "list", "desktop"} =>
          FirstIn(b.info.initrd, b.splash, {"splash"})
    /\ b.at = "wallpaper" => PassedBy(b, {"wallpaper"})
    /\ b.at = "pictures" => HeldIn(b.info.initrd, {"wallpaper"}) = {} /\ PassedBy(b, Start!Pictures)
    /\ b.at \in {"frames", "list", "desktop"} =>
          FirstIn(b.info.initrd, b.wallpaper, WallpaperNames(b.info.initrd)) /\ ShownOk(b)
    /\ b.at = "frames" =>
          IF Len(b.shown) = Len(Frames) THEN b.cursor = 0
          ELSE Len(b.shown) < Len(Frames) /\ PassedBy(b, {Frames[Len(b.shown) + 1]})
    /\ b.at \in {"list", "desktop"} /\ Len(b.shown) < Len(Frames) =>
          HeldIn(b.info.initrd, {Frames[Len(b.shown) + 1]}) = {}
    /\ b.at = "list" => \E j \in Nat : IsAt(b, j) /\ SongsUpTo(b.info.initrd, b.songs, j)
    /\ b.at = "desktop" => SongsUpTo(b.info.initrd, b.songs, Len(b.info.initrd.files) + 1)

LEMMA Started ==
    ASSUME NEW tags \in TagLists PROVE BootOk(Start!StartedWith(tags))
<1> DEFINE b == Start!StartedWith(tags)
<1>1. tags \in Seq(Start!Tag)
  BY ArchiveAssumption DEF ArchiveAssumption
<1>2. Start!NoArchive \in Start!Archives
  BY DEF Start!NoArchive, Start!Archives
<1>3. BootTypeOK(b)
  BY <1>1, <1>2 DEF BootTypeOK, Start!StartedWith, Start!Nowhere
<1>4. /\ b.at = "tags" /\ b.cursor = 0 /\ b.splash = 0 /\ b.wallpaper = 0
      /\ b.shown = <<>> /\ b.songs = <<>> /\ b.tags = tags
  BY DEF Start!StartedWith, Start!Nowhere
<1>5. Chosen(b, 0)
  BY DEF Chosen
<1>6. Len(b.tags) \in Nat
  BY <1>1, <1>4, LenProperties
<1> HIDE DEF b
<1>7. BootOk(b)
  BY <1>3, <1>4, <1>5, <1>6 DEF BootOk
<1>8. QED
  BY <1>7 DEF b

LEMMA ReadTagStep ==
    ASSUME BootOk(boot), Start!ReadTag PROVE BootOk(boot')
<1> DEFINE n == boot.cursor
           tag == boot.tags[n + 1]
           b == boot'
<1>1. /\ boot.at = "tags" /\ n \in Nat /\ n < Len(boot.tags) /\ Len(boot.tags) \in Nat
      /\ Chosen(boot, n) /\ boot.tags \in Seq(Start!Tag) /\ BootTypeOK(boot)
  BY DEF Start!ReadTag, BootOk, BootTypeOK
<1>2. tag \in Start!Tag
  BY <1>1, ElementOfSeq
<1>3. b = [boot EXCEPT !.cursor = n + 1, !.info = Start!WithTag(boot.info, tag)]
  BY DEF Start!ReadTag
<1>4. boot.info \in [mmap : BOOLEAN, screen : BOOLEAN, module : BOOLEAN, initrd : Start!Archives]
  BY <1>1 DEF BootTypeOK
<1>5. tag.type = "module" => tag.archive \in Start!Archives
  BY <1>2 DEF Start!Tag
<1> HIDE DEF tag
<1>6. Start!WithTag(boot.info, tag)
        \in [mmap : BOOLEAN, screen : BOOLEAN, module : BOOLEAN, initrd : Start!Archives]
  BY <1>4, <1>5 DEF Start!WithTag
<1>7. /\ b.at = boot.at /\ b.tags = boot.tags /\ b.cursor = n + 1
      /\ b.info = Start!WithTag(boot.info, tag) /\ b.splash = boot.splash
      /\ b.wallpaper = boot.wallpaper /\ b.shown = boot.shown /\ b.songs = boot.songs
  BY <1>1, <1>3 DEF BootTypeOK
<1>8. BootTypeOK(b)
  <2> DEFINE info == Start!WithTag(boot.info, tag)
  <2>1. n + 1 \in Nat
    BY <1>1
  <2>2. b = [boot EXCEPT !.cursor = n + 1, !.info = info]
    BY <1>3
  <2> HIDE DEF info
  <2>3. QED
    BY <1>1, <1>6, <2>1, <2>2 DEF BootTypeOK, info
<1>9. Chosen(b, n + 1)
  <2>1. CASE tag.type = "module" /\ (~boot.info.module \/ tag.initrd)
    <3>1. b.info.module /\ b.info.initrd = tag.archive
      BY <1>4, <1>7, <2>1 DEF Start!WithTag
    <3>2. ASSUME NEW i \in 1 .. n + 1, IsNamed(b.tags[i])
          PROVE  \E j \in 1 .. n + 1 : IsNamed(b.tags[j]) /\ b.info.initrd = b.tags[j].archive
      <4>1. CASE IsNamed(tag)
        BY <1>1, <1>7, <3>1, <4>1 DEF tag
      <4>2. CASE ~IsNamed(tag)
        <5>1. ~boot.info.module
          BY <2>1, <4>2 DEF IsNamed
        <5>2. i \in 1 .. n
          BY <1>1, <1>7, <3>2, <4>2 DEF tag
        <5>3. QED
          BY <1>1, <1>7, <3>2, <5>1, <5>2 DEF Chosen
      <4>3. QED
        BY <4>1, <4>2
    <3>3. QED
      BY <3>1, <3>2 DEF Chosen
  <2>2. CASE ~(tag.type = "module" /\ (~boot.info.module \/ tag.initrd))
    <3>1. b.info.module = boot.info.module /\ b.info.initrd = boot.info.initrd
      BY <1>4, <1>7, <2>2 DEF Start!WithTag
    <3>2. ~IsNamed(tag)
      BY <2>2 DEF IsNamed
    <3>3. \A i \in 1 .. n + 1 : IsNamed(b.tags[i]) => i \in 1 .. n
      BY <1>1, <1>7, <3>2 DEF tag
    <3>4. QED
      BY <1>1, <1>7, <3>1, <3>3 DEF Chosen
  <2>3. QED
    BY <2>1, <2>2
<1> HIDE DEF b
<1>10. BootOk(b)
  BY <1>1, <1>7, <1>8, <1>9 DEF BootOk
<1>11. QED
  BY <1>10 DEF b

(* An archive of length zero holds nothing.                                *)
LEMMA NothingHeld ==
    ASSUME NEW a \in Start!Archives, a.length = 0, NEW names
    PROVE  HeldIn(a, names) = {}
<1> SUFFICES ASSUME NEW k \in HeldIn(a, names) PROVE FALSE
  OBVIOUS
<1>1. a.files \in PackedFiles /\ k \in 1 .. Len(a.files) /\ Len(a.files) \in Nat
  BY DEF Start!Archives, PackedFiles, HeldIn
<1>2. a.files[k].size \in Nat /\ Start!Placed(a.files)[k] \in Nat
  BY <1>1, SizeOfPacked, PlacedApart
<1>3. Start!Placed(a.files)[k] + Block + a.files[k].size <= 0
  BY DEF HeldIn
<1>4. Block \in Nat /\ Block > 0
  BY ArchiveAssumption DEF ArchiveAssumption
<1>5. QED
  BY <1>2, <1>3, <1>4

LEMMA TagsReadStep ==
    ASSUME BootOk(boot), Start!TagsRead PROVE BootOk(boot')
<1> DEFINE b == boot'
           a == boot.info.initrd
<1>1. /\ boot.at = "tags" /\ BootTypeOK(boot) /\ Chosen(boot, Len(boot.tags))
      /\ boot.splash = 0 /\ boot.wallpaper = 0 /\ boot.shown = <<>> /\ boot.songs = <<>>
  BY DEF BootOk, Start!TagsRead
<1>2. /\ b.tags = boot.tags /\ b.cursor = 0 /\ b.info = boot.info /\ b.splash = 0
      /\ b.wallpaper = 0 /\ b.shown = <<>> /\ b.songs = <<>>
      /\ b.at \in {"halted", "desktop", "splash"} /\ (b.at = "desktop" => a.length = 0)
  BY <1>1 DEF BootTypeOK, Start!TagsRead
<1>3. BootTypeOK(b) /\ a \in Start!Archives
  BY <1>1 DEF BootTypeOK, Start!TagsRead
<1> HIDE DEF b
<1>4. Chosen(b, Len(b.tags))
  BY <1>1, <1>2 DEF Chosen
<1>5. PassedBy(b, {"splash"})
  BY <1>2, <1>3, FreshWalk
<1>6. ASSUME b.at = "desktop" PROVE \A names : HeldIn(a, names) = {}
  BY <1>2, <1>3, <1>6, NothingHeld
<1>7. ASSUME b.at = "desktop"
      PROVE  /\ FirstIn(a, 0, {"splash"}) /\ FirstIn(a, 0, WallpaperNames(a)) /\ ShownOk(b)
             /\ SongsUpTo(a, <<>>, Len(a.files) + 1)
  BY <1>2, <1>6, <1>7, ArchiveAssumption DEF FirstIn, ShownOk, SongsUpTo, ArchiveAssumption
<1>8. BootOk(b)
  BY <1>2, <1>3, <1>4, <1>5, <1>6, <1>7 DEF BootOk
<1>9. QED
  BY <1>8 DEF b

LEMMA WalkOn ==
    ASSUME NEW b, NEW j \in Nat, NEW names, b.info.initrd \in Start!Archives,
           j + 1 \in 1 .. Len(b.info.initrd.files) + 1,
           b.cursor = Start!Placed(b.info.initrd.files)[j + 1],
           \A k \in HeldIn(b.info.initrd, names) : j + 1 <= k
    PROVE  PassedBy(b, names) /\ IsAt(b, j + 1) /\ b.cursor \in Nat
<1>1. IsAt(b, j + 1) /\ j + 1 \in Nat
  BY DEF IsAt
<1>2. b.info.initrd.files \in PackedFiles
  BY DEF Start!Archives, PackedFiles
<1>3. QED
  BY <1>1, <1>2, PlacedApart DEF PassedBy

(* A walk that goes on keeps what was found before it.                     *)
LEMMA WentOn ==
    ASSUME BootOk(boot), NEW names, NEW j \in Nat,
           j + 1 \in 1 .. Len(boot.info.initrd.files) + 1,
           boot' = [boot EXCEPT !.cursor = Start!Placed(boot.info.initrd.files)[j + 1]],
           \A k \in HeldIn(boot.info.initrd, names) : j + 1 <= k,
           \/ boot.at = "splash" /\ names = {"splash"}
           \/ boot.at = "wallpaper" /\ names = {"wallpaper"}
           \/ boot.at = "pictures" /\ names = Start!Pictures
           \/ /\ boot.at = "frames" /\ Len(boot.shown) # Len(Frames)
              /\ names = {Frames[Len(boot.shown) + 1]}
    PROVE  BootOk(boot')
<1> DEFINE b == boot'
<1>1. BootTypeOK(boot) /\ boot.info.initrd \in Start!Archives
  BY DEF BootOk, BootTypeOK
<1>2. /\ b.at = boot.at /\ b.cursor = Start!Placed(boot.info.initrd.files)[j + 1]
      /\ b.info = boot.info /\ b.tags = boot.tags /\ b.wallpaper = boot.wallpaper
      /\ b.shown = boot.shown /\ b.songs = boot.songs /\ b.splash = boot.splash
  BY <1>1 DEF BootTypeOK
<1>3. PassedBy(b, names) /\ Start!Placed(boot.info.initrd.files)[j + 1] \in Nat
  BY <1>1, <1>2, WalkOn
<1>4. BootTypeOK(b)
  BY <1>1, <1>3 DEF BootTypeOK
<1> HIDE DEF b
<1>5. (b.at # "tags" => Chosen(b, Len(b.tags))) /\ (ShownOk(boot) => ShownOk(b))
  BY <1>2 DEF Chosen, BootOk, ShownOk
<1>6. BootOk(b)
  BY <1>2, <1>3, <1>4, <1>5 DEF BootOk
<1>7. QED
  BY <1>6 DEF b

LEMMA FindSplashStep ==
    ASSUME BootOk(boot), Start!FindSplash PROVE BootOk(boot')
<1> DEFINE b == boot'
           a == boot.info.initrd
<1>1. /\ boot.at = "splash" /\ BootTypeOK(boot) /\ PassedBy(boot, {"splash"}) /\ a \in Start!Archives
      /\ boot.splash = 0 /\ boot.wallpaper = 0 /\ boot.shown = <<>> /\ boot.songs = <<>>
      /\ Chosen(boot, Len(boot.tags))
  BY DEF BootOk, BootTypeOK, Start!FindSplash
<1>2. \/ /\ HeldIn(a, {"splash"}) = {}
         /\ b = [[boot EXCEPT !.at = "wallpaper"] EXCEPT !.cursor = 0]
      \/ /\ HeldIn(a, {"splash"}) # {} /\ Start!FileHere \in Nat
         /\ FirstIn(a, Start!FileHere, {"splash"})
         /\ b = [[boot EXCEPT !.splash = Start!FileHere, !.at = "wallpaper"] EXCEPT !.cursor = 0]
      \/ \E j \in Nat : /\ j + 1 \in 1 .. Len(a.files) + 1
                        /\ b = [boot EXCEPT !.cursor = Start!Placed(a.files)[j + 1]]
                        /\ \A k \in HeldIn(a, {"splash"}) : j + 1 <= k
  BY <1>1, WalkTurn DEF Start!FindSplash
<1>3. ASSUME NEW k \in Nat, FirstIn(a, k, {"splash"}),
             b = [boot EXCEPT !.splash = k, !.at = "wallpaper", !.cursor = 0]
      PROVE  BootOk(b)
  <2>1. /\ b.at = "wallpaper" /\ b.splash = k /\ b.cursor = 0 /\ b.info = boot.info
        /\ b.tags = boot.tags /\ b.wallpaper = 0 /\ b.shown = <<>> /\ b.songs = <<>>
    BY <1>1, <1>3 DEF BootTypeOK
  <2>2. BootTypeOK(b)
    BY <1>1, <1>3 DEF BootTypeOK
  <2> HIDE DEF b
  <2>3. Chosen(b, Len(b.tags)) /\ PassedBy(b, {"wallpaper"})
    BY <1>1, <2>1, FreshWalk DEF Chosen
  <2>4. QED
    BY <1>3, <2>1, <2>2, <2>3 DEF BootOk
<1>4. ASSUME NEW j \in Nat, j + 1 \in 1 .. Len(a.files) + 1,
             b = [boot EXCEPT !.cursor = Start!Placed(a.files)[j + 1]],
             \A k \in HeldIn(a, {"splash"}) : j + 1 <= k
      PROVE  BootOk(b)
  BY <1>1, <1>4, WentOn
<1>5. CASE HeldIn(a, {"splash"}) = {} /\ b = [[boot EXCEPT !.at = "wallpaper"] EXCEPT !.cursor = 0]
  <2>1. FirstIn(a, 0, {"splash"})
    BY <1>5 DEF FirstIn
  <2>2. b = [boot EXCEPT !.splash = 0, !.at = "wallpaper", !.cursor = 0]
    BY <1>1, <1>5 DEF BootTypeOK
  <2>3. QED
    BY <1>3, <2>1, <2>2
<1>6. CASE /\ Start!FileHere \in Nat /\ FirstIn(a, Start!FileHere, {"splash"})
           /\ b = [[boot EXCEPT !.splash = Start!FileHere, !.at = "wallpaper"] EXCEPT !.cursor = 0]
  <2>1. b = [boot EXCEPT !.splash = Start!FileHere, !.at = "wallpaper", !.cursor = 0]
    BY <1>1, <1>6 DEF BootTypeOK
  <2>2. QED
    BY <1>3, <1>6, <2>1
<1>7. QED
  BY <1>2, <1>4, <1>5, <1>6

(* FindWallpaper, FindPicture: both go on to the frames of the animation.  *)
LEMMA WallpaperFound ==
    ASSUME BootOk(boot), boot.at \in {"wallpaper", "pictures"}, NEW k \in Nat,
           FirstIn(boot.info.initrd, k, WallpaperNames(boot.info.initrd)),
           boot' = [[boot EXCEPT !.wallpaper = k, !.at = "frames"] EXCEPT !.cursor = 0]
    PROVE  BootOk(boot')
<1> DEFINE b == boot'
           a == boot.info.initrd
<1>1. /\ BootTypeOK(boot) /\ a \in Start!Archives /\ FirstIn(a, boot.splash, {"splash"})
      /\ boot.shown = <<>> /\ boot.songs = <<>> /\ Chosen(boot, Len(boot.tags))
  BY DEF BootOk, BootTypeOK
<1>2. /\ b.at = "frames" /\ b.splash = boot.splash /\ b.cursor = 0 /\ b.info = boot.info
      /\ b.tags = boot.tags /\ b.wallpaper = k /\ b.shown = <<>> /\ b.songs = <<>>
      /\ BootTypeOK(b)
  BY <1>1 DEF BootTypeOK
<1> HIDE DEF b
<1>3. Chosen(b, Len(b.tags)) /\ ShownOk(b)
  BY <1>1, <1>2 DEF Chosen, ShownOk
<1>4. Len(b.shown) = 0 /\ Len(Frames) \in Nat
  BY <1>2, ArchiveAssumption DEF ArchiveAssumption
<1>5. PassedBy(b, {Frames[Len(b.shown) + 1]})
  BY <1>1, <1>2, FreshWalk
<1>6. BootOk(b)
  BY <1>1, <1>2, <1>3, <1>4, <1>5 DEF BootOk
<1>7. QED
  BY <1>6 DEF b

LEMMA FindWallpaperStep ==
    ASSUME BootOk(boot), Start!FindWallpaper PROVE BootOk(boot')
<1> DEFINE b == boot'
           a == boot.info.initrd
           names == {"wallpaper"}
<1>1. /\ boot.at = "wallpaper" /\ BootTypeOK(boot) /\ PassedBy(boot, names) /\ a \in Start!Archives
      /\ FirstIn(a, boot.splash, {"splash"})
      /\ boot.wallpaper = 0 /\ boot.shown = <<>> /\ boot.songs = <<>>
      /\ Chosen(boot, Len(boot.tags))
  BY DEF BootOk, BootTypeOK, Start!FindWallpaper
<1>2. \/ /\ HeldIn(a, names) = {}
         /\ b = [[boot EXCEPT !.at = "pictures"] EXCEPT !.cursor = 0]
      \/ /\ HeldIn(a, names) # {} /\ Start!FileHere \in Nat
         /\ FirstIn(a, Start!FileHere, names)
         /\ b = [[boot EXCEPT !.wallpaper = Start!FileHere, !.at = "frames"] EXCEPT !.cursor = 0]
      \/ \E j \in Nat : /\ j + 1 \in 1 .. Len(a.files) + 1
                        /\ b = [boot EXCEPT !.cursor = Start!Placed(a.files)[j + 1]]
                        /\ \A k \in HeldIn(a, names) : j + 1 <= k
  BY <1>1, WalkTurn DEF Start!FindWallpaper
<1>3. CASE HeldIn(a, names) = {} /\ b = [[boot EXCEPT !.at = "pictures"] EXCEPT !.cursor = 0]
  <2>1. /\ b.at = "pictures" /\ b.splash = boot.splash /\ b.cursor = 0 /\ b.info = boot.info
        /\ b.tags = boot.tags /\ b.wallpaper = 0 /\ b.shown = <<>> /\ b.songs = <<>>
        /\ BootTypeOK(b)
    BY <1>1, <1>3 DEF BootTypeOK
  <2> HIDE DEF b
  <2>2. Chosen(b, Len(b.tags)) /\ PassedBy(b, Start!Pictures)
    BY <1>1, <2>1, FreshWalk DEF Chosen
  <2>3. BootOk(b)
    BY <1>1, <1>3, <2>1, <2>2 DEF BootOk
  <2>4. QED
    BY <2>3 DEF b
<1>4. CASE /\ HeldIn(a, names) # {} /\ Start!FileHere \in Nat
           /\ FirstIn(a, Start!FileHere, names)
           /\ b = [[boot EXCEPT !.wallpaper = Start!FileHere, !.at = "frames"] EXCEPT !.cursor = 0]
  <2>1. FirstIn(a, Start!FileHere, WallpaperNames(a))
    BY <1>4 DEF WallpaperNames
  <2>2. QED
    BY <1>1, <1>4, <2>1, WallpaperFound
<1>5. QED
  BY <1>1, <1>2, <1>3, <1>4, WentOn

LEMMA FindPictureStep ==
    ASSUME BootOk(boot), Start!FindPicture PROVE BootOk(boot')
<1> DEFINE b == boot'
           a == boot.info.initrd
           names == Start!Pictures
<1>1. /\ boot.at = "pictures" /\ BootTypeOK(boot) /\ PassedBy(boot, names) /\ a \in Start!Archives
      /\ boot.wallpaper = 0 /\ HeldIn(a, {"wallpaper"}) = {}
  BY DEF BootOk, BootTypeOK, Start!FindPicture
<1>2. \/ /\ HeldIn(a, names) = {}
         /\ b = [[boot EXCEPT !.at = "frames"] EXCEPT !.cursor = 0]
      \/ /\ HeldIn(a, names) # {} /\ Start!FileHere \in Nat
         /\ FirstIn(a, Start!FileHere, names)
         /\ b = [[boot EXCEPT !.wallpaper = Start!FileHere, !.at = "frames"] EXCEPT !.cursor = 0]
      \/ \E j \in Nat : /\ j + 1 \in 1 .. Len(a.files) + 1
                        /\ b = [boot EXCEPT !.cursor = Start!Placed(a.files)[j + 1]]
                        /\ \A k \in HeldIn(a, names) : j + 1 <= k
  BY <1>1, WalkTurn DEF Start!FindPicture
<1>3. WallpaperNames(a) = names
  BY <1>1 DEF WallpaperNames
<1>4. CASE HeldIn(a, names) = {} /\ b = [[boot EXCEPT !.at = "frames"] EXCEPT !.cursor = 0]
  <2>1. FirstIn(a, 0, WallpaperNames(a))
    BY <1>3, <1>4 DEF FirstIn
  <2>2. b = [[boot EXCEPT !.wallpaper = 0, !.at = "frames"] EXCEPT !.cursor = 0]
    BY <1>1, <1>4 DEF BootTypeOK
  <2>3. 0 \in Nat /\ boot.at \in {"wallpaper", "pictures"}
    BY <1>1
  <2> HIDE DEF names
  <2>4. QED
    BY <2>1, <2>2, <2>3, WallpaperFound
<1>5. CASE /\ Start!FileHere \in Nat /\ FirstIn(a, Start!FileHere, names)
           /\ b = [[boot EXCEPT !.wallpaper = Start!FileHere, !.at = "frames"] EXCEPT !.cursor = 0]
  BY <1>1, <1>3, <1>5, WallpaperFound
<1>6. QED
  BY <1>1, <1>2, <1>4, <1>5, WentOn

(* FindFrame: the frames shown are the first ones, without a gap.          *)
LEMMA FindFrameStep ==
    ASSUME BootOk(boot), Start!FindFrame PROVE BootOk(boot')
<1> DEFINE b == boot'
           a == boot.info.initrd
           n == Len(boot.shown)
           names == {Frames[n + 1]}
<1>1. /\ boot.at = "frames" /\ BootTypeOK(boot) /\ a \in Start!Archives
      /\ FirstIn(a, boot.splash, {"splash"}) /\ FirstIn(a, boot.wallpaper, WallpaperNames(a))
      /\ ShownOk(boot) /\ boot.songs = <<>> /\ Chosen(boot, Len(boot.tags))
  BY DEF BootOk, BootTypeOK, Start!FindFrame
<1>2. n \in Nat /\ Len(Frames) \in Nat /\ boot.shown \in Seq(Nat) /\ boot.cursor \in Nat
      /\ DOMAIN Frames = 1 .. Len(Frames)
  BY <1>1, ArchiveAssumption DEF ArchiveAssumption, BootTypeOK
<1>3. IF n = Len(Frames) THEN boot.cursor = 0 ELSE n < Len(Frames) /\ PassedBy(boot, names)
  BY <1>1 DEF BootOk
<1>4. ASSUME b = [boot EXCEPT !.at = "list", !.cursor = 0],
             n < Len(Frames) => HeldIn(a, names) = {}
      PROVE  BootOk(b)
  <2>1. /\ b.at = "list" /\ b.splash = boot.splash /\ b.cursor = 0 /\ b.info = boot.info
        /\ b.tags = boot.tags /\ b.wallpaper = boot.wallpaper /\ b.shown = boot.shown
        /\ b.songs = <<>> /\ BootTypeOK(b)
    BY <1>1, <1>4 DEF BootTypeOK
  <2> HIDE DEF b
  <2>2. Chosen(b, Len(b.tags)) /\ ShownOk(b) /\ IsAt(b, 1)
    BY <1>1, <2>1, FreshWalk DEF Chosen, ShownOk
  <2>3. SongsUpTo(a, <<>>, 1)
    <3>1. \A k \in HeldIn(a, {"song"}) : 1 <= k
      BY <1>1, <2>1, FreshWalk DEF HeldIn, Start!Archives
    <3>2. \A k \in HeldIn(a, {"song"}) : k \in Nat
      BY <1>1 DEF HeldIn, Start!Archives
    <3>3. QED
      BY <3>1, <3>2, ArchiveAssumption DEF SongsUpTo, ArchiveAssumption
  <2>4. \E j \in Nat : IsAt(b, j) /\ SongsUpTo(a, b.songs, j)
    BY <2>1, <2>2, <2>3
  <2>5. QED
    BY <1>1, <1>4, <2>1, <2>2, <2>4 DEF BootOk
<1>5. CASE n = Len(Frames)
  <2>1. b = [boot EXCEPT !.at = "list", !.cursor = 0]
    BY <1>1, <1>3, <1>5 DEF Start!FindFrame, BootTypeOK
  <2>2. QED
    BY <1>2, <1>4, <1>5, <2>1
<1>6. CASE n # Len(Frames)
  <2>1. n < Len(Frames) /\ PassedBy(boot, names)
    BY <1>3, <1>6
  <2>2. Start!Walk(names, [boot EXCEPT !.shown = Append(@, Start!FileHere)],
                          [boot EXCEPT !.at = "list"])
    BY <1>6 DEF Start!FindFrame
  <2>3. \/ /\ HeldIn(a, names) = {}
           /\ b = [[boot EXCEPT !.at = "list"] EXCEPT !.cursor = 0]
        \/ /\ HeldIn(a, names) # {} /\ Start!FileHere \in Nat
           /\ FirstIn(a, Start!FileHere, names)
           /\ b = [[boot EXCEPT !.shown = Append(@, Start!FileHere)] EXCEPT !.cursor = 0]
        \/ \E j \in Nat : /\ j + 1 \in 1 .. Len(a.files) + 1
                          /\ b = [boot EXCEPT !.cursor = Start!Placed(a.files)[j + 1]]
                          /\ \A k \in HeldIn(a, names) : j + 1 <= k
    BY <1>1, <2>1, <2>2, WalkTurn
  <2>4. CASE /\ HeldIn(a, names) = {}
             /\ b = [[boot EXCEPT !.at = "list"] EXCEPT !.cursor = 0]
    <3>1. b = [boot EXCEPT !.at = "list", !.cursor = 0]
      BY <2>4
    <3>2. QED
      BY <1>4, <2>4, <3>1
  <2>5. ASSUME NEW k \in Nat, FirstIn(a, k, names),
               b = [[boot EXCEPT !.shown = Append(@, k)] EXCEPT !.cursor = 0]
        PROVE  BootOk(b)
    <3>1. Append(boot.shown, k) \in Seq(Nat) /\ Len(Append(boot.shown, k)) = n + 1
      BY <1>2
    <3>2. /\ b.at = "frames" /\ b.splash = boot.splash /\ b.cursor = 0 /\ b.info = boot.info
          /\ b.tags = boot.tags /\ b.wallpaper = boot.wallpaper
          /\ b.shown = Append(boot.shown, k) /\ b.songs = <<>>
      BY <1>1, <2>5 DEF BootTypeOK
    <3>3. BootTypeOK(b)
      BY <1>1, <2>5, <3>1 DEF BootTypeOK
    <3> HIDE DEF b
    <3>4. ShownOk(b)
      <4>1. ASSUME NEW i \in 1 .. n + 1
            PROVE  i \in DOMAIN Frames /\ FirstIn(a, Append(boot.shown, k)[i], {Frames[i]})
        <5>1. CASE i = n + 1
          BY <1>2, <2>1, <2>5, <5>1
        <5>2. CASE i # n + 1
          <6>1. i \in DOMAIN boot.shown /\ Append(boot.shown, k)[i] = boot.shown[i]
            BY <1>2, <5>2
          <6>2. QED
            BY <1>1, <6>1 DEF ShownOk
        <5>3. QED
          BY <5>1, <5>2
      <4>2. DOMAIN b.shown = 1 .. n + 1
        BY <1>2, <3>2
      <4>3. QED
        BY <3>2, <4>1, <4>2 DEF ShownOk
    <3>5. Chosen(b, Len(b.tags)) /\ PassedBy(b, {Frames[Len(b.shown) + 1]})
      BY <1>1, <3>2, FreshWalk DEF Chosen
    <3>6. Len(b.shown) = Len(Frames) \/ Len(b.shown) < Len(Frames)
      <4> DEFINE all == Len(Frames)
                 now == Len(b.shown)
      <4>1. now = n + 1 /\ n < all /\ n \in Nat /\ all \in Nat
        BY <1>2, <2>1, <3>1, <3>2
      <4> HIDE DEF all, now, n
      <4>2. now = all \/ now < all
        BY <4>1
      <4>3. QED
        BY <4>2 DEF now, all
    <3>7. QED
      BY <1>1, <3>2, <3>3, <3>4, <3>5, <3>6 DEF BootOk
  <2>6. QED
    BY <1>1, <1>6, <2>3, <2>4, <2>5, WentOn
<1>7. QED
  BY <1>5, <1>6

(* List: the songs found so far, as many as there is room for.             *)
LEMMA ListStep ==
    ASSUME BootOk(boot), Start!List PROVE BootOk(boot')
<1> DEFINE b == boot'
           a == boot.info.initrd
           files == a.files
           held == HeldIn(a, {"song"})
           songs == boot.songs
           there == Start!Goes /\ Start!Whole(Start!FileHere) /\ Len(songs) < MaxItems
                    /\ files[Start!FileHere].name = "song"
<1>1. /\ boot.at = "list" /\ BootTypeOK(boot) /\ a \in Start!Archives
      /\ FirstIn(a, boot.splash, {"splash"}) /\ FirstIn(a, boot.wallpaper, WallpaperNames(a))
      /\ ShownOk(boot) /\ Chosen(boot, Len(boot.tags))
      /\ Len(boot.shown) < Len(Frames) => HeldIn(a, {Frames[Len(boot.shown) + 1]}) = {}
  BY DEF BootOk, BootTypeOK, Start!List
<1>2. PICK j \in Nat : IsAt(boot, j) /\ SongsUpTo(a, songs, j)
  BY <1>1 DEF BootOk
<1>3. /\ Start!Goes => /\ j \in DOMAIN files /\ Start!FileHere = j
                       /\ Start!Placed(files)[j + 1] = Start!Further(j)
      /\ ~Start!Goes => \A k \in held : k < j
      /\ j \in DOMAIN files => (j \in held <=> files[j].name \in {"song"} /\ Start!Whole(j))
  BY <1>1, <1>2, Turn
<1>4. /\ files \in PackedFiles /\ Len(files) \in Nat /\ DOMAIN files = 1 .. Len(files)
      /\ songs \in Seq(Nat) /\ Len(songs) \in Nat /\ DOMAIN songs = 1 .. Len(songs)
      /\ MaxItems \in Nat /\ \A k \in held : k \in 1 .. Len(files)
  BY <1>1, ArchiveAssumption DEF BootTypeOK, Start!Archives, PackedFiles, HeldIn, ArchiveAssumption
<1>5. b = IF ~Start!Goes THEN [boot EXCEPT !.at = "desktop", !.cursor = 0]
          ELSE [boot EXCEPT !.cursor = Start!Further(Start!FileHere),
                            !.songs = IF there THEN Append(songs, Start!FileHere) ELSE songs]
  BY <1>1 DEF Start!List, Start!Booted, BootTypeOK
<1>6. CASE ~Start!Goes
  <2>1. /\ b.at = "desktop" /\ b.splash = boot.splash /\ b.cursor = 0 /\ b.info = boot.info
        /\ b.tags = boot.tags /\ b.wallpaper = boot.wallpaper /\ b.shown = boot.shown
        /\ b.songs = songs /\ BootTypeOK(b)
    BY <1>1, <1>5, <1>6 DEF BootTypeOK
  <2>2. SongsUpTo(a, songs, Len(files) + 1)
    <3> HIDE DEF held
    <3>1. \A k \in held : k < j /\ k < Len(files) + 1
      BY <1>3, <1>4, <1>6
    <3>2. QED
      BY <1>2, <3>1 DEF SongsUpTo, held
  <2> HIDE DEF b
  <2>3. Chosen(b, Len(b.tags)) /\ ShownOk(b)
    BY <1>1, <2>1 DEF Chosen, ShownOk
  <2>4. BootOk(b)
    BY <1>1, <2>1, <2>2, <2>3 DEF BootOk
  <2>5. QED
    BY <2>4 DEF b
<1>7. CASE Start!Goes
  <2> DEFINE longer == IF j \in held /\ Len(songs) < MaxItems THEN Append(songs, j) ELSE songs
  <2>1. b = [boot EXCEPT !.cursor = Start!Placed(files)[j + 1], !.songs = longer]
    BY <1>3, <1>5, <1>7
  <2>2. longer \in Seq(Nat)
    BY <1>4
  <2>3. SongsUpTo(a, longer, j + 1)
    <3>1. /\ \A i \in DOMAIN songs : songs[i] \in held /\ songs[i] < j /\ songs[i] \in Nat
          /\ \A i, l \in DOMAIN songs : i < l => songs[i] < songs[l]
          /\ Len(songs) <= MaxItems
          /\ \A k \in held : k < j /\ (\A i \in DOMAIN songs : songs[i] # k) =>
                Len(songs) = MaxItems /\ \A i \in DOMAIN songs : songs[i] < k
      BY <1>2, <1>4 DEF SongsUpTo
    <3> HIDE DEF held
    <3>2. CASE j \in held /\ Len(songs) < MaxItems
      <4> DEFINE more == Append(songs, j)
      <4>1. /\ Len(more) = Len(songs) + 1 /\ DOMAIN more = 1 .. Len(songs) + 1
            /\ more[Len(songs) + 1] = j /\ \A i \in 1 .. Len(songs) : more[i] = songs[i]
        BY <1>4
      <4> HIDE DEF more
      <4>2. \A i \in DOMAIN more : more[i] \in held /\ more[i] < j + 1
        BY <1>4, <3>1, <3>2, <4>1
      <4>3. ASSUME NEW i \in DOMAIN more, NEW l \in DOMAIN more, i < l
            PROVE  more[i] < more[l]
        <5>1. i \in DOMAIN songs /\ more[i] = songs[i]
          BY <1>4, <4>1, <4>3
        <5>2. CASE l = Len(songs) + 1
          BY <3>1, <4>1, <5>1, <5>2
        <5>3. CASE l # Len(songs) + 1
          <6>1. l \in DOMAIN songs /\ more[l] = songs[l]
            BY <1>4, <4>1, <5>3
          <6>2. QED
            BY <3>1, <4>3, <5>1, <6>1
        <5>4. QED
          BY <5>2, <5>3
      <4>4. ASSUME NEW k \in held, k < j + 1, \A i \in DOMAIN more : more[i] # k
            PROVE  FALSE
        <5>1. k < j /\ \A i \in DOMAIN songs : songs[i] # k
          BY <1>4, <4>1, <4>4
        <5>2. QED
          BY <1>4, <3>1, <3>2, <5>1
      <4>5. Len(more) <= MaxItems
        BY <1>4, <3>2, <4>1
      <4>6. SongsUpTo(a, more, j + 1)
        BY <4>2, <4>3, <4>4, <4>5 DEF SongsUpTo, held
      <4>7. QED
        BY <3>2, <4>6 DEF more
    <3>3. CASE ~(j \in held /\ Len(songs) < MaxItems)
      <4>1. ASSUME NEW k \in held, k < j + 1, \A i \in DOMAIN songs : songs[i] # k
            PROVE  Len(songs) = MaxItems /\ \A i \in DOMAIN songs : songs[i] < k
        <5>1. CASE k = j
          BY <1>4, <3>1, <3>3, <4>1, <5>1
        <5>2. CASE k # j
          <6>1. k < j
            BY <1>4, <4>1, <5>2
          <6>2. QED
            BY <3>1, <4>1, <6>1
        <5>3. QED
          BY <5>1, <5>2
      <4>2. \A i \in DOMAIN songs : songs[i] < j + 1
        BY <3>1
      <4>3. longer = songs
        BY <3>3
      <4> HIDE DEF longer
      <4>4. QED
        BY <3>1, <4>1, <4>2, <4>3 DEF SongsUpTo, held
    <3>4. QED
      BY <3>2, <3>3
  <2> HIDE DEF longer
  <2>4. /\ b.at = "list" /\ b.splash = boot.splash /\ b.info = boot.info
        /\ b.cursor = Start!Placed(files)[j + 1] /\ b.tags = boot.tags
        /\ b.wallpaper = boot.wallpaper /\ b.shown = boot.shown /\ b.songs = longer
    BY <1>1, <2>1 DEF BootTypeOK
  <2>5. j + 1 \in 1 .. Len(files) + 1 /\ j + 1 \in Nat
    BY <1>3, <1>4, <1>7
  <2>6. Start!Placed(files)[j + 1] \in Nat
    BY <1>4, <2>5, PlacedApart
  <2>7. BootTypeOK(b)
    BY <1>1, <2>1, <2>2, <2>6 DEF BootTypeOK
  <2> HIDE DEF b
  <2>8. Chosen(b, Len(b.tags)) /\ ShownOk(b) /\ IsAt(b, j + 1)
    BY <1>1, <2>4, <2>5 DEF Chosen, ShownOk, IsAt
  <2>9. \E l \in Nat : IsAt(b, l) /\ SongsUpTo(a, longer, l)
    BY <2>3, <2>5, <2>8
  <2>10. BootOk(b)
    BY <1>1, <2>4, <2>7, <2>8, <2>9 DEF BootOk
  <2>11. QED
    BY <2>10 DEF b
<1>8. QED
  BY <1>6, <1>7

LEMMA BootStep ==
    ASSUME BootOk(boot), [Start!BootNext]_bootVars
    PROVE  BootOk(boot')
<1>1. CASE Start!Restart
  BY <1>1, Started DEF Start!Restart
<1>2. CASE UNCHANGED bootVars
  BY <1>2 DEF bootVars
<1>3. QED
  BY <1>1, <1>2, ReadTagStep, TagsReadStep, FindSplashStep, FindWallpaperStep, FindPictureStep,
     FindFrameStep, ListStep DEF Start!BootNext

LEMMA FoundFollows ==
    ASSUME BootOk(boot) PROVE Start!FoundIsWhatIsHeld
<1> DEFINE a == boot.info.initrd
<1>1. BootTypeOK(boot) /\ a \in Start!Archives /\ boot.tags \in Seq(Start!Tag)
  BY DEF BootOk, BootTypeOK
<1>2. \A names : Start!Held(names) = HeldIn(a, names)
  BY DEF Start!Held, HeldIn, Start!Booted
<1>3. \A k, names : Start!IsFirst(k, names) <=> FirstIn(a, k, names)
  BY <1>2 DEF Start!IsFirst, FirstIn, Start!Nowhere
<1>4. ASSUME boot.at \in {"list", "desktop"}, Start!NamedArchives # {}
      PROVE  Start!Booted \in Start!NamedArchives
  <2>1. Chosen(boot, Len(boot.tags)) /\ DOMAIN boot.tags = 1 .. Len(boot.tags)
    BY <1>1, <1>4 DEF BootOk
  <2>2. PICK i \in DOMAIN boot.tags : IsNamed(boot.tags[i])
    BY <1>4 DEF Start!NamedArchives, IsNamed
  <2>3. PICK j \in DOMAIN boot.tags : IsNamed(boot.tags[j]) /\ a = boot.tags[j].archive
    BY <2>1, <2>2 DEF Chosen
  <2>4. QED
    BY <2>3 DEF Start!NamedArchives, IsNamed, Start!Booted
<1>5. ASSUME boot.at = "desktop"
      PROVE  /\ FirstIn(a, boot.splash, {"splash"}) /\ FirstIn(a, boot.wallpaper, WallpaperNames(a))
             /\ \A i \in DOMAIN boot.shown : FirstIn(a, boot.shown[i], {Frames[i]})
             /\ Len(boot.shown) < Len(Frames) => HeldIn(a, {Frames[Len(boot.shown) + 1]}) = {}
             /\ SongsUpTo(a, boot.songs, Len(a.files) + 1)
  BY <1>5 DEF BootOk, ShownOk
<1>6. \A k \in HeldIn(a, {"song"}) : k < Len(a.files) + 1
  BY <1>1 DEF HeldIn, Start!Archives
<1>7. ASSUME boot.at = "desktop", NEW k \in HeldIn(a, {"song"}) \ Start!Range(boot.songs)
      PROVE  Len(boot.songs) = MaxItems /\ \A i \in DOMAIN boot.songs : boot.songs[i] < k
  BY <1>5, <1>6, <1>7 DEF SongsUpTo, Start!Range
<1>8. ASSUME boot.at = "desktop"
      PROVE  /\ \A i \in DOMAIN boot.songs : boot.songs[i] \in HeldIn(a, {"song"})
             /\ \A i, j \in DOMAIN boot.songs : i < j => boot.songs[i] < boot.songs[j]
             /\ Len(boot.songs) <= MaxItems
  BY <1>5, <1>8 DEF SongsUpTo
<1> HIDE DEF a
<1>9. QED
  BY <1>2, <1>3, <1>4, <1>5, <1>7, <1>8 DEF Start!FoundIsWhatIsHeld, WallpaperNames

(* However the archive is cut short, a walk finds what it seeks whenever   *)
(* it is there whole and nothing that is not, and the archive is one that  *)
(* is called initrd if there is one (parse_boot_info, initrd_find_file,    *)
(* initrd_find_wallpaper, initrd_list_files).                              *)
THEOREM BootFindsAssets == Spec => []FoundIsWhatIsHeld
<1>1. Init => BootOk(boot)
  BY Started DEF Init, Start!BootInit
<1>2. BootOk(boot) /\ [Next]_partsVars => BootOk(boot)'
  BY PartsMove, BootStep
<1>3. BootOk(boot) => FoundIsWhatIsHeld
  BY FoundFollows DEF FoundIsWhatIsHeld
<1>4. QED
  BY <1>1, <1>2, <1>3, PTL DEF Spec
-----------------------------------------------------------------------------
(* File Manager: what the l-th file of the archive is at a place: whether  *)
(* it lies there, the path of its child of the place, and its row.         *)
Here(s) == Files!PlacePrefix(s.sidebar) \o s.path
Lies(s, l) == Files!Admitted(s.sidebar, Archive[l]) /\ Files!IsBelow(Here(s), Archive[l].path)
ChildPath(s, l) ==
    SubSeq(Archive[l].path, Len(Files!PlacePrefix(s.sidebar)) + 1, Len(Here(s)) + 1)
RowOf(s, l) ==
    IF Len(Archive[l].path) = Len(Here(s)) + 1
    THEN [what |-> Archive[l].kind, path |-> ChildPath(s, l)]
    ELSE [what |-> "folder", path |-> ChildPath(s, l)]

RowsOf(s) == {RowOf(s, l) : l \in 1 .. Len(Archive)}
Children(s, k) == {ChildPath(s, l) : l \in {x \in 1 .. k : Lies(s, x)}}

(* The rows after the first k files: children, each once, all or as many   *)
(* as there is room for.                                                   *)
RowsAfter(s, rows, k) ==
    /\ rows \in Seq(RowsOf(s)) /\ Len(rows) <= MaxEntries
    /\ \A i, j \in 1 .. Len(rows) : rows[i].path = rows[j].path => i = j
    /\ \A i \in 1 .. Len(rows) : rows[i].path \in Children(s, k)
    /\ Len(rows) = MaxEntries \/ \A c \in Children(s, k) : \E i \in 1 .. Len(rows) : rows[i].path = c

LEMMA RowFacts ==
    ASSUME NEW s, NEW row \in RowsOf(s) PROVE row.what # "source"
<1>1. PICK l \in 1 .. Len(Archive) : row = RowOf(s, l)
  BY DEF RowsOf
<1>2. Archive[l] \in [path : Seq(STRING), kind : Files!Kinds]
  BY ArchiveAssumption, ElementOfSeq DEF ArchiveAssumption
<1>3. QED
  BY <1>1, <1>2 DEF RowOf, Files!Kinds

LEMMA AddedFile ==
    ASSUME NEW s, NEW rows, NEW k \in Nat, k + 1 \in 1 .. Len(Archive), RowsAfter(s, rows, k)
    PROVE  RowsAfter(s, Files!AddFile(s, rows, Archive[k + 1]), k + 1)
<1> DEFINE l == k + 1
           n == Len(rows)
           row == RowOf(s, l)
           new == /\ Lies(s, l) /\ n < MaxEntries
                  /\ \A i \in DOMAIN rows : rows[i].path # ChildPath(s, l)
           then == Files!AddFile(s, rows, Archive[l])
<1>1. then = IF new THEN Append(rows, row) ELSE rows
  BY DEF Files!AddFile, Files!ArchivePath, Lies, Here, RowOf, ChildPath
<1>2. /\ rows \in Seq(RowsOf(s)) /\ n \in Nat /\ DOMAIN rows = 1 .. n /\ n <= MaxEntries
      /\ MaxEntries \in Nat
  BY ArchiveAssumption DEF RowsAfter, ArchiveAssumption
<1>3. /\ \A i, j \in 1 .. n : rows[i].path = rows[j].path => i = j
      /\ \A i \in 1 .. n : rows[i].path \in Children(s, k)
      /\ n = MaxEntries \/ \A c \in Children(s, k) : \E i \in 1 .. n : rows[i].path = c
  BY DEF RowsAfter
<1>4. Children(s, l) = IF Lies(s, l) THEN Children(s, k) \cup {ChildPath(s, l)} ELSE Children(s, k)
  <2>1. \A x : x \in 1 .. l <=> x \in 1 .. k \/ x = l
    OBVIOUS
  <2>2. QED
    BY <2>1 DEF Children
<1>5. row \in RowsOf(s) /\ row.path = ChildPath(s, l)
  BY DEF RowsOf, RowOf
<1> HIDE DEF row, then, n, l
<1>6. CASE new
  <2> DEFINE more == Append(rows, row)
  <2>1. /\ more \in Seq(RowsOf(s)) /\ Len(more) = n + 1 /\ more[n + 1] = row
        /\ \A i \in 1 .. n : more[i] = rows[i]
    BY <1>2, <1>5 DEF n
  <2> HIDE DEF more
  <2>2. \A i \in 1 .. n + 1 : i = n + 1 \/ i \in 1 .. n
    BY <1>2
  <2>3. \A i, j \in 1 .. n + 1 : more[i].path = more[j].path => i = j
    BY <1>2, <1>3, <1>5, <1>6, <2>1, <2>2
  <2>4. \A i \in 1 .. n + 1 : more[i].path \in Children(s, l)
    BY <1>3, <1>4, <1>5, <1>6, <2>1, <2>2
  <2>5. n + 1 <= MaxEntries
    BY <1>2, <1>6
  <2>6. ASSUME NEW c \in Children(s, l) PROVE \E i \in 1 .. n + 1 : more[i].path = c
    <3>1. CASE c = ChildPath(s, l)
      BY <1>2, <1>5, <2>1, <3>1
    <3>2. CASE c \in Children(s, k)
      <4>1. PICK i \in 1 .. n : rows[i].path = c
        BY <1>2, <1>3, <1>6, <3>2
      <4>2. QED
        BY <1>2, <2>1, <4>1
    <3>3. QED
      BY <1>4, <3>1, <3>2
  <2>7. RowsAfter(s, more, l)
    BY <2>1, <2>3, <2>4, <2>5, <2>6 DEF RowsAfter
  <2>8. QED
    BY <1>1, <1>6, <2>7 DEF more, then, l
<1>7. CASE ~new
  <2>1. \A i \in 1 .. n : rows[i].path \in Children(s, l)
    BY <1>3, <1>4
  <2>2. n = MaxEntries \/ \A c \in Children(s, l) : \E i \in 1 .. n : rows[i].path = c
    <3>1. SUFFICES ASSUME n # MaxEntries, NEW c \in Children(s, l)
                   PROVE  \E i \in 1 .. n : rows[i].path = c
      OBVIOUS
    <3>2. CASE c \in Children(s, k)
      BY <1>3, <3>1, <3>2
    <3>3. CASE c \notin Children(s, k)
      <4>1. Lies(s, l) /\ c = ChildPath(s, l) /\ n < MaxEntries
        BY <1>2, <1>4, <3>1, <3>3
      <4>2. QED
        BY <1>2, <1>7, <4>1
    <3>4. QED
      BY <3>2, <3>3
  <2>3. RowsAfter(s, rows, l)
    BY <1>2, <1>3, <2>1, <2>2 DEF RowsAfter, n
  <2>4. QED
    BY <1>1, <1>7, <2>3 DEF then, l
<1>8. QED
  BY <1>6, <1>7

(* The scan of the archive has such rows after every file.                 *)
Scanned(s, m, g) ==
    /\ g = [k \in 0 .. m |-> g[k]]
    /\ g[0] = <<>>
    /\ \A k \in 1 .. m : g[k] = Files!AddFile(s, g[k - 1], Archive[k])

LEMMA ScanExists ==
    ASSUME NEW s, NEW n \in Nat PROVE \E g : Scanned(s, n, g)
<1> DEFINE Bad == {m \in Nat : ~\E g : Scanned(s, m, g)}
<1> SUFFICES ASSUME Bad # {} PROVE FALSE
  OBVIOUS
<1>1. PICK m \in Bad : \A l \in Bad : m <= l
  <2>1. Bad \subseteq Nat
    OBVIOUS
  <2>2. QED
    BY <2>1, LeastOfNaturals
<1>2. CASE m = 0
  <2>1. Scanned(s, 0, [k \in 0 .. 0 |-> <<>>])
    BY DEF Scanned
  <2>2. QED
    BY <1>1, <1>2, <2>1
<1>3. CASE m # 0
  <2>1. m - 1 \in Nat /\ m - 1 \notin Bad /\ m \in Nat
    BY <1>1, <1>3
  <2>2. PICK g : Scanned(s, m - 1, g)
    BY <2>1
  <2> DEFINE h == [k \in 0 .. m |-> IF k = m THEN Files!AddFile(s, g[m - 1], Archive[m]) ELSE g[k]]
  <2>3. h = [k \in 0 .. m |-> h[k]] /\ h[0] = <<>>
    BY <1>3, <2>1, <2>2 DEF Scanned
  <2>4. ASSUME NEW k \in 1 .. m PROVE h[k] = Files!AddFile(s, h[k - 1], Archive[k])
    <3>1. k - 1 \in 0 .. m /\ k - 1 # m /\ h[k - 1] = g[k - 1]
      BY <2>1
    <3>2. CASE k = m
      BY <2>1, <3>1, <3>2
    <3>3. CASE k # m
      <4>1. k \in 1 .. m - 1 /\ h[k] = g[k]
        BY <2>1, <3>3
      <4>2. g[k] = Files!AddFile(s, g[k - 1], Archive[k])
        BY <2>2, <4>1 DEF Scanned
      <4>3. QED
        BY <3>1, <4>1, <4>2
    <3>4. QED
      BY <3>2, <3>3
  <2>5. Scanned(s, m, h)
    <3> HIDE DEF h
    <3>1. QED
      BY <2>3, <2>4 DEF Scanned
  <2>6. QED
    BY <1>1, <2>5
<1>4. QED
  BY <1>2, <1>3

LEMMA ScanIs ==
    ASSUME NEW s PROVE \E g : Scanned(s, Len(Archive), g) /\ Files!ArchiveRows(s) = g[Len(Archive)]
<1> DEFINE N == Len(Archive)
           Recursion(p) == p = [k \in 0 .. N |-> IF k = 0 THEN <<>>
                                                ELSE Files!AddFile(s, p[k - 1], Archive[k])]
           P == CHOOSE p : Recursion(p)
<1>1. N \in Nat
  BY ArchiveAssumption DEF ArchiveAssumption
<1>2. PICK g : Scanned(s, N, g)
  BY <1>1, ScanExists
<1>3. Recursion(g)
  <2>1. \A k \in 0 .. N : g[k] = IF k = 0 THEN <<>> ELSE Files!AddFile(s, g[k - 1], Archive[k])
    <3>1. g[0] = <<>> /\ \A k \in 1 .. N : g[k] = Files!AddFile(s, g[k - 1], Archive[k])
      BY <1>2 DEF Scanned
    <3>2. \A k \in 0 .. N : k = 0 \/ (k # 0 /\ k \in 1 .. N)
      BY <1>1
    <3>3. QED
      BY <3>1, <3>2
  <2>2. g = [k \in 0 .. N |-> g[k]]
    BY <1>2 DEF Scanned
  <2>3. QED
    BY <2>1, <2>2
<1>4. Files!ArchiveRows(s) = P[N]
  BY DEF Files!ArchiveRows
<1>5. Recursion(P)
  <2> HIDE DEF Recursion
  <2>1. QED
    BY <1>3
<1>6. P = [k \in 0 .. N |-> IF k = 0 THEN <<>> ELSE Files!AddFile(s, P[k - 1], Archive[k])]
  BY <1>5
<1> HIDE DEF P
<1>7. Scanned(s, N, P)
  <2>1. DOMAIN P = 0 .. N
    BY <1>6
  <2>2. \A k \in 0 .. N : P[k] = IF k = 0 THEN <<>> ELSE Files!AddFile(s, P[k - 1], Archive[k])
    BY <1>6
  <2>3. P = [k \in 0 .. N |-> P[k]]
    BY <1>6, <2>1
  <2>4. \A k \in 1 .. N : k \in 0 .. N /\ k # 0
    BY <1>1
  <2>5. \A k \in 1 .. N : P[k] = Files!AddFile(s, P[k - 1], Archive[k])
    BY <2>2, <2>4
  <2>6. 0 \in 0 .. N
    BY <1>1
  <2>7. QED
    BY <2>2, <2>3, <2>5, <2>6 DEF Scanned
<1>8. QED
  BY <1>4, <1>7

LEMMA RowsScanned ==
    ASSUME NEW s PROVE RowsAfter(s, Files!ArchiveRows(s), Len(Archive))
<1> DEFINE N == Len(Archive)
<1>1. N \in Nat /\ MaxEntries \in Nat
  BY ArchiveAssumption DEF ArchiveAssumption
<1>2. PICK g : Scanned(s, N, g) /\ Files!ArchiveRows(s) = g[N]
  BY ScanIs
<1> DEFINE Bad == {m \in 0 .. N : ~RowsAfter(s, g[m], m)}
<1>3. SUFFICES ASSUME Bad # {} PROVE FALSE
  BY <1>1, <1>2
<1>4. PICK m \in Bad : \A l \in Bad : m <= l
  <2>1. Bad \subseteq Nat
    BY <1>1
  <2>2. QED
    BY <1>3, <2>1, LeastOfNaturals
<1>5. CASE m = 0
  <2>1. g[0] = <<>> /\ Children(s, 0) = {}
    <3>1. g[0] = <<>>
      BY <1>2 DEF Scanned
    <3>2. \A x : x \notin 1 .. 0
      OBVIOUS
    <3>3. QED
      BY <3>1, <3>2 DEF Children
  <2>2. RowsAfter(s, <<>>, 0)
    BY <1>1, <2>1 DEF RowsAfter
  <2>3. QED
    BY <1>4, <1>5, <2>1, <2>2
<1>6. CASE m # 0
  <2>1. m - 1 \in Nat /\ m - 1 \in 0 .. N /\ m - 1 \notin Bad /\ (m - 1) + 1 = m /\ m \in 1 .. N
    BY <1>1, <1>4, <1>6
  <2>2. RowsAfter(s, g[m - 1], m - 1)
    BY <2>1
  <2>3. RowsAfter(s, Files!AddFile(s, g[m - 1], Archive[m]), m)
    BY <2>1, <2>2, AddedFile
  <2>4. g[m] = Files!AddFile(s, g[m - 1], Archive[m])
    BY <1>2, <2>1 DEF Scanned
  <2>5. QED
    BY <1>4, <2>3, <2>4
<1>7. QED
  BY <1>5, <1>6

-----------------------------------------------------------------------------
(* What RowsAreThePlace says of rows that are not those of the root; it    *)
(* depends on place and path alone.                                        *)
RowsRight(place, path, rows) ==
    LET shownPaths == {rows[i].path : i \in DOMAIN rows}
        children == Files!ChildrenOf(Files!PlacePrefix(place) \o path, place)
    IN  /\ Len(rows) \in Nat /\ \A i \in DOMAIN rows : rows[i].what # "source"
        /\ shownPaths \subseteq children /\ Files!Cardinality(shownPaths) = Len(rows)
        /\ Len(rows) = Files!Min({MaxEntries, Files!Cardinality(children)})

LEMMA SameCardinalityOfFiles ==
    ASSUME NEW S PROVE Files!Cardinality(S) = Cardinality(S)
BY DEF Files!Cardinality, Cardinality, Files!IsFiniteSet, IsFiniteSet

LEMMA AllChildren ==
    ASSUME NEW s
    PROVE  Files!ChildrenOf(Here(s), s.sidebar) = Children(s, Len(Archive))
<1> DEFINE N == Len(Archive)
<1>1. Files!Range(Archive) = {Archive[l] : l \in 1 .. N}
  BY ArchiveAssumption DEF ArchiveAssumption, Files!Range
<1>2. \A x : x \in Files!ChildrenOf(Here(s), s.sidebar) <=>
                \E l \in 1 .. N : Lies(s, l) /\ x = ChildPath(s, l)
  BY <1>1 DEF Files!ChildrenOf, Lies, ChildPath
<1>3. \A x : x \in Children(s, N) <=> \E l \in 1 .. N : Lies(s, l) /\ x = ChildPath(s, l)
  BY DEF Children
<1>4. QED
  BY <1>2, <1>3

LEMMA ArchiveRowsRight ==
    ASSUME NEW s PROVE RowsRight(s.sidebar, s.path, Files!ArchiveRows(s))
<1> DEFINE N == Len(Archive)
           rows == Files!ArchiveRows(s)
           n == Len(rows)
           paths == {rows[i].path : i \in DOMAIN rows}
           children == Children(s, N)
           f == [i \in 1 .. n |-> rows[i].path]
           h == [l \in {x \in 1 .. N : Lies(s, x)} |-> ChildPath(s, l)]
<1>1. N \in Nat /\ MaxEntries \in Nat
  BY ArchiveAssumption DEF ArchiveAssumption
<1>2. RowsAfter(s, rows, N)
  BY RowsScanned
<1>3. rows \in Seq(RowsOf(s)) /\ n \in Nat /\ DOMAIN rows = 1 .. n /\ n <= MaxEntries
  BY <1>2 DEF RowsAfter
<1>4. \A i \in DOMAIN rows : rows[i] \in RowsOf(s)
  BY <1>3, ElementOfSeq
<1>5. \A i \in DOMAIN rows : rows[i].what # "source"
  BY <1>4, RowFacts
<1>6. paths \subseteq children
  BY <1>2, <1>3 DEF RowsAfter
<1> HIDE DEF rows
<1>7. IsFiniteSet(1 .. n) /\ Cardinality(1 .. n) = n
  BY <1>3, FS_Interval
<1>8. f \in Bijection(1 .. n, paths)
  <2>1. f \in Injection(1 .. n, paths)
    BY <1>2, <1>3 DEF RowsAfter, Injection, IsInjective, rows
  <2>2. f \in Surjection(1 .. n, paths)
    BY <1>3 DEF Surjection
  <2>3. QED
    BY <2>1, <2>2 DEF Bijection
<1>9. IsFiniteSet(paths) /\ Cardinality(paths) = n
  BY <1>7, <1>8, FS_Bijection DEF ExistsBijection
<1>10. IsFiniteSet(children)
  <2>1. IsFiniteSet({x \in 1 .. N : Lies(s, x)})
    <3>1. IsFiniteSet(1 .. N) /\ {x \in 1 .. N : Lies(s, x)} \in SUBSET (1 .. N)
      BY <1>1, FS_Interval
    <3>2. QED
      BY <3>1, FS_Subset
  <2>2. h \in Surjection({x \in 1 .. N : Lies(s, x)}, children)
    BY DEF Surjection, Children
  <2>3. QED
    BY <2>1, <2>2, FS_Surjection
<1>11. Cardinality(children) \in Nat /\ n <= Cardinality(children)
  BY <1>6, <1>9, <1>10, FS_CardinalityType, FS_Subset
<1>12. n = MaxEntries \/ n = Cardinality(children)
  <2>1. CASE n # MaxEntries
    <3>1. \A c \in children : \E i \in 1 .. n : rows[i].path = c
      BY <1>2, <2>1 DEF RowsAfter, rows
    <3>2. children = paths
      BY <1>3, <1>6, <3>1
    <3>3. QED
      BY <1>9, <3>2
  <2>2. QED
    BY <2>1
<1>13. n = Files!Min({MaxEntries, Cardinality(children)})
  <2> DEFINE c == Cardinality(children)
  <2>1. /\ MaxEntries \in Nat /\ c \in Nat /\ n \in Nat /\ n <= c /\ n <= MaxEntries
        /\ n = MaxEntries \/ n = c
    BY <1>1, <1>3, <1>11, <1>12
  <2> HIDE DEF c, n
  <2>2. Files!Min({MaxEntries, c}) = n
    BY <2>1 DEF Files!Min
  <2>3. QED
    BY <2>2 DEF c
<1>14. Files!ChildrenOf(Files!PlacePrefix(s.sidebar) \o s.path, s.sidebar) = children
  BY AllChildren DEF Here
<1> HIDE DEF paths, children, n, N
<1>15. /\ n \in Nat /\ paths \subseteq children /\ Files!Cardinality(paths) = n
       /\ n = Files!Min({MaxEntries, Files!Cardinality(children)})
  BY <1>3, <1>6, <1>9, <1>13, SameCardinalityOfFiles
<1>16. QED
  BY <1>5, <1>14, <1>15 DEF RowsRight, rows, paths, n

-----------------------------------------------------------------------------
Sources == {Files!LiveMedia} \cup {Files!ArchiveOf(p) : p \in STRING}
           \cup {Files!Unsupported(p) : p \in STRING}
SourceRows == {Files!SourceRow(source) : source \in Sources}

FileFields == {"sidebar", "root", "source", "path", "entries", "scroll", "selected",
               "buffer", "preview", "live"}

AtRoot(f) == f.sidebar = "THIS_PC" /\ f.root

(* The rows are those of the place, also after a source that could not be  *)
(* opened: then the root is still shown.                                   *)
FilesOk(f) ==
    /\ DOMAIN f = FileFields
    /\ AtRoot(f) => f.entries \in Seq(SourceRows)
    /\ ~AtRoot(f) => IF Files!Mounted(f) THEN RowsRight(f.sidebar, f.path, f.entries)
                     ELSE f.entries = <<>>
    /\ f.scroll \in Nat /\ (f.scroll = 0 \/ f.scroll < Len(f.entries))
    /\ f.preview = "buffer" => f.buffer

LEMMA RootRowsAreSources ==
    ASSUME NEW s PROVE Files!RootRows(s) \in Seq(SourceRows)
<1> DEFINE first == IF s.live THEN <<Files!SourceRow(Files!LiveMedia)>> ELSE <<>>
           others == [i \in DOMAIN Partition |->
                        Files!SourceRow(Files!PartitionSource(Partition[i]))]
<1>1. Partition \in Seq(STRING) /\ Len(Partition) \in Nat /\ DOMAIN Partition = 1 .. Len(Partition)
  BY ArchiveAssumption DEF ArchiveAssumption
<1>2. \A i \in DOMAIN Partition : Partition[i] \in STRING
  BY <1>1, ElementOfSeq
<1>3. \A p \in STRING : Files!PartitionSource(p) \in Sources
  BY DEF Files!PartitionSource, Sources
<1>4. Files!LiveMedia \in Sources
  BY DEF Sources
<1>5. first \in Seq(SourceRows)
  <2>1. Files!SourceRow(Files!LiveMedia) \in SourceRows
    BY <1>4 DEF SourceRows
  <2> DEFINE row == Files!SourceRow(Files!LiveMedia)
  <2> HIDE DEF row
  <2>2. row \in SourceRows => <<row>> \in Seq(SourceRows)
    OBVIOUS
  <2>3. <<>> \in Seq(SourceRows)
    OBVIOUS
  <2>4. QED
    BY <2>1, <2>2, <2>3 DEF row
<1>6. others \in Seq(SourceRows)
  <2>1. others \in [1 .. Len(Partition) -> SourceRows]
    BY <1>1, <1>2, <1>3 DEF SourceRows
  <2> HIDE DEF others
  <2>2. QED
    BY <1>1, <2>1, SeqDef
<1>7. Files!RootRows(s) = first \o others
  BY DEF Files!RootRows
<1> HIDE DEF first, others
<1>8. QED
  BY <1>5, <1>6, <1>7, ConcatProperties

LEMMA Refreshed ==
    ASSUME NEW s, DOMAIN s = FileFields, s.preview = "buffer" => s.buffer
    PROVE  FilesOk(Files!RefreshEntries(s))
<1> DEFINE f == Files!RefreshEntries(s)
           entries == CASE s.sidebar = "THIS_PC" /\ s.root -> Files!RootRows(s)
                        [] ~(s.sidebar = "THIS_PC" /\ s.root) /\ Files!Mounted(s) -> Files!ArchiveRows(s)
                        [] OTHER -> <<>>
<1>1. f = [s EXCEPT !.scroll = 0, !.selected = 1, !.entries = entries]
  BY DEF Files!RefreshEntries
<1>2. /\ DOMAIN f = FileFields /\ f.sidebar = s.sidebar /\ f.root = s.root /\ f.source = s.source
      /\ f.path = s.path /\ f.buffer = s.buffer /\ f.preview = s.preview /\ f.live = s.live
      /\ f.scroll = 0 /\ f.entries = entries
  BY <1>1 DEF FileFields
<1>3. Files!Mounted(f) <=> Files!Mounted(s)
  BY <1>2 DEF Files!Mounted
<1>4. AtRoot(s) => entries = Files!RootRows(s)
  BY DEF AtRoot
<1>5. ~AtRoot(s) => entries = IF Files!Mounted(s) THEN Files!ArchiveRows(s) ELSE <<>>
  BY DEF AtRoot
<1>6. AtRoot(f) <=> AtRoot(s)
  BY <1>2 DEF AtRoot
<1> HIDE DEF f, entries
<1>7. FilesOk(f)
  BY <1>2, <1>3, <1>4, <1>5, <1>6, RootRowsAreSources, ArchiveRowsRight DEF FilesOk
<1>8. QED
  BY <1>7 DEF f

(* What opening a source leaves alone, and what it releases.               *)
LEMMA Opened ==
    ASSUME NEW s, DOMAIN s = FileFields, NEW source \in Sources,
           NEW r \in Files!OpenSource(s, source)
    PROVE  /\ DOMAIN r.state = FileFields /\ r.state.preview = "none"
           /\ r.state.sidebar = s.sidebar /\ r.state.root = s.root
           /\ r.state.entries = s.entries /\ r.state.scroll = s.scroll
<1> DEFINE bare == [s EXCEPT !.preview = "none", !.buffer = FALSE, !.source = Files!NoSource, !.path = <<>>]
           Keeps(x) == /\ DOMAIN x = FileFields /\ x.preview = "none"
                       /\ x.sidebar = s.sidebar /\ x.root = s.root
                       /\ x.entries = s.entries /\ x.scroll = s.scroll
<1>1. Keeps(bare)
  BY DEF FileFields
<1>2. Keeps([bare EXCEPT !.source = source])
  BY DEF FileFields
<1>3. Keeps([[bare EXCEPT !.source = source] EXCEPT !.buffer = TRUE])
  BY DEF FileFields
<1> HIDE DEF bare, Keeps
<1>4. \E x : r.state = x /\ Keeps(x)
  <2> DEFINE opened == [state |-> [bare EXCEPT !.source = source], done |-> TRUE]
             failed == [state |-> bare, done |-> FALSE]
             more == [opened EXCEPT !.state.buffer = TRUE]
  <2>1. source = Files!LiveMedia \/ source.kind = "UNSUPPORTED_PARTITION"
        \/ (source # Files!LiveMedia /\ source.kind = "PARTITION_ARCHIVE")
    BY DEF Sources, Files!ArchiveOf, Files!Unsupported, Files!LiveMedia
  <2>2. Files!LiveMedia.kind = "LIVE_MEDIA"
    BY DEF Files!LiveMedia
  <2>3. r \in {opened, failed, more}
    BY <2>1, <2>2 DEF Files!OpenSource, bare
  <2>4. opened.state = [bare EXCEPT !.source = source] /\ failed.state = bare
    OBVIOUS
  <2>5. more.state = [[bare EXCEPT !.source = source] EXCEPT !.buffer = TRUE]
    OBVIOUS
  <2> HIDE DEF opened, failed, more
  <2>6. QED
    BY <1>1, <1>2, <1>3, <2>3, <2>4, <2>5
<1>5. QED
  BY <1>4 DEF Keeps

LEMMA SelectSidebarStep ==
    ASSUME FilesOk(fm), NEW place \in Files!Sidebar, fm' \in Files!SelectSidebar(fm, place)
    PROVE  FilesOk(fm')
<1> DEFINE there == [fm EXCEPT !.sidebar = place, !.path = <<>>, !.root = (place = "THIS_PC")]
<1>1. DOMAIN there = FileFields /\ (there.preview = "buffer" => there.buffer)
  BY DEF FilesOk, FileFields
<1>2. Files!LiveMedia \in Sources
  BY DEF Sources
<1> HIDE DEF there
<1>3. \/ fm' = Files!RefreshEntries(there)
      \/ \E r \in Files!OpenSource(there, Files!LiveMedia) : fm' = Files!RefreshEntries(r.state)
  BY DEF Files!SelectSidebar, there
<1>4. ASSUME NEW r \in Files!OpenSource(there, Files!LiveMedia)
      PROVE  FilesOk(Files!RefreshEntries(r.state))
  <2>1. DOMAIN r.state = FileFields /\ r.state.preview = "none"
    BY <1>1, <1>2, <1>4, Opened
  <2>2. QED
    BY <2>1, Refreshed
<1>5. QED
  BY <1>1, <1>3, <1>4, Refreshed

LEMMA PageStep ==
    ASSUME FilesOk(fm), NEW visible \in Nat,
           fm' = Files!Prev(fm, visible) \/ fm' = Files!NextPage(fm, visible)
    PROVE  FilesOk(fm')
<1>1. PICK scroll \in Nat : /\ fm' = [fm EXCEPT !.scroll = scroll]
                            /\ scroll = 0 \/ scroll < Len(fm.entries)
  <2> DEFINE n == Len(fm.entries)
             at == fm.scroll
  <2>1. DOMAIN fm = FileFields /\ at \in Nat /\ (at = 0 \/ (at < n /\ n \in Nat))
    <3>1. AtRoot(fm) => n \in Nat
      BY DEF FilesOk
    <3>2. ~AtRoot(fm) => n \in Nat
      BY DEF FilesOk, RowsRight
    <3>3. QED
      BY <3>1, <3>2 DEF FilesOk
  <2>2. CASE fm' = Files!Prev(fm, visible)
    <3> DEFINE next == IF at >= visible THEN at - visible ELSE 0
    <3>1. fm' = [fm EXCEPT !.scroll = next]
      BY <2>2 DEF Files!Prev
    <3>2. next \in Nat /\ (next = 0 \/ next < n)
      <4> HIDE DEF n, at
      <4>1. QED
        BY <2>1
    <3>3. QED
      BY <3>1, <3>2
  <2>3. CASE fm' = Files!NextPage(fm, visible)
    <3> DEFINE next == IF at + visible < n THEN at + visible ELSE at
    <3>1. fm' = [fm EXCEPT !.scroll = next]
      BY <2>3 DEF Files!NextPage
    <3>2. next \in Nat /\ (next = 0 \/ next < n)
      <4> HIDE DEF n, at
      <4>1. QED
        BY <2>1
    <3>3. QED
      BY <3>1, <3>2
  <2>4. QED
    BY <2>2, <2>3
<1>2. /\ DOMAIN fm' = FileFields /\ fm'.sidebar = fm.sidebar /\ fm'.root = fm.root
      /\ fm'.source = fm.source /\ fm'.path = fm.path /\ fm'.buffer = fm.buffer
      /\ fm'.preview = fm.preview /\ fm'.live = fm.live /\ fm'.entries = fm.entries
      /\ fm'.scroll = scroll
  BY <1>1 DEF FilesOk, FileFields
<1>3. (AtRoot(fm') <=> AtRoot(fm)) /\ (Files!Mounted(fm') <=> Files!Mounted(fm))
  BY <1>2 DEF AtRoot, Files!Mounted
<1>4. QED
  BY <1>1, <1>2, <1>3 DEF FilesOk

LEMMA UpStep ==
    ASSUME FilesOk(fm), fm' = Files!Up(fm)
    PROVE  FilesOk(fm')
<1>1. DOMAIN fm = FileFields /\ (fm.preview = "buffer" => fm.buffer)
  BY DEF FilesOk
<1>2. \A path : LET up == [fm EXCEPT !.path = path]
                IN  DOMAIN up = FileFields /\ (up.preview = "buffer" => up.buffer)
  BY <1>1 DEF FileFields
<1>3. LET top == [fm EXCEPT !.root = TRUE]
      IN  DOMAIN top = FileFields /\ (top.preview = "buffer" => top.buffer)
  BY <1>1 DEF FileFields
<1>4. \/ fm' = fm
      \/ \E path : fm' = Files!RefreshEntries([fm EXCEPT !.path = path])
      \/ fm' = Files!RefreshEntries([fm EXCEPT !.root = TRUE])
  BY DEF Files!Up
<1>5. QED
  BY <1>2, <1>3, <1>4, Refreshed

LEMMA ActivateEntryStep ==
    ASSUME FilesOk(fm), NEW n \in DOMAIN fm.entries, fm' \in Files!ActivateEntry(fm, n)
    PROVE  FilesOk(fm')
<1> DEFINE row == fm.entries[n]
           at == [fm EXCEPT !.selected = n]
<1>1. /\ DOMAIN at = FileFields /\ at.sidebar = fm.sidebar /\ at.root = fm.root
      /\ at.source = fm.source /\ at.path = fm.path /\ at.buffer = fm.buffer
      /\ at.preview = fm.preview /\ at.live = fm.live /\ at.entries = fm.entries
      /\ at.scroll = fm.scroll
  BY DEF FilesOk, FileFields
<1>2. CASE row.what = "source"
  <2>1. AtRoot(fm) /\ fm.entries \in Seq(SourceRows)
    BY <1>2 DEF FilesOk, RowsRight
  <2>2. row \in SourceRows
    BY <2>1, ElementOfSeq
  <2>3. row.source \in Sources
    BY <2>2 DEF SourceRows, Files!SourceRow
  <2> HIDE DEF at
  <2>4. PICK r \in Files!OpenSource(at, row.source) :
           fm' = IF r.done THEN Files!RefreshEntries([r.state EXCEPT !.root = FALSE]) ELSE r.state
    BY <1>2 DEF Files!ActivateEntry, at
  <2>5. /\ DOMAIN r.state = FileFields /\ r.state.preview = "none"
        /\ r.state.sidebar = at.sidebar /\ r.state.root = at.root
        /\ r.state.entries = at.entries /\ r.state.scroll = at.scroll
    BY <1>1, <2>3, <2>4, Opened
  <2>6. CASE r.done
    <3>1. DOMAIN [r.state EXCEPT !.root = FALSE] = FileFields
          /\ [r.state EXCEPT !.root = FALSE].preview = "none"
      BY <2>5 DEF FileFields
    <3>2. QED
      BY <2>4, <2>6, <3>1, Refreshed
  <2>7. CASE ~r.done
    <3>1. AtRoot(r.state)
      BY <1>1, <2>1, <2>5 DEF AtRoot
    <3>2. FilesOk(r.state)
      BY <1>1, <2>1, <2>5, <3>1 DEF FilesOk
    <3>3. QED
      BY <2>4, <2>7, <3>2
  <2>8. QED
    BY <2>6, <2>7
<1>3. CASE row.what = "folder"
  <2> DEFINE s == [at EXCEPT !.root = FALSE, !.path = row.path]
  <2>1. fm' = Files!RefreshEntries(s)
    BY <1>3 DEF Files!ActivateEntry
  <2>2. DOMAIN s = FileFields /\ (s.preview = "buffer" => s.buffer)
    BY <1>1 DEF FilesOk, FileFields
  <2> HIDE DEF s
  <2>3. QED
    BY <2>1, <2>2, Refreshed
<1>4. CASE row.what \notin {"source", "folder"}
  <2>1. fm' = Files!OpenFile(at, row)
    BY <1>4 DEF Files!ActivateEntry
  <2> HIDE DEF at
  <2>2. fm' = at \/ fm' = [at EXCEPT !.preview = IF at.buffer THEN "buffer" ELSE "live"]
    BY <2>1 DEF Files!OpenFile
  <2>3. /\ DOMAIN fm' = FileFields /\ fm'.sidebar = fm.sidebar /\ fm'.root = fm.root
        /\ fm'.source = fm.source /\ fm'.path = fm.path /\ fm'.buffer = fm.buffer
        /\ fm'.live = fm.live /\ fm'.entries = fm.entries /\ fm'.scroll = fm.scroll
        /\ fm'.preview = "buffer" => fm'.buffer
    BY <1>1, <2>2 DEF FilesOk, FileFields
  <2>4. (AtRoot(fm') <=> AtRoot(fm)) /\ (Files!Mounted(fm') <=> Files!Mounted(fm))
    BY <2>3 DEF AtRoot, Files!Mounted
  <2>5. QED
    BY <2>3, <2>4 DEF FilesOk
<1>5. QED
  BY <1>2, <1>3, <1>4

LEMMA FilesStep ==
    ASSUME FilesOk(fm), [Files!FileManagerNext]_filesVars
    PROVE  FilesOk(fm')
<1>1. CASE UNCHANGED filesVars
  BY <1>1 DEF filesVars
<1>2. CASE Files!FileManagerNext
  <2>1. PICK visible \in RowsVisible :
           \/ \E place \in Files!Sidebar : fm' \in Files!SelectSidebar(fm, place)
           \/ fm' = Files!Prev(fm, visible)
           \/ fm' = Files!NextPage(fm, visible)
           \/ fm' = Files!Up(fm)
           \/ \E n \in DOMAIN fm.entries : fm' \in Files!ActivateEntry(fm, n)
    BY <1>2 DEF Files!FileManagerNext
  <2>2. visible \in Nat
    BY ArchiveAssumption DEF ArchiveAssumption
  <2>3. QED
    BY <2>1, <2>2, SelectSidebarStep, PageStep, UpStep, ActivateEntryStep
<1>3. QED
  BY <1>1, <1>2

(* However the user has come to a place, the rows are its children, each   *)
(* once and as many as there is room for; the page in sight has rows; a    *)
(* previewed picture lies in memory that is still mounted                  *)
(* (file_manager_refresh_entries, file_manager_open_source).               *)
THEOREM RowsAreOfThePlace == Spec => []RowsAreThePlace
<1>1. Init => FilesOk(fm)
  <2> SUFFICES ASSUME Files!FileManagerInit PROVE FilesOk(fm)
    BY DEF Init
  <2>1. PICK s : /\ DOMAIN s = FileFields /\ s.preview = "none"
                 /\ fm = Files!RefreshEntries(s)
    <3>1. PICK live \in BOOLEAN :
            LET bare == [sidebar |-> "THIS_PC", root |-> TRUE, source |-> Files!NoSource,
                         path |-> <<>>, entries |-> <<>>, scroll |-> 0, selected |-> 1,
                         buffer |-> FALSE, preview |-> "none", live |-> live]
            IN  fm = Files!RefreshEntries(IF live THEN [bare EXCEPT !.source = Files!LiveMedia]
                                          ELSE bare)
      BY DEF Files!FileManagerInit
    <3> DEFINE bare == [sidebar |-> "THIS_PC", root |-> TRUE, source |-> Files!NoSource,
                        path |-> <<>>, entries |-> <<>>, scroll |-> 0, selected |-> 1,
                        buffer |-> FALSE, preview |-> "none", live |-> live]
    <3>2. DOMAIN bare = FileFields /\ bare.preview = "none"
      BY DEF FileFields
    <3>3. DOMAIN [bare EXCEPT !.source = Files!LiveMedia] = FileFields
          /\ [bare EXCEPT !.source = Files!LiveMedia].preview = "none"
      BY DEF FileFields
    <3> HIDE DEF bare
    <3>4. fm = Files!RefreshEntries(IF live THEN [bare EXCEPT !.source = Files!LiveMedia] ELSE bare)
      BY <3>1 DEF bare
    <3>5. QED
      BY <3>2, <3>3, <3>4
  <2>2. QED
    BY <2>1, Refreshed
<1>2. FilesOk(fm) /\ [Next]_partsVars => FilesOk(fm)'
  BY PartsMove, FilesStep
<1>3. FilesOk(fm) => RowsAreThePlace
  <2> SUFFICES ASSUME FilesOk(fm) PROVE Files!RowsAreThePlace
    BY DEF RowsAreThePlace
  <2>1. fm.scroll = 0 \/ fm.scroll < Len(fm.entries)
    BY DEF FilesOk
  <2>2. fm.preview = "buffer" => fm.buffer
    BY DEF FilesOk
  <2>3. ASSUME ~AtRoot(fm), Files!Mounted(fm)
        PROVE  RowsRight(fm.sidebar, fm.path, fm.entries)
    BY <2>3 DEF FilesOk
  <2>4. ASSUME ~AtRoot(fm), ~Files!Mounted(fm)
        PROVE  {fm.entries[i].path : i \in DOMAIN fm.entries} = {}
    <3>1. fm.entries = <<>>
      BY <2>4 DEF FilesOk
    <3>2. QED
      BY <3>1
  <2>5. QED
    BY <2>1, <2>2, <2>3, <2>4 DEF Files!RowsAreThePlace, RowsRight, AtRoot, Files!ArchivePath
<1>4. QED
  BY <1>1, <1>2, <1>3, PTL DEF Spec
=============================================================================
