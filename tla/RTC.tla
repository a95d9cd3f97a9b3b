-------------------------------- MODULE RTC --------------------------------
(***************************************************************************)
(* The real-time clock and its two readers in kmain: RTC_get_date_time,    *)
(* which reads six registers one after the other, and set_ascii, which     *)
(* reads the hour again for every comparison.  Every read first waits for  *)
(* the update flag to be clear; the clock goes on between any two steps.   *)
(* The clock is in BCD and 24-hour mode, which the code assumes.  That an  *)
(* interrupt replaces the index sent to port 0x70 is not modelled: which   *)
(* interrupts can is ByteSurvives of Interrupts.                           *)
(***************************************************************************)
EXTENDS Integers, Sequences, Functions

CONSTANTS
    Seconds, Minutes,   \* seconds per minute, minutes per hour (60)
    Days, Months,       \* days per month, months per year
    MaxUpdates          \* bound: seconds that pass

\* No day is the only one of its month.
ASSUME CalendarAssumption ==
    /\ Seconds \in 1..60 /\ Minutes \in 1..60
    /\ Days \in 2..31 /\ Months \in 1..12
    /\ MaxUpdates \in Nat

VARIABLES
    now,        \* the clock's registers, as numbers
    updates,    \* (history) seconds passed
    updating,   \* the update flag: the clock is about to change its registers
    at,         \* the read in progress, or "between" the two calls, or "idle"
    phase,      \* "poll" the flag, or "fetch" the register
    date_time,  \* what RTC_get_date_time has read
    said,       \* greetings sent
    past,       \* (history) parts of the day it has been since the call began
    monthEnded, dayEnded    \* (history) since the call began

clock == <<now, updates, updating>>
kernel == <<at, phase, date_time, said>>
history == <<past, monthEnded, dayEnded>>
vars == <<clock, kernel, history>>

Fields == {"day", "month", "year", "hour", "minute", "second"}

\* The registers in the order RTC_get_date_time reads them, and the same with
\* the time read from the second on.
OrderReversed == <<"day", "month", "year", "second", "minute", "hour">>
Order == <<"day", "month", "year", "hour", "minute", "second">>

\* The comparisons of set_ascii, each with a read of its own.
Tests == {"< 12", ">= 12", "< 18", ">= 18"}

PartOf(hour) ==
    IF hour < 12 THEN "morning" ELSE IF hour < 18 THEN "afternoon" ELSE "evening"

Bcd(n) == 16 * (n \div 10) + (n % 10)

\* The conversion of RTC_get_seconds and RTC_get_minutes.
Decimal(b) == (b % 16) + (b \div 16) * 10

\* The conversion of RTC_get_hours keeps bit 7.
HourOf(b) == Decimal(b % 128) + 128 * (b \div 128)

\* What RTC_get_date_time makes of register f.
Value(f) ==
    IF f = "hour" THEN HourOf(Bcd(now.hour))
    ELSE IF f \in {"minute", "second"} THEN Decimal(Bcd(now[f]))
    ELSE Bcd(now[f])

----------------------------------------------------------------------------
(* The clock *)

\* One second later.
Later(t) ==
    LET s == t.second + 1
        m == t.minute + s \div Seconds
        h == t.hour + m \div Minutes
        d == t.day + h \div 24
        o == t.month + (d - 1) \div Days
    IN  [second |-> s % Seconds, minute |-> m % Minutes, hour |-> h % 24,
         day |-> ((d - 1) % Days) + 1, month |-> ((o - 1) % Months) + 1,
         year |-> (t.year + (o - 1) \div Months) % 100]

UpdateBegins ==
    /\ ~updating /\ updates < MaxUpdates
    /\ updating' = TRUE
    /\ UNCHANGED <<now, updates, kernel, history>>

\* The registers change 244 microseconds or more after the flag: a register
\* selected while the flag was clear has been read by then.
UpdateEnds ==
    /\ updating /\ phase # "fetch"
    /\ updating' = FALSE
    /\ now' = Later(now) /\ updates' = updates + 1
    /\ past' = past \cup {PartOf(now'.hour)}
    /\ dayEnded' = (dayEnded \/ now'.day # now.day \/ now'.month # now.month)
    /\ monthEnded' = (monthEnded \/ now'.month # now.month \/ now'.year # now.year)
    /\ UNCHANGED kernel

----------------------------------------------------------------------------
(* The readers *)

Calendar ==
    [second : 0..Seconds - 1, minute : 0..Minutes - 1, hour : 0..23,
     day : 1..Days, month : 1..Months, year : 0..99]

Init ==
    /\ now \in Calendar /\ now.year = 99
    /\ updates = 0 /\ updating = FALSE
    /\ at = Order[1] /\ phase = "poll"
    /\ date_time = [f \in Fields |-> 0]
    /\ said = <<>>
    /\ past = {PartOf(now.hour)}
    /\ monthEnded = FALSE /\ dayEnded = FALSE

\* The flag without its mask: register A is never 0.
is_updatingUnmasked == TRUE

is_updating == updating

\* The loop of read, until the flag is seen clear.
Poll ==
    /\ at \in Fields \cup Tests /\ phase = "poll"
    /\ ~is_updating
    /\ phase' = "fetch"
    /\ UNCHANGED <<clock, at, date_time, said, history>>

\* The loop once more.
Spin == at \in Fields \cup Tests /\ phase = "poll" /\ is_updating /\ UNCHANGED vars

\* A read of RTC_get_date_time.
Fetch ==
    /\ phase = "fetch" /\ phase' = "poll"
    /\ \E i \in DOMAIN Order :
          /\ at = Order[i]
          /\ at' = IF i < Len(Order) THEN Order[i + 1] ELSE "between"
    /\ date_time' = [date_time EXCEPT ![at] = Value(at)]
    /\ UNCHANGED <<clock, said, history>>

\* kmain goes on to set_ascii.
CallGreeting ==
    /\ at = "between" /\ at' = "< 12"
    /\ past' = {PartOf(now.hour)}
    /\ monthEnded' = FALSE /\ dayEnded' = FALSE
    /\ UNCHANGED <<clock, phase, date_time, said>>

\* set_ascii with the afternoon tested one hour too long.
TestedLong(hour) ==
    \/ /\ at = "< 12" /\ at' = ">= 12"
       /\ said' = IF hour < 12 THEN Append(said, "morning") ELSE said
    \/ /\ at = ">= 12" /\ at' = IF hour >= 12 THEN "< 18" ELSE ">= 18"
       /\ UNCHANGED said
    \/ /\ at = "< 18" /\ at' = ">= 18"
       /\ said' = IF hour <= 18 THEN Append(said, "afternoon") ELSE said
    \/ /\ at = ">= 18" /\ at' = "idle"
       /\ said' = IF hour >= 18 THEN Append(said, "evening") ELSE said

\* What comes after a comparison of set_ascii with the hour: the next
\* comparison and what was sent.
Tested(hour) ==
    \/ /\ at = "< 12" /\ at' = ">= 12"
       /\ said' = IF hour < 12 THEN Append(said, "morning") ELSE said
    \/ /\ at = ">= 12" /\ at' = IF hour >= 12 THEN "< 18" ELSE ">= 18"
       /\ UNCHANGED said
    \/ /\ at = "< 18" /\ at' = ">= 18"
       /\ said' = IF hour < 18 THEN Append(said, "afternoon") ELSE said
    \/ /\ at = ">= 18" /\ at' = "idle"
       /\ said' = IF hour >= 18 THEN Append(said, "evening") ELSE said

Test ==
    /\ phase = "fetch" /\ phase' = "poll"
    /\ Tested(Value("hour"))
    /\ UNCHANGED <<clock, date_time, history>>

Idle == at = "idle" /\ UNCHANGED vars

Next == UpdateBegins \/ UpdateEnds \/ Poll \/ Spin \/ Fetch
        \/ CallGreeting \/ Test \/ Idle

Spec == Init /\ [][Next]_vars

\* The clock runs, kmain runs, and as the flag is set for 2 ms of a second the
\* loop of read, which takes microseconds, sees it clear.
FairSpec ==
    /\ Spec
    /\ WF_vars(UpdateEnds)
    /\ SF_vars(Poll)
    /\ WF_vars(Fetch \/ CallGreeting \/ Test)

----------------------------------------------------------------------------
(* Properties *)

\* Day and time a are no later than day and time b.
NoLater(a, b) ==
    \/ a.day < b.day
    \/ a.day = b.day /\ a.hour < b.hour
    \/ a.day = b.day /\ a.hour = b.hour /\ a.minute < b.minute
    \/ a.day = b.day /\ a.hour = b.hour /\ a.minute = b.minute /\ a.second <= b.second

\* Although it reads the registers one after the other, RTC_get_date_time never
\* returns a day and time ahead of the clock, unless a month ends meanwhile.
DateTimeNeverAhead ==
    at = "between" /\ ~monthEnded =>
        NoLater(date_time, [now EXCEPT !.day = Bcd(@)])

\* Although it reads the hour once per comparison, set_ascii sends a greeting,
\* and only greetings for a part of the day it has been since it began, unless
\* a day ends meanwhile (then it may wish a good afternoon, or nothing).
GreetingFits ==
    at = "idle" /\ ~dayEnded => said # <<>> /\ Range(said) \subseteq past

\* Both readers return.
CallsReturn == <>(at = "idle")
=============================================================================
