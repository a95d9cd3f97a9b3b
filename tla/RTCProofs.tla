------------------------------ MODULE RTCProofs ------------------------------
(***************************************************************************)
(* What the two readers of RTC make of a clock that runs on between any    *)
(* two of their reads, for every calendar and any number of updates.       *)
(***************************************************************************)
EXTENDS RTC, TLAPS

TypeInv ==
    /\ now \in Calendar
    /\ at \in Fields \cup Tests \cup {"between", "idle"}
    /\ date_time \in [Fields -> Nat]
    /\ monthEnded \in BOOLEAN /\ dayEnded \in BOOLEAN

\* The day, the time up to the hour, and the time up to the minute that
\* RTC_get_date_time has read are no later than the clock's.
DayBehind == date_time.day <= Bcd(now.day)

HourBehind ==
    \/ date_time.day < Bcd(now.day)
    \/ date_time.day = Bcd(now.day) /\ date_time.hour <= now.hour

MinuteBehind ==
    \/ date_time.day < Bcd(now.day)
    \/ date_time.day = Bcd(now.day) /\ date_time.hour < now.hour
    \/ /\ date_time.day = Bcd(now.day) /\ date_time.hour = now.hour
       /\ date_time.minute <= now.minute

\* What has been read is behind the clock as far as it goes: a field is read
\* after those it counts within.
Behind ==
    ~monthEnded =>
        /\ at \in {"month", "year", "hour"} => DayBehind
        /\ at = "minute" => HourBehind
        /\ at = "second" => MinuteBehind
        /\ at = "between" => NoLater(date_time, [now EXCEPT !.day = Bcd(@)])

\* Greetings sent fit, and one not sent yet will be: the hour is not before the
\* hours of the comparisons made.
Greeting ==
    /\ at \in Fields \cup {"between", "< 12"} => said = <<>>
    /\ PartOf(now.hour) \in past
    /\ ~dayEnded =>
          /\ said \in Seq(past)
          /\ at = ">= 12" /\ said = <<>> => now.hour >= 12
          /\ at = "< 18" => now.hour >= 12
          /\ at = ">= 18" /\ said = <<>> => now.hour >= 18
          /\ at = "idle" => said # <<>>

IInv == TypeInv /\ Behind /\ Greeting

----------------------------------------------------------------------------
(* The conversions and the calendar *)

\* Binary coded decimals keep the order, and both conversions undo them.
LEMMA BcdFacts ==
    ASSUME NEW m \in 0..99, NEW n \in 0..99
    PROVE  /\ Bcd(n) \in Nat
           /\ Bcd(m) < Bcd(n) <=> m < n
           /\ Decimal(Bcd(n)) = n
           /\ n < 24 => HourOf(Bcd(n)) = n
BY DEF Bcd, Decimal, HourOf

\* A count that reaches its limit starts again and carries one.
LEMMA Carry ==
    ASSUME NEW N \in Nat \ {0}, NEW k \in 0..N
    PROVE  \/ k < N /\ k \div N = 0 /\ k % N = k
           \/ k = N /\ k \div N = 1 /\ k % N = 0
OBVIOUS

\* A greeting more.
LEMMA Said ==
    ASSUME NEW S, NEW s \in Seq(S), NEW x \in S
    PROVE  Append(s, x) \in Seq(S) /\ Append(s, x) # <<>>
<1>1. Len(Append(s, x)) = Len(s) + 1 /\ Len(s) \in Nat /\ Len(<<>>) = 0
  OBVIOUS
<1>2. Append(s, x) # <<>>
  BY <1>1
<1>. QED
  BY <1>2

\* A second later it is another time of the calendar, later in the same month
\* unless the month or the year is another.
LEMMA LaterFacts ==
    ASSUME NEW t \in Calendar
    PROVE  /\ Later(t) \in Calendar
           /\ \/ Later(t).month # t.month
              \/ Later(t).year # t.year
              \/ Later(t).day > t.day
              \/ Later(t).day = t.day /\ Later(t).hour > t.hour
              \/ Later(t).day = t.day /\ Later(t).hour = t.hour /\ Later(t).minute > t.minute
              \/ /\ Later(t).day = t.day /\ Later(t).hour = t.hour
                 /\ Later(t).minute = t.minute /\ Later(t).second > t.second
           /\ \/ Later(t).day # t.day
              \/ Later(t).month # t.month
              \/ Later(t).hour >= t.hour
<1> DEFINE s == t.second + 1
           minutes == s \div Seconds
           m == t.minute + minutes
           hours == m \div Minutes
           h == t.hour + hours
           days == h \div 24
           d == t.day + days
           months == (d - 1) \div Days
           o == t.month + months
           years == (o - 1) \div Months
           y == t.year + years
           u == Later(t)
<1>1. /\ t.second \in 0..Seconds - 1 /\ t.minute \in 0..Minutes - 1 /\ t.hour \in 0..23
      /\ t.day \in 1..Days /\ t.month \in 1..Months /\ t.year \in 0..99
      /\ Seconds \in 1..60 /\ Minutes \in 1..60 /\ Days \in 2..31 /\ Months \in 1..12
  BY CalendarAssumption DEF Calendar
<1>2. u = [second |-> s % Seconds, minute |-> m % Minutes, hour |-> h % 24,
           day |-> ((d - 1) % Days) + 1, month |-> ((o - 1) % Months) + 1,
           year |-> y % 100]
  BY DEF Later
<1>3. \/ s < Seconds /\ minutes = 0 /\ s % Seconds = s
      \/ s = Seconds /\ minutes = 1 /\ s % Seconds = 0
  <2>1. s \in 0..Seconds /\ Seconds \in Nat \ {0}
    BY <1>1
  <2>. QED
    BY <2>1, Carry
<1> HIDE DEF minutes
<1>4. \/ m < Minutes /\ hours = 0 /\ m % Minutes = m
      \/ m = Minutes /\ hours = 1 /\ m % Minutes = 0
  <2>1. m \in 0..Minutes /\ Minutes \in Nat \ {0}
    BY <1>1, <1>3
  <2>. QED
    BY <2>1, Carry
<1> HIDE DEF hours
<1>5. \/ h < 24 /\ days = 0 /\ h % 24 = h
      \/ h = 24 /\ days = 1 /\ h % 24 = 0
  <2>1. h \in 0..24
    BY <1>1, <1>4
  <2>. QED
    BY <2>1, Carry
<1> HIDE DEF days
<1>6. \/ d - 1 < Days /\ months = 0 /\ (d - 1) % Days = d - 1
      \/ d - 1 = Days /\ months = 1 /\ (d - 1) % Days = 0
  <2>1. d - 1 \in 0..Days /\ Days \in Nat \ {0}
    BY <1>1, <1>5
  <2>. QED
    BY <2>1, Carry
<1> HIDE DEF months
<1>7. \/ o - 1 < Months /\ years = 0 /\ (o - 1) % Months = o - 1
      \/ o - 1 = Months /\ years = 1 /\ (o - 1) % Months = 0
  <2>1. o - 1 \in 0..Months /\ Months \in Nat \ {0}
    BY <1>1, <1>6
  <2>. QED
    BY <2>1, Carry
<1> HIDE DEF years
<1>8. y % 100 \in 0..99 /\ (years = 1 => y % 100 # t.year)
  <2>1. years \in {0, 1}
    BY <1>7
  <2>. QED
    BY <1>1, <2>1
<1> DEFINE rs == s % Seconds
           rm == m % Minutes
           rh == h % 24
           rd == (d - 1) % Days
           ro == (o - 1) % Months
           ry == y % 100
<1>9. /\ u = [second |-> rs, minute |-> rm, hour |-> rh, day |-> rd + 1,
               month |-> ro + 1, year |-> ry]
      /\ \/ s < Seconds /\ minutes = 0 /\ rs = s
         \/ s = Seconds /\ minutes = 1 /\ rs = 0
      /\ \/ m < Minutes /\ hours = 0 /\ rm = m
         \/ m = Minutes /\ hours = 1 /\ rm = 0
      /\ \/ h < 24 /\ days = 0 /\ rh = h
         \/ h = 24 /\ days = 1 /\ rh = 0
      /\ \/ d - 1 < Days /\ months = 0 /\ rd = d - 1
         \/ d - 1 = Days /\ months = 1 /\ rd = 0
      /\ \/ o - 1 < Months /\ years = 0 /\ ro = o - 1
         \/ o - 1 = Months /\ years = 1 /\ ro = 0
      /\ ry \in 0..99 /\ (years = 1 => ry # t.year)
  BY <1>2, <1>3, <1>4, <1>5, <1>6, <1>7, <1>8
<1> HIDE DEF u, rs, rm, rh, rd, ro, ry
<1>10. /\ rs \in 0..Seconds - 1 /\ rm \in 0..Minutes - 1 /\ rh \in 0..23
       /\ rd + 1 \in 1..Days /\ ro + 1 \in 1..Months
  BY <1>1, <1>9
<1>11. u \in Calendar
  BY <1>9, <1>10 DEF Calendar
<1>12. /\ u.second = rs /\ u.minute = rm /\ u.hour = rh /\ u.day = rd + 1
       /\ u.month = ro + 1 /\ u.year = ry
  BY <1>9
<1>13. months = 1 => u.month # t.month \/ u.year # t.year
  BY <1>1, <1>9, <1>12
<1>14. months = 0 => u.day = t.day + days
  BY <1>1, <1>9, <1>12
<1>15. days = 0 => u.hour = t.hour + hours
  BY <1>1, <1>9, <1>12
<1>16. hours = 0 => u.minute = t.minute + minutes
  BY <1>1, <1>9, <1>12
<1>17. minutes = 0 => u.second = t.second + 1
  BY <1>1, <1>9, <1>12
<1>18. ASSUME days = 1 PROVE u.day # t.day
  <2>1. CASE d - 1 < Days /\ rd = d - 1
    BY <1>1, <1>12, <1>18, <2>1
  <2>2. CASE d - 1 = Days /\ rd = 0
    <3>1. t.day = Days
      BY <1>1, <1>18, <2>2
    <3>2. u.day = 1
      BY <1>12, <2>2
    <3>. QED
      BY <1>1, <3>1, <3>2
  <2>. QED
    BY <1>9, <2>1, <2>2
<1>19. /\ {minutes, hours, days, months} \subseteq {0, 1}
       /\ months = 1 => days = 1
       /\ days = 1 => hours = 1
       /\ hours = 1 => minutes = 1
  <2>1. {minutes, hours, days, months} \subseteq {0, 1}
    BY <1>9
  <2>2. months = 1 => days = 1
    BY <1>1, <1>9, <2>1
  <2>3. days = 1 => hours = 1
    BY <1>1, <1>9, <2>1
  <2>4. hours = 1 => minutes = 1
    BY <1>1, <1>9, <2>1
  <2>. QED
    BY <2>1, <2>2, <2>3, <2>4
<1> HIDE DEF s, m, h, d, o, y
<1>. QED
  BY <1>1, <1>11, <1>13, <1>14, <1>15, <1>16, <1>17, <1>18, <1>19 DEF u

----------------------------------------------------------------------------
(* The invariant *)

\* Before the first read nothing has been read or said.
LEMMA InitInv == Init => IInv
<1> SUFFICES ASSUME Init PROVE IInv
  OBVIOUS
<1>1. TypeInv
  BY DEF Init, TypeInv, Order, Fields
<1>2. Behind
  BY DEF Init, Behind, Order
<1>3. Greeting
  BY DEF Init, Greeting, Order
<1>. QED
  BY <1>1, <1>2, <1>3 DEF IInv

\* The clock going on leaves what was read behind it and the greetings fitting.
LEMMA UpdateEndsInv == IInv /\ UpdateEnds => IInv'
<1> SUFFICES ASSUME IInv, UpdateEnds PROVE IInv'
  OBVIOUS
<1>1. /\ now \in Calendar /\ now' = Later(now)
      /\ UNCHANGED <<at, date_time, said>>
      /\ past' = past \cup {PartOf(now'.hour)}
      /\ dayEnded' = (dayEnded \/ now'.day # now.day \/ now'.month # now.month)
      /\ monthEnded' = (monthEnded \/ now'.month # now.month \/ now'.year # now.year)
  BY DEF IInv, TypeInv, UpdateEnds, kernel
<1>2. /\ now' \in Calendar
      /\ \/ now'.month # now.month
         \/ now'.year # now.year
         \/ now'.day > now.day
         \/ now'.day = now.day /\ now'.hour > now.hour
         \/ now'.day = now.day /\ now'.hour = now.hour /\ now'.minute > now.minute
         \/ /\ now'.day = now.day /\ now'.hour = now.hour
            /\ now'.minute = now.minute /\ now'.second > now.second
      /\ \/ now'.day # now.day
         \/ now'.month # now.month
         \/ now'.hour >= now.hour
  BY <1>1, LaterFacts
<1>3. TypeInv'
  BY <1>1, <1>2 DEF IInv, TypeInv
<1>4. Behind'
  <2> SUFFICES ASSUME ~monthEnded' PROVE Behind'
    BY DEF Behind
  <2>1. ~monthEnded /\ now'.month = now.month /\ now'.year = now.year
    BY <1>1
  <2>2. /\ Bcd(now.day) \in Nat /\ Bcd(now'.day) \in Nat
        /\ now'.day > now.day => Bcd(now'.day) > Bcd(now.day)
    <3>1. now.day \in 0..99 /\ now'.day \in 0..99
      BY <1>1, <1>2, CalendarAssumption DEF Calendar
    <3>. QED
      BY <3>1, BcdFacts
  <2>3. date_time \in [Fields -> Nat]
    BY DEF IInv, TypeInv
  <2>4. /\ now.hour \in Nat /\ now.minute \in Nat /\ now.second \in Nat
        /\ now'.hour \in Nat /\ now'.minute \in Nat /\ now'.second \in Nat
    BY <1>1, <1>2 DEF Calendar
  <2>5. DayBehind => DayBehind'
    BY <1>1, <1>2, <2>1, <2>2, <2>3 DEF DayBehind, Fields
  <2>6. HourBehind => HourBehind'
    BY <1>1, <1>2, <2>1, <2>2, <2>3, <2>4 DEF HourBehind, Fields
  <2>7. MinuteBehind => MinuteBehind'
    BY <1>1, <1>2, <2>1, <2>2, <2>3, <2>4 DEF MinuteBehind, Fields
  <2>8. ASSUME NoLater(date_time, [now EXCEPT !.day = Bcd(@)])
        PROVE  NoLater(date_time, [now EXCEPT !.day = Bcd(@)])'
    BY <1>1, <1>2, <2>1, <2>2, <2>3, <2>4, <2>8 DEF NoLater, Fields, Calendar
  <2>. QED
    BY <1>1, <2>1, <2>5, <2>6, <2>7, <2>8 DEF IInv, Behind
<1>5. Greeting'
  <2>1. PartOf(now.hour)' \in past'
    BY <1>1 DEF PartOf
  <2>2. ~dayEnded' => ~dayEnded /\ now'.hour >= now.hour
    BY <1>1, <1>2
  <2>3. now.hour \in Nat /\ now'.hour \in Nat
    BY <1>1, <1>2 DEF Calendar
  <2>4. said \in Seq(past) => said \in Seq(past')
    BY <1>1
  <2>5. at \in Fields \cup {"between", "< 12"} => said' = <<>>
    BY <1>1 DEF IInv, Greeting
  <2>6. ~dayEnded' =>
           /\ said' \in Seq(past')
           /\ at = ">= 12" /\ said' = <<>> => now'.hour >= 12
           /\ at = "< 18" => now'.hour >= 12
           /\ at = ">= 18" /\ said' = <<>> => now'.hour >= 18
           /\ at = "idle" => said' # <<>>
    <3> SUFFICES ASSUME ~dayEnded'
                 PROVE  /\ said' \in Seq(past')
                        /\ at = ">= 12" /\ said' = <<>> => now'.hour >= 12
                        /\ at = "< 18" => now'.hour >= 12
                        /\ at = ">= 18" /\ said' = <<>> => now'.hour >= 18
                        /\ at = "idle" => said' # <<>>
      OBVIOUS
    <3>1. /\ said \in Seq(past)
          /\ at = ">= 12" /\ said = <<>> => now.hour >= 12
          /\ at = "< 18" => now.hour >= 12
          /\ at = ">= 18" /\ said = <<>> => now.hour >= 18
          /\ at = "idle" => said # <<>>
      BY <2>2 DEF IInv, Greeting
    <3>2. said' = said
      BY <1>1
    <3>3. said' \in Seq(past')
      BY <2>4, <3>1, <3>2
    <3>4. /\ now.hour >= 12 => now'.hour >= 12
          /\ now.hour >= 18 => now'.hour >= 18
      BY <2>2, <2>3
    <3>. QED
      BY <3>1, <3>2, <3>3, <3>4, Zenon
  <2>7. at' = at
    BY <1>1
  <2>. QED
    BY <2>1, <2>5, <2>6, <2>7 DEF Greeting
<1>. QED
  BY <1>3, <1>4, <1>5 DEF IInv

\* A field read is the clock's own, so what was behind it without the field is
\* behind it with it.
LEMMA FetchInv == IInv /\ Fetch => IInv'
<1> SUFFICES ASSUME IInv, Fetch PROVE IInv'
  OBVIOUS
<1>1. /\ now \in Calendar /\ date_time \in [Fields -> Nat]
      /\ now' = now /\ said' = said /\ past' = past
      /\ monthEnded' = monthEnded /\ dayEnded' = dayEnded
      /\ date_time' = [date_time EXCEPT ![at] = Value(at)]
  BY DEF IInv, TypeInv, Fetch, clock, history
<1>2. \/ at = "day" /\ at' = "month"
      \/ at = "month" /\ at' = "year"
      \/ at = "year" /\ at' = "hour"
      \/ at = "hour" /\ at' = "minute"
      \/ at = "minute" /\ at' = "second"
      \/ at = "second" /\ at' = "between"
  BY DEF Fetch, Order
<1>3. /\ now.day \in 0..99 /\ now.month \in 0..99 /\ now.year \in 0..99
      /\ now.hour \in 0..99 /\ now.hour < 24 /\ now.minute \in 0..99 /\ now.second \in 0..99
  BY <1>1, CalendarAssumption DEF Calendar
<1>4. /\ Value("day") = Bcd(now.day) /\ Value("month") \in Nat /\ Value("year") \in Nat
      /\ Value("hour") = now.hour /\ Value("minute") = now.minute
      /\ Value("second") = now.second /\ Bcd(now.day) \in Nat
  BY <1>3, BcdFacts DEF Value
<1>5. TypeInv'
  BY <1>1, <1>2, <1>3, <1>4 DEF IInv, TypeInv, Fields
<1>6. Behind'
  <2> SUFFICES ASSUME ~monthEnded PROVE Behind'
    BY <1>1 DEF Behind
  <2>1. CASE at = "day"
    BY <1>1, <1>2, <1>4, <2>1 DEF Behind, DayBehind, Fields
  <2>2. CASE at \in {"month", "year"}
    BY <1>1, <1>2, <2>2 DEF IInv, Behind, DayBehind, Fields
  <2>3. CASE at = "hour"
    BY <1>1, <1>2, <1>3, <1>4, <2>3 DEF IInv, Behind, DayBehind, HourBehind, Fields
  <2>4. CASE at = "minute"
    BY <1>1, <1>2, <1>3, <1>4, <2>4 DEF IInv, Behind, HourBehind, MinuteBehind, Fields
  <2>5. CASE at = "second"
    BY <1>1, <1>2, <1>3, <1>4, <2>5 DEF IInv, Behind, MinuteBehind, NoLater, Fields, Calendar
  <2>. QED
    BY <1>2, <2>1, <2>2, <2>3, <2>4, <2>5
<1>7. Greeting'
  <2>1. at \in Fields
    BY <1>2 DEF Fields
  <2>2. PartOf(now.hour)' = PartOf(now.hour)
    BY <1>1 DEF PartOf
  <2>. QED
    BY <1>1, <1>2, <2>1, <2>2 DEF IInv, Greeting, Fields
<1>. QED
  BY <1>5, <1>6, <1>7 DEF IInv

\* A comparison sends a greeting for the part of the day it is, and the next is
\* reached with the hour it needs.
LEMMA TestInv == IInv /\ Test => IInv'
<1> SUFFICES ASSUME IInv, Test PROVE IInv'
  OBVIOUS
<1>1. /\ now \in Calendar /\ UNCHANGED <<now, date_time, past, monthEnded, dayEnded>>
      /\ Tested(Value("hour"))
  BY DEF IInv, TypeInv, Test, clock, history
<1>2. Value("hour") = now.hour /\ now.hour \in Nat
  <2>1. now.hour \in 0..99 /\ now.hour < 24
    BY <1>1 DEF Calendar
  <2>. QED
    <3>1. HourOf(Bcd(now.hour)) = now.hour
      BY <2>1, BcdFacts
    <3>. QED
      BY <2>1, <3>1 DEF Value
<1>3. at \in Tests /\ at' \in (Tests \ {"< 12"}) \cup {"idle"}
  BY <1>1 DEF Tested, Tests
<1>4. TypeInv' /\ Behind'
  BY <1>1, <1>3 DEF IInv, TypeInv, Behind, Tests
<1>5. Greeting'
  <2>1. PartOf(now.hour)' \in past' /\ PartOf(now.hour) \in past
    BY <1>1 DEF IInv, Greeting, PartOf
  <2>2. at' \notin Fields \cup {"between", "< 12"}
    BY <1>3 DEF Tests, Fields
  <2> SUFFICES ASSUME ~dayEnded
               PROVE  /\ said' \in Seq(past)
                      /\ at' = ">= 12" /\ said' = <<>> => now.hour >= 12
                      /\ at' = "< 18" => now.hour >= 12
                      /\ at' = ">= 18" /\ said' = <<>> => now.hour >= 18
                      /\ at' = "idle" => said' # <<>>
    BY <1>1, <2>1, <2>2 DEF Greeting
  <2>3. said \in Seq(past)
    BY DEF IInv, Greeting
  <2>4. \A x \in past : Append(said, x) \in Seq(past) /\ Append(said, x) # <<>>
    BY <2>3, Said
  <2>5. /\ now.hour < 12 => "morning" \in past
        /\ now.hour >= 12 /\ now.hour < 18 => "afternoon" \in past
        /\ now.hour >= 18 => "evening" \in past
    BY <1>2, <2>1 DEF PartOf
  <2>6. CASE at = "< 12"
    <3>1. at' = ">= 12" /\ said' = IF now.hour < 12 THEN Append(said, "morning") ELSE said
      BY <1>1, <1>2, <2>6 DEF Tested
    <3>3. CASE now.hour < 12
      <4>1. Append(said, "morning") \in Seq(past) /\ Append(said, "morning") # <<>>
        BY <2>4, <2>5, <3>3
      <4>. QED
        BY <3>1, <3>3, <4>1
    <3>4. CASE ~(now.hour < 12)
      <4>1. now.hour >= 12
        BY <1>2, <3>4
      <4>. QED
        BY <2>3, <3>1, <3>4, <4>1
    <3>. QED
      BY <3>3, <3>4
  <2>7. CASE at = ">= 12"
    BY <1>1, <1>2, <2>3, <2>7 DEF IInv, Greeting, Tested
  <2>8. CASE at = "< 18"
    <3>1. at' = ">= 18" /\ said' = IF now.hour < 18 THEN Append(said, "afternoon") ELSE said
      BY <1>1, <1>2, <2>8 DEF Tested
    <3>2. now.hour >= 12
      BY <2>8 DEF IInv, Greeting
    <3>3. CASE now.hour < 18
      <4>1. Append(said, "afternoon") \in Seq(past) /\ Append(said, "afternoon") # <<>>
        BY <2>4, <2>5, <3>3, <3>2
      <4>. QED
        BY <3>1, <3>3, <4>1
    <3>4. CASE ~(now.hour < 18)
      <4>1. now.hour >= 18
        BY <1>2, <3>4
      <4>. QED
        BY <2>3, <3>1, <3>4, <4>1
    <3>. QED
      BY <3>3, <3>4
  <2>9. CASE at = ">= 18"
    <3>1. at' = "idle" /\ said' = IF now.hour >= 18 THEN Append(said, "evening") ELSE said
      BY <1>1, <1>2, <2>9 DEF Tested
    <3>2. said = <<>> => now.hour >= 18
      BY <2>9 DEF IInv, Greeting
    <3>. QED
      BY <1>2, <2>3, <2>4, <2>5, <3>1, <3>2
  <2>. QED
    BY <1>3, <2>6, <2>7, <2>8, <2>9 DEF Tests
<1>. QED
  BY <1>4, <1>5 DEF IInv

\* The invariant is inductive: what was read stays behind the clock and the
\* greetings go on to fit, however often the clock moves between two reads.
THEOREM Inductive == Spec => []IInv
<1>1. IInv /\ [Next]_vars => IInv'
  <2> SUFFICES ASSUME IInv, [Next]_vars PROVE IInv'
    OBVIOUS
  <2>1. CASE UpdateBegins \/ Poll
    <3>1. UNCHANGED <<now, at, date_time, said, past, monthEnded, dayEnded>>
      BY <2>1 DEF UpdateBegins, Poll, kernel, history, clock
    <3>2. TypeInv'
      BY <3>1 DEF IInv, TypeInv
    <3>3. Behind'
      BY <3>1 DEF IInv, Behind, DayBehind, HourBehind, MinuteBehind, NoLater
    <3>4. PartOf(now.hour)' = PartOf(now.hour)
      BY <3>1 DEF PartOf
    <3>5. Greeting'
      BY <3>1, <3>4 DEF IInv, Greeting
    <3>. QED
      BY <3>2, <3>3, <3>5 DEF IInv
  <2>2. CASE CallGreeting
    <3>1. TypeInv'
      BY <2>2 DEF IInv, TypeInv, CallGreeting, clock, Tests
    <3>2. Behind'
      BY <2>2 DEF Behind, CallGreeting
    <3>3. Greeting'
      <4>1. /\ at = "between" /\ at' = "< 12" /\ now' = now /\ said' = said
            /\ past' = {PartOf(now.hour)}
        BY <2>2 DEF CallGreeting, clock
      <4>2. said' = <<>>
        BY <4>1 DEF IInv, Greeting
      <4>3. PartOf(now.hour)' \in past'
        BY <4>1 DEF PartOf
      <4>4. <<>> \in Seq(past')
        OBVIOUS
      <4>. QED
        BY <4>1, <4>2, <4>3, <4>4 DEF Greeting
    <3>. QED
      BY <3>1, <3>2, <3>3 DEF IInv
  <2>3. CASE UNCHANGED vars
    BY <2>3 DEF IInv, TypeInv, Behind, DayBehind, HourBehind, MinuteBehind, Greeting,
       vars, clock, kernel, history
  <2>. QED
    BY <2>1, <2>2, <2>3, UpdateEndsInv, FetchInv, TestInv DEF Next, Spin, Idle
<1>. QED
  BY <1>1, InitInv, PTL DEF Spec

\* In every calendar, however often and wherever the clock moves between the six
\* reads, RTC_get_date_time returns no day and time ahead of it.
THEOREM NeverAhead == Spec => []DateTimeNeverAhead
<1>1. IInv => DateTimeNeverAhead
  BY DEF IInv, Behind, DateTimeNeverAhead
<1>. QED
  BY <1>1, Inductive, PTL

\* In every calendar set_ascii sends a greeting, and none that fits no hour it
\* has been since it began.
THEOREM Greetings == Spec => []GreetingFits
<1>1. IInv => GreetingFits
  BY DEF IInv, Greeting, GreetingFits, Range
<1>. QED
  BY <1>1, Inductive, PTL
=============================================================================
