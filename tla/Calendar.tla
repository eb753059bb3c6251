------------------------------ MODULE Calendar ------------------------------
(***************************************************************************)
(* ymd_from_epoch (src/src/partitions.rs): the civil date of a day counted *)
(* from 1970-01-01, by which partition leaves are named and compared.      *)
(***************************************************************************)
EXTENDS Integers

YmdFromEpoch(days) ==
    LET z   == days + 719468
        era == z \div 146097
        doe == z - era * 146097
        yoe == (doe - doe \div 1460 + doe \div 36524 - doe \div 146096) \div 365
        doy == doe - (365 * yoe + yoe \div 4 - yoe \div 100)
        mp  == (5 * doy + 2) \div 153
        m   == IF mp < 10 THEN mp + 3 ELSE mp - 9
    IN  <<yoe + era * 400 + (IF m =< 2 THEN 1 ELSE 0), m, doy - (153 * mp + 2) \div 5 + 1>>

(* The Gregorian calendar, as the reference: the day after a date.         *)
Leap(y) == y % 4 = 0 /\ (y % 100 # 0 \/ y % 400 = 0)

LastOf(y, m) == CASE m = 2 -> IF Leap(y) THEN 29 ELSE 28
                  [] m \in {4, 6, 9, 11} -> 30
                  [] OTHER -> 31

DayAfter(date) ==
    LET y == date[1]  m == date[2]  d == date[3]
    IN  IF d < LastOf(y, m) THEN <<y, m, d + 1>>
        ELSE IF m < 12 THEN <<y, m + 1, 1>> ELSE <<y + 1, 1, 1>>

IsDate(date) ==
    /\ date[1] \in Nat /\ date[2] \in 1..12 /\ date[3] \in 1..LastOf(date[1], date[2])

(* How leaf_name's names sort: as texts, so by year, month and day, since  *)
(* these are written in fixed width.                                       *)
SortsBefore(a, b) ==
    \/ a[1] < b[1]
    \/ a[1] = b[1] /\ a[2] < b[2]
    \/ a[1] = b[1] /\ a[2] = b[2] /\ a[3] < b[3]

FourDigits(date) == 1000 =< date[1] /\ date[1] =< 9999

(* The last day whose year has four digits, 9999-12-31.                    *)
LastNamed == 2932896

(* Days of the century around a seed year, and the leap rule's exceptions: *)
(* from 1999-01-01 and from 2099-01-01, two years each, and 2026 to 2028.  *)
CheckedDays == 10592..11323 \cup 47117..47848 \cup 20454..21549

CalendarIsGregorian ==
    /\ YmdFromEpoch(0) = <<1970, 1, 1>> /\ YmdFromEpoch(20454) = <<2026, 1, 1>>
    /\ YmdFromEpoch(10592) = <<1999, 1, 1>> /\ YmdFromEpoch(47117) = <<2099, 1, 1>>
    /\ YmdFromEpoch(LastNamed) = <<9999, 12, 31>>
    /\ \A n \in CheckedDays : /\ IsDate(YmdFromEpoch(n))
                              /\ YmdFromEpoch(n + 1) = DayAfter(YmdFromEpoch(n))
                              /\ SortsBefore(YmdFromEpoch(n), YmdFromEpoch(n + 1))
=============================================================================
