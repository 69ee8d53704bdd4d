------------------------------- MODULE Calendar -------------------------------
(***************************************************************************)
(* When a device may sign: dates, weekly windows and the signing policy of *)
(* transaction/policy/time.rs.                                             *)
(*                                                                         *)
(* A tick of the clock is a minute (the code counts seconds; the second of *)
(* a date only adds to the ticks and is left out).  A typed text is the    *)
(* sequence of its digits (BAD is any other character), or of its windows, *)
(* each with the form it has: "window", "blank" or "bad" for any layout    *)
(* the parser does not know.                                               *)
(***************************************************************************)
EXTENDS Integers, FiniteSets, SequencesExt

MAX_WEEKLY_WINDOWS == 4
MIN_YEAR == 2000
MAX_YEAR == 2099
MINUTES_PER_DAY == 1440

\* A result of the code: Ok carries a value, an error its name.
Ok(v) == [ok |-> TRUE, v |-> v]
Err(e) == [ok |-> FALSE, v |-> e]

\* The first error of a list of checks, or "".
FirstError(checks) ==
  LET failed == SelectSeq(checks, LAMBDA c : c # "") IN IF failed = <<>> THEN "" ELSE failed[1]

-----------------------------------------------------------------------------
(* Dates *)

Date(year, month, day, hour, minute) ==
  [year |-> year, month |-> month, day |-> day, hour |-> hour, minute |-> minute]

is_leap_year(year) == year % 4 = 0 /\ (year % 100 # 0 \/ year % 400 = 0)

days_in_month(year, month) ==
  CASE month \in {1, 3, 5, 7, 8, 10, 12} -> 31
    [] month \in {4, 6, 9, 11} -> 30
    [] month = 2 -> IF is_leap_year(year) THEN 29 ELSE 28
    [] OTHER -> 0

\* The days of the years before `year` since 1970.
days_before_year(year) ==
  LET Days(y) == y * 365 + y \div 4 - y \div 100 + y \div 400
  IN Days(year - 1) - Days(1969)

days_before_month(year, month) ==
  <<0, 31, 59, 90, 120, 151, 181, 212, 243, 273, 304, 334>>[month]
    + (IF month > 2 /\ is_leap_year(year) THEN 1 ELSE 0)

\* UtcDateTime::validate
date_error(d) ==
  IF d.year < MIN_YEAR \/ d.year > MAX_YEAR THEN "DateOutOfRange"
  ELSE IF \/ d.day = 0 \/ d.day > days_in_month(d.year, d.month)
          \/ d.hour > 23 \/ d.minute > 59
       THEN "InvalidDate" ELSE ""

to_unix(d) ==
  IF date_error(d) # "" THEN Err(date_error(d))
  ELSE Ok((days_before_year(d.year) + days_before_month(d.year, d.month) + d.day - 1)
            * MINUTES_PER_DAY + d.hour * 60 + d.minute)

\* The two loops of from_unix_seconds: the year, then the month, that `days` falls in.
RECURSIVE YearOf(_, _), MonthOf(_, _, _)
YearOf(days, year) ==
  LET size == IF is_leap_year(year) THEN 366 ELSE 365
  IN IF days < size THEN [year |-> year, days |-> days] ELSE YearOf(days - size, year + 1)
MonthOf(days, year, month) ==
  LET size == days_in_month(year, month)
  IN IF days < size THEN [month |-> month, days |-> days]
     ELSE MonthOf(days - size, year, month + 1)

FirstTick == to_unix(Date(MIN_YEAR, 1, 1, 0, 0)).v
LastTick == to_unix(Date(MAX_YEAR, 12, 31, 23, 59)).v

from_unix(unix) ==
  IF unix < FirstTick \/ unix > LastTick THEN Err("DateOutOfRange")
  ELSE LET y == YearOf(unix \div MINUTES_PER_DAY, 1970)
           m == MonthOf(y.days, y.year, 1)
           t == unix % MINUTES_PER_DAY
       IN Ok(Date(y.year, m.month, m.days + 1, t \div 60, t % 60))

\* Monday is 0; 1970-01-01 was a Thursday.
weekday_monday0(d) ==
  LET unix == to_unix(d)
  IN IF unix.ok THEN Ok((unix.v \div MINUTES_PER_DAY + 3) % 7) ELSE unix

-----------------------------------------------------------------------------
(* Windows *)

Window(weekday, start, end) == [weekday |-> weekday, start |-> start, end |-> end]
EMPTY == Window(0, 0, 0)

\* SigningWindow::validate
window_error(w) ==
  IF w.weekday > 6 \/ w.start >= w.end \/ w.end > MINUTES_PER_DAY THEN "InvalidWindow" ELSE ""

contains(w, weekday, minute) == w.weekday = weekday /\ minute >= w.start /\ minute < w.end

windows_overlap(a, b) == a.weekday = b.weekday /\ a.start < b.end /\ b.start < a.end

-----------------------------------------------------------------------------
(* The policy *)

Policy(notBefore, enabled, count, windows, floor) ==
  [notBefore |-> notBefore, enabled |-> enabled, count |-> count, windows |-> windows,
   floor |-> floor]

disabled == Policy(0, FALSE, 0, [n \in 1 .. MAX_WEEKLY_WINDOWS |-> EMPTY], 0)

has_time_policy(p) == p.notBefore # 0 \/ p.enabled

\* A lock that the floor proves matured needs no clock any more.
requires_clock(p) == p.enabled \/ (p.notBefore # 0 /\ p.floor < p.notBefore)

validate_window_shape(p) ==
  IF p.count > MAX_WEEKLY_WINDOWS THEN "TooManyWindows"
  ELSE IF \/ p.enabled # (p.count # 0)
          \/ \E n \in p.count + 1 .. MAX_WEEKLY_WINDOWS : p.windows[n] # EMPTY
       THEN "InvalidWindow" ELSE ""

validate_windows(p) ==
  FirstError([n \in 1 .. p.count |->
    IF window_error(p.windows[n]) # "" THEN window_error(p.windows[n])
    ELSE IF \E k \in n + 1 .. p.count : windows_overlap(p.windows[n], p.windows[k])
         THEN "OverlappingWindow" ELSE ""])

validate_policy_times(p) ==
  FirstError([n \in 1 .. 2 |->
    LET t == <<p.notBefore, p.floor>>[n]
    IN IF t # 0 /\ ~from_unix(t).ok THEN from_unix(t).v ELSE ""])

policy_error(p) ==
  IF validate_window_shape(p) # "" THEN validate_window_shape(p)
  ELSE IF validate_windows(p) # "" THEN validate_windows(p)
  ELSE validate_policy_times(p)

\* The weekly rule at a readable date.
weekly_decision(p, date) ==
  LET weekday == weekday_monday0(date).v
      minute == date.hour * 60 + date.minute
  IN IF \E n \in 1 .. p.count : contains(p.windows[n], weekday, minute)
     THEN "Allowed" ELSE "OutsideWeeklyWindow"

evaluate(p, now) ==
  IF policy_error(p) # "" THEN "PolicyInvalid"
  ELSE IF p.floor # 0 /\ now < p.floor THEN "ClockRollback"
  ELSE IF p.notBefore # 0 /\ now < p.notBefore THEN "BeforeNotBefore"
  ELSE IF ~p.enabled THEN "Allowed"
  ELSE IF ~from_unix(now).ok THEN "ClockInvalid"
  ELSE weekly_decision(p, from_unix(now).v)

-----------------------------------------------------------------------------
(* What a user types *)

BAD == 10

\* Digits as a number; a character that is no digit is an error.
decimal(digits) ==
  IF BAD \in Range(digits) THEN Err("InvalidFormat")
  ELSE Ok(FoldLeft(LAMBDA a, d : a * 10 + d, 0, digits))

parse_utc_yyyymmddhhmm(digits) ==
  IF Len(digits) # 12 \/ BAD \in Range(digits) THEN Err("InvalidFormat")
  ELSE LET Field(a, b) == decimal(SubSeq(digits, a, b)).v
           date == Date(Field(1, 4), Field(5, 6), Field(7, 8), Field(9, 10), Field(11, 12))
       IN IF date_error(date) = "" THEN Ok(date) ELSE Err(date_error(date))

parse_hhmm(hour, minute) ==
  IF hour > 23 \/ minute > 59 THEN Err("InvalidWindow") ELSE Ok(hour * 60 + minute)

WEEKDAY_NAMES == <<"MON", "TUE", "WED", "THU", "FRI", "SAT", "SUN">>

\* A typed window is [form, day, from, till], each time an hour and a minute.
parse_window(part) ==
  IF part.form # "window" THEN Err("InvalidFormat")
  ELSE IF part.day \notin Range(WEEKDAY_NAMES) THEN Err("InvalidFormat")
  ELSE LET start == parse_hhmm(part.from[1], part.from[2])
           end == parse_hhmm(part.till[1], part.till[2])
           day == CHOOSE n \in DOMAIN WEEKDAY_NAMES : WEEKDAY_NAMES[n] = part.day
           value == Window(day - 1, start.v, end.v)
       IN IF ~start.ok \/ ~end.ok THEN Err("InvalidWindow")
          ELSE IF window_error(value) # "" THEN Err(window_error(value)) ELSE Ok(value)

\* parse_window_list: the parts in order; a fifth part is one too many.
PartError(part, n) ==
  IF part.form = "blank" THEN "InvalidFormat"
  ELSE IF n > MAX_WEEKLY_WINDOWS THEN "TooManyWindows"
  ELSE IF parse_window(part).ok THEN "" ELSE parse_window(part).v

parse_window_list(parts) ==
  LET error == FirstError([n \in DOMAIN parts |-> PartError(parts[n], n)])
  IN IF error # "" THEN Err(error) ELSE Ok([n \in DOMAIN parts |-> parse_window(parts[n]).v])

reject_adjacent_overlaps(windows) ==
  \E n \in 1 .. Len(windows) - 1 : windows_overlap(windows[n], windows[n + 1])

\* Mutant: the windows stay in the order they were typed in.
Mutant_TypedOrder(parts) ==
  LET list == parse_window_list(parts)
  IN IF ~list.ok THEN list
     ELSE IF reject_adjacent_overlaps(list.v) THEN Err("OverlappingWindow")
     ELSE list

parse_weekly_windows(parts) ==
  LET list == parse_window_list(parts)
      Before(a, b) == a.weekday < b.weekday \/ (a.weekday = b.weekday /\ a.start < b.start)
      sorted == SortSeq(list.v, Before)
  IN IF ~list.ok THEN list
     ELSE IF reject_adjacent_overlaps(sorted) THEN Err("OverlappingWindow")
     ELSE Ok(sorted)
=============================================================================
