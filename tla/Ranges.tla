------------------------------- MODULE Ranges -------------------------------
(***************************************************************************)
(* lib/utils/mu-utils.cc and lib/mu-parser.cc: the texts of dates and      *)
(* sizes in a query, and the numbers that documents have of them.          *)
(*                                                                         *)
(* A time is a year, month, day, hour, minute and second of the local      *)
(* calendar; g_date_time_to_unix() keeps their order.  A date is written   *)
(* as a time of which the last parts may be missing (with two digits for   *)
(* each part but the year), as today, now, or so long ago; or it is empty. *)
(* A size is a number with a unit.                                         *)
(*                                                                         *)
(* A month or a day is below 20 or 40, an hour below 30, and minutes and   *)
(* seconds are below 60: of other numbers strptime() takes the first digit *)
(* and goes on with the next.  There are at most 14 digits.                *)
(***************************************************************************)
EXTENDS Integers, Sequences

CONSTANTS
  Now,          \* the time of the query
  Width,        \* digits of a stored number, at least one (10)
  Unit,         \* what k makes of a size, positive (1024)
  ManualUnit    \* what the manual says that it makes (1000)

Before(s, t) ==
  \E i \in 1..6 : s[i] < t[i] /\ \A j \in 1..(i - 1) : s[j] = t[j]

Earliest == <<1970, 1, 1, 0, 0, 0>>        \* "0000000000"
Latest  == <<2286, 11, 20, 17, 46, 39>>   \* "9999999999"
DateBoundary(isFirst) == IF isFirst THEN Earliest ELSE Latest

UserDateMin == Earliest
UserDateMax == <<2999, 12, 31, 23, 59, 59>>

MaxDays(year, month) ==
  CASE month = 2 -> IF year % 4 = 0 /\ (year % 100 # 0 \/ year % 400 = 0) THEN 29 ELSE 28
    [] month \in {4, 6, 9, 11} -> 30
    [] OTHER -> 31

Bug_FixupMonth(t) == t

(* The last second of a month instead of a day that it does not have *)
FixupMonth(t) ==
  LET days == MaxDays(t[1], t[2])
  IN  IF t[3] > days THEN <<t[1], t[2], days, 23, 59, 59>> ELSE t

(* Midnight of the day, or of the next *)
Midnight(t) == <<t[1], t[2], t[3], 0, 0, 0>>
NextDay(t) ==
  CASE t[3] < MaxDays(t[1], t[2])                -> [t EXCEPT ![3] = @ + 1]
    [] t[3] = MaxDays(t[1], t[2]) /\ t[2] < 12   -> [t EXCEPT ![2] = @ + 1, ![3] = 1]
    [] OTHER                                     -> [t EXCEPT ![1] = @ + 1, ![2] = 1, ![3] = 1]

SpecialDate(word, isFirst) ==
  IF word = "now" THEN Now ELSE Midnight(IF isFirst THEN Now ELSE NextDay(Now))

(* delta_ymwdhMs: then is what glib makes of it. *)
Delta(ago) ==
  IF ago.number \notin 1..9999 \/ Before(ago.then, Earliest) THEN Earliest ELSE ago.then

(* Of the formats that are tried, one without the day has the day 0.       *)
Strptime(t) ==
  CASE t[2] \notin 1..12 \/ t[3] \notin 1..31 -> [t EXCEPT ![3] = 0]
    [] t[2] \in 1..12 /\ t[3] \in 1..31 /\ t[4] > 23 -> Midnight(t)
    [] OTHER -> t

Existing(t) == t[3] \in 1..MaxDays(t[1], t[2])

(* date_to_time_t_string *)
DateBound(date, isFirst) ==
  LET given == date.parts
      full  == [i \in 1..6 |-> IF i <= Len(given) THEN given[i]
                               ELSE (IF isFirst THEN UserDateMin ELSE UserDateMax)[i]]
      t     == FixupMonth(Strptime(full))
  IN  CASE date.is = "special" -> SpecialDate(date.word, isFirst)
        [] date.is = "ago"     -> Delta(date)
        [] date.is = "date" /\ given = <<>> -> DateBoundary(isFirst)
        [] OTHER -> IF ~Existing(t) \/ Before(t, Earliest) \/ Before(Latest, t)
                    THEN DateBoundary(isFirst) ELSE t

(* snprintf, to a buffer for Width digits, with zeros in front: a longer   *)
(* number loses its last digits.                                           *)
NumberText(n) ==
  LET cut[m \in Nat] == IF m < 10 ^ Width THEN m ELSE cut[m \div 10] IN cut[n]

Units == [b |-> 1, k |-> Unit, m |-> Unit * Unit]

(* size_to_string; a size that has no digits is empty here. *)
SizeBound(size, isFirst) ==
  IF size = <<>> THEN (IF isFirst THEN 0 ELSE 10 ^ Width - 1)
  ELSE NumberText(size.number * Units[size.unit])

(* process_range *)
Bound(field, text, isFirst) ==
  IF field = "date" THEN DateBound(text, isFirst) ELSE SizeBound(text, isFirst)

Less(field, x, y) == IF field = "date" THEN Before(x, y) ELSE x < y

(* Parser::Private::range and xapian_query_range: is the value in range?   *)
InRange(field, lower, upper, value) ==
  LET Between(l, u) == ~Less(field, value, Bound(field, l, TRUE))
                       /\ ~Less(field, Bound(field, u, FALSE), value)
  IN  IF Less(field, Bound(field, upper, FALSE), Bound(field, lower, TRUE))
      THEN Between(upper, lower) ELSE Between(lower, upper)
----------------------------------------------------------------------------
(* What a range means, by man/mu-query.7: what is not before the lower     *)
(* bound and not after the upper, as far as these are written.  A bound    *)
(* is the parts of a date, or the number of bytes as a single part.  The   *)
(* manual has nothing on numbers that no calendar has: a month of that     *)
(* kind is no bound, and an hour is the midnight before.                   *)

MeantUnits == [b |-> 1, k |-> ManualUnit, m |-> ManualUnit * ManualUnit]

DateParts(given) ==
  CASE Len(given) >= 2 /\ given[2] > 12 -> <<>>
    [] Len(given) >= 4 /\ given[4] > 23 -> Midnight(given)
    [] OTHER -> given

Parts(field, text) ==
  CASE field = "size" -> IF text = <<>> THEN <<>> ELSE <<text.number * MeantUnits[text.unit]>>
    [] field = "date" /\ text.is = "date" -> DateParts(text.parts)
    [] field = "date" /\ text.is = "ago"  -> text.then
    [] OTHER -> IF text.word = "now" THEN Now ELSE SubSeq(Now, 1, 3)

Earlier(s, t) ==
  \E i \in DOMAIN s \cap DOMAIN t : s[i] < t[i] /\ \A j \in 1..(i - 1) : s[j] = t[j]

IsMeant(value, lower, upper) == ~Earlier(value, lower) /\ ~Earlier(upper, value)
=============================================================================
