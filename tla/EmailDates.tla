----------------------------- MODULE EmailDates -----------------------------
(***************************************************************************)
(* mlh_parser/src: the date column of an email, from the headers that      *)
(* email_reader.rs renders as text and date_parser.rs looks into.  A date  *)
(* is its year; None is a header that is missing or has no date in it.     *)
(***************************************************************************)
EXTENDS Integers, FiniteSets, FiniteSetsExt

CONSTANTS
  Years,  \* the years that headers name
  Now,    \* the current year
  None

ASSUME YearsAssumption == Years \subseteq Int /\ Now \in Nat

Date == Years \cup {None}

(* mail_parser hands a Date header over as a DateTime, a Received header   *)
(* as a structure, and any other header as the text it is.                 *)
HeaderForm(header) ==
  CASE header = "date" -> "DateTime" [] header = "received" -> "Received"
    [] OTHER -> "Text"

(* The form of the date in the text of a header: a DateTime is rendered    *)
(* by to_rfc3339, what is not foreseen by its Debug format.                *)
header_value_to_string(header) ==
  CASE HeaderForm(header) = "DateTime" -> "rfc3339"
    [] HeaderForm(header) = "Text" -> "rfc2822"
    [] OTHER -> "debug"

(* DATE_REGEX, which has the forms of RFC 2822, 1123 and 1036 and ctime.   *)
find_date_in_string(header) == header_value_to_string(header) = "rfc2822"

(* The dates that are found in these headers. *)
Found(email, headers) ==
  {email[h] : h \in {g \in headers : find_date_in_string(g)}} \ {None}

is_date_too_old(d) == d < 1900
is_date_in_future(d) == d > Now
check_date_issues(d) == is_date_too_old(d) \/ is_date_in_future(d)

(* A year that was stored modulo 100 counts from 1900. *)
fix_millennium_date(d) ==
  IF is_date_too_old(d) /\ d + 1900 <= Now THEN d + 1900 ELSE d

find_other_date_entries(email) == Found(email, {"received", "x_received"})

(* The sender's date if it is plausible, else the oldest date a server     *)
(* noted, else the sender's date with its century restored.                *)
process_date(email) ==
  LET own  == Found(email, {"date"})
      safe == {d \in own : ~check_date_issues(d)}
      options ==
        CASE safe # {} -> safe
          [] safe = {} /\ find_other_date_entries(email) # {} ->
               find_other_date_entries(email)
          [] OTHER -> {fix_millennium_date(d) : d \in {e \in own : is_date_too_old(e)}}
  IN  IF options = {} THEN None ELSE Min(options)
=============================================================================
