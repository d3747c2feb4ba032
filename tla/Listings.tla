------------------------------ MODULE Listings ------------------------------
(***************************************************************************)
(* The paged lists of the API: the calls, newest first, and the events of  *)
(* a call, oldest first.  Pure operators.                                  *)
(*                                                                         *)
(* A row is its place in the list, from 0.  Rows with the same createdAt   *)
(* have no order of their own, and none is assumed for them here: the      *)
(* theorems of CallStreamProofs are about places.                          *)
(***************************************************************************)
EXTENDS Integers

(* What parseInt makes of a query parameter: an integer, or one of these.  *)
NoNumber == {"absent", "NaN"}
Infinities == {"Infinity", "-Infinity"}

AtLeast(n, low) == IF n < low THEN low ELSE n
AtMost(n, high) == IF n > high THEN high ELSE n

(* v || default: 0 is no number either.                                    *)
OrDefault(v, default) == IF v \in NoNumber \cup {0} THEN default ELSE v

(* A page number without end does not pass .int(): the answer is a 422.    *)
InvalidQuery(page, limit) == page = "Infinity"

PageOf(page) == IF page = "-Infinity" THEN 1 ELSE AtLeast(OrDefault(page, 1), 1)

LimitOf(limit) ==
  CASE limit = "Infinity" -> 100
    [] limit = "-Infinity" -> 1
    [] OTHER -> AtMost(AtLeast(OrDefault(limit, 25), 1), 100)

toOffset(page, limit) == (page - 1) * limit

(* take and skip: the rows of a page.                                      *)
RowsOf(page, limit) == toOffset(page, limit)..(toOffset(page, limit) + limit - 1)

(* GET /v1/calls/:callSid/events, of n events, and GET /v1/calls, of n     *)
(* calls that the filter lets through.                                     *)
ListedEvents(n, page, limit) == RowsOf(page, limit) \cap 0..(n - 1)
ListedCalls(n, page, limit) == RowsOf(page, limit) \cap 0..(n - 1)

=============================================================================
