--------------------------- MODULE MCPostListing ---------------------------
(***************************************************************************)
(* Small instances of PostListing.  Versions are chosen so that two posts  *)
(* can tie on the time, be on none, one or both tags, change month, and be *)
(* delisted or relisted by a refresh.                                      *)
(***************************************************************************)
EXTENDS PostListing

CONSTANTS a, b

V(time, tags, listed) == [time |-> time, tags |-> tags, listed |-> listed]

\* 10 and 11 are November and December 1970, 12 January 1971
MCVersions == {V(10, {a, b}, TRUE), V(11, {a}, TRUE), V(11, {}, FALSE), V(10, {b}, FALSE),
               V(10, {a}, TRUE)}

MonthVersions == {V(11, {a}, TRUE), V(12, {}, TRUE), V(12, {a, b}, TRUE)}
=============================================================================
