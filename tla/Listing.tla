------------------------------- MODULE Listing -------------------------------
(***************************************************************************)
(* A client walks a list page by page while rows come and go.  The lists   *)
(* of agent definitions, agents, runs, credentials, providers and models   *)
(* truncate created_at to the milliseconds of the cursor (exact = FALSE);  *)
(* the list of service tokens compares the cursor with created_at as it    *)
(* is, in microseconds (exact = TRUE).                                     *)
(***************************************************************************)
EXTENDS Naturals, FiniteSets, Sequences

CONSTANTS
  Ids,       \* row ids, numbers: UUIDs are ordered, not by time
  Micros,    \* times of created_at
  PerMilli,  \* microseconds in a millisecond
  PageSize,
  Exactness  \* the kinds of lists: a set of values of exact

(* A table is finite; a UUID is a number, a time one of microseconds.      *)
ASSUME ListingAssumption ==
  /\ Ids \subseteq Nat /\ Micros \subseteq Nat /\ IsFiniteSet([id: Ids, at: Micros])
  /\ PerMilli \in Nat \ {0} /\ PageSize \in Nat \ {0} /\ Exactness \subseteq BOOLEAN

VARIABLES
  exact,
  table,     \* rows: id and created_at
  cursor,    \* which page is next, "first", "next" or none ("end"); for the
             \* next, milliseconds and id of the last row given
  got,       \* rows the client has been given
  steady     \* history: rows that are there since the walk began

listingVars == <<exact, table, cursor, got, steady>>

TableRows == [id: Ids, at: Micros]

ListingInit ==
  /\ exact \in Exactness
  /\ table \in {T \in SUBSET TableRows : \A x, y \in T : x.id = y.id => x = y}
  /\ cursor = [page |-> "first"] /\ got = <<>> /\ steady = table

Milli(x) == x.at \div PerMilli

(* ORDER BY created_at DESC, id DESC. *)
Precedes(x, y) ==
  LET a == IF exact THEN x.at ELSE Milli(x)
      b == IF exact THEN y.at ELSE Milli(y)
  IN  \/ a > b
      \/ a = b /\ x.id > y.id

(* Mutant: the ids do not break ties. *)
BehindTies(x, c) == IF exact THEN x.at <= c.milli * PerMilli ELSE Milli(x) <= c.milli

(* The rows behind the cursor c, which has lost the microseconds. *)
Behind(x, c) ==
  IF exact THEN \/ x.at < c.milli * PerMilli
                \/ x.at = c.milli * PerMilli /\ x.id < c.id
           ELSE \/ Milli(x) < c.milli
                \/ Milli(x) = c.milli /\ x.id < c.id

Matching == IF cursor.page = "first" THEN table ELSE {x \in table : Behind(x, cursor)}

(* LIMIT: one row more than the page tells whether there is another. *)
Rank(x) == Cardinality({y \in Matching : Precedes(y, x)})

PageRows == {x \in Matching : Rank(x) < PageSize}

LastOf(rows) == CHOOSE x \in rows : \A y \in rows \ {x} : Precedes(y, x)

Walking == cursor.page # "end"

GetPage ==
  /\ Walking
  /\ cursor' = IF PageRows = Matching THEN [page |-> "end"]
                 ELSE [page |-> "next", milli |-> Milli(LastOf(PageRows)),
                       id |-> LastOf(PageRows).id]
  /\ got' = got \o [i \in 1 .. Cardinality(PageRows) |-> CHOOSE x \in PageRows : Rank(x) = i - 1]
  /\ UNCHANGED <<exact, table, steady>>

(* A row becomes visible; its created_at is the time its transaction began. *)
AddRow(x) ==
  /\ Walking
  /\ \A y \in table \cup {got[i] : i \in DOMAIN got} : y.id # x.id
  /\ table' = table \cup {x}
  /\ UNCHANGED <<exact, cursor, got, steady>>

(* A row is deleted, or no longer passes the filter of the list. *)
DropRow(x) ==
  /\ Walking
  /\ table' = table \ {x}
  /\ steady' = steady \ {x}
  /\ UNCHANGED <<exact, cursor, got>>

ListingNext ==
  \/ GetPage
  \/ \E x \in TableRows : AddRow(x)
  \/ \E x \in table : DropRow(x)

ListingSpec == ListingInit /\ [][ListingNext]_listingVars

Given(x) == Cardinality({i \in DOMAIN got : got[i].id = x.id})

(* A walk to the end gives each row that was there all the time exactly    *)
(* once, and no row twice, whatever was created or deleted meanwhile.      *)
EachRowOnce ==
  /\ \A x \in TableRows : Given(x) <= 1
  /\ ~ Walking => \A x \in steady : Given(x) = 1
=============================================================================
