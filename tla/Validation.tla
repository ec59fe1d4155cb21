------------------------------ MODULE Validation ------------------------------
(***************************************************************************)
(* What the API takes and refuses at its boundary: indexer/internal/       *)
(* validate, and the two parsers built on it, parseEventQuery of the REST  *)
(* surface and buildEventQuery of the GraphQL one.                         *)
(*                                                                         *)
(* A raw value is Absent, a whole number (a run of digits, or the decimal  *)
(* form of a GraphQL Int, which may be negative) or Text, which is neither.*)
(***************************************************************************)
EXTENDS Integers

CONSTANTS
    Absent,         \* the empty string, or an argument left out
    Text,           \* a value that is not a number
    BadText,        \* text that is not UTF-8 or holds a NUL byte
    Refused,        \* the outcome of a value that is refused
    MaxInt64,       \* stands for 2^63 - 1
    MaxColumn       \* the largest number events.ledger may be compared with:
                    \* 2^31 - 1 on Postgres (INTEGER), MaxInt64 on SQLite

ASSUME ValidationAssumption == MaxInt64 \in Nat /\ MaxColumn \in Nat

EventLimitDefault == 50
EventLimitMax == 500

\* digitsPattern, then a conversion to 64 bits.
Digits(raw) == raw \notin {Absent, Text, BadText} /\ raw >= 0 /\ raw <= MaxInt64

\* Mutant of EventLimit: no ceiling.
EventLimitLax(raw) ==
    IF raw = Absent THEN EventLimitDefault
    ELSE IF Digits(raw) /\ raw >= 1 THEN raw ELSE Refused

EventLimit(raw) ==
    IF raw = Absent THEN EventLimitDefault
    ELSE IF Digits(raw) /\ raw \in 1 .. EventLimitMax THEN raw ELSE Refused

EventOrder(raw) ==
    IF raw = Absent THEN "desc" ELSE IF raw \in {"asc", "desc"} THEN raw ELSE Refused

\* A cursor is the id of an event; 0 stands for none.
EventCursor(raw) == IF raw = Absent THEN 0 ELSE IF Digits(raw) THEN raw ELSE Refused

\* 0 is no bound, whether left out or given.
LedgerBound(raw) == IF raw = Absent THEN 0 ELSE IF Digits(raw) THEN raw ELSE Refused

LedgerRange(from, to) == from > 0 /\ to > 0 => from <= to

EventFilterText(raw) == raw # BadText

EventID(raw) == IF Digits(raw) THEN raw ELSE Refused

\* parseEventQuery and buildEventQuery put the same validators in the same
\* order.  Every check must pass.
QueryAccepted(args) ==
    /\ EventLimit(args.limit) # Refused
    /\ EventOrder(args.order) # Refused
    /\ EventCursor(args.cursor) # Refused
    /\ LedgerBound(args.from) # Refused
    /\ LedgerBound(args.to) # Refused
    /\ LedgerRange(LedgerBound(args.from), LedgerBound(args.to))
    /\ EventFilterText(args.name)
    /\ EventFilterText(args.topic)

\* The store.EventQuery they build.
EventQuery(args) ==
    [limit |-> EventLimit(args.limit), order |-> EventOrder(args.order),
     cursor |-> EventCursor(args.cursor), from |-> LedgerBound(args.from),
     to |-> LedgerBound(args.to), texts |-> {args.name, args.topic}]

-----------------------------------------------------------------------------
\* The store checks again what it is given (indexer/internal/store/events.go).

MaxPageSize == 10000

\* The driver refuses a parameter that its column's type cannot hold.
\* LedgerBound lets such a number through.
TooWide(query) == query.from > MaxColumn \/ query.to > MaxColumn

\* resolvePageSize, orderIsAscending and parseCursor; and the engine, which
\* refuses text that is not UTF-8 or holds a NUL byte, and too wide a bound.
StoreAccepts(query) ==
    /\ query.limit >= 0 /\ query.limit <= MaxPageSize
    /\ query.order \in {"", "asc", "desc"}
    /\ query.cursor >= 0 /\ query.cursor <= MaxInt64
    /\ BadText \notin query.texts
    /\ ~TooWide(query)

=============================================================================
