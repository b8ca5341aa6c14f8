---------------------------- MODULE AdminDetails ----------------------------
(***************************************************************************)
(* formatLogForDisplay and formatContainerForDisplay of admin.js: which    *)
(* fields of a record a detail dialog shows, in which order, each in which *)
(* style, and the badge above them.                                        *)
(*                                                                         *)
(* A record is the sequence of its fields in the order of the JSON object; *)
(* of a value only its class matters ("empty", "text", "lines" for a text  *)
(* of several lines, "number").  Colours are told apart by name.           *)
(***************************************************************************)
EXTENDS Integers, Sequences, FiniteSets

Field(k, c) == [key |-> k, class |-> c]

\* What the server sends (ContainerRecord, listRecentLogs): an execution that
\* failed has an error message, one stored by an early release has no ip.
HistoryRecord(failed, hasIP) ==
  <<Field("container_id", "text"), Field("created_at", "text"),
    Field("finished_at", "text"), Field("execution_time", "number")>>
  \o (IF hasIP THEN <<Field("ip", "text")>> ELSE << >>)
  \o <<Field("code_executed", "lines"), Field("output", "lines"),
       Field("error_message", IF failed THEN "text" ELSE "empty")>>

LogRecord(level) ==
  <<Field("caller", "text"), Field("level", level), Field("logger_name", "empty"),
    Field("message", "text"), Field("stack", IF level = "error" THEN "lines" ELSE "empty"),
    Field("ts", "text")>>

Keys(fields) == {fields[i].key : i \in DOMAIN fields}

\* The two formatValue closures.
ContainerStyle(f) ==
  CASE f.class = "empty"                              -> "quotes"
    [] f.class = "number"                             -> IF f.key = "execution_time" THEN "duration" ELSE "number"
    [] f.key \in {"created_at", "finished_at"}        -> "time"
    [] f.key = "error_message"                        -> "error"
    [] f.key \in {"code_executed", "output"}          -> "block"
    [] OTHER                                          -> "plain"

LogStyle(f) ==
  CASE f.class = "empty"                        -> "quotes"
    [] f.key = "ts"                             -> "time"
    [] f.key = "level"                          -> IF f.class \in {"error", "warn"} THEN f.class ELSE "info"
    [] f.key = "stack" /\ f.class = "lines"     -> "block"
    [] OTHER                                    -> "plain"

FieldOrder == <<"container_id", "created_at", "finished_at", "execution_time",
                "error_message", "code_executed", "output">>

Listed(k) == \E i \in DOMAIN FieldOrder : FieldOrder[i] = k
FieldNamed(fields, k) == fields[CHOOSE i \in DOMAIN fields : fields[i].key = k]

\* The elements of a sequence at the given places, in their order (a SelectSeq,
\* which cannot be reasoned about).
AtPlaces(s, places) ==
  [i \in 1..Cardinality(places) |->
     s[CHOOSE p \in places : Cardinality({q \in places : q < p}) = i - 1]]

OrderedIn(fields) == {i \in DOMAIN FieldOrder : FieldOrder[i] \in Keys(fields)}
OthersIn(fields) == {i \in DOMAIN fields : ~Listed(fields[i].key)}

\* The fields of a container in the dialog's order: those of FieldOrder it
\* has, then the others.  Mutant: the others are not told apart.
ContainerFields_Twice(fields) ==
  LET listed == AtPlaces(FieldOrder, OrderedIn(fields))
  IN  [i \in DOMAIN listed |-> FieldNamed(fields, listed[i])] \o fields
ContainerFields(fields) ==
  LET listed == AtPlaces(FieldOrder, OrderedIn(fields))
  IN  [i \in DOMAIN listed |-> FieldNamed(fields, listed[i])] \o AtPlaces(fields, OthersIn(fields))

Styled(fields, Style(_)) == [i \in DOMAIN fields |-> [key |-> fields[i].key, style |-> Style(fields[i])]]

ContainerDetails(fields) ==
  [badge  |-> IF FieldNamed(fields, "error_message").class = "empty" THEN "SUCCESS" ELSE "FAILED",
   fields |-> Styled(ContainerFields(fields), ContainerStyle)]

LogDetails(fields) ==
  [badge  |-> FieldNamed(fields, "level").class,
   fields |-> Styled(fields, LogStyle)]
=============================================================================
