--------------------------- MODULE RequestFormat ---------------------------
(***************************************************************************)
(* fivis_signals_format_request, with the schema and the loops over the    *)
(* signals, and the iterator over the batch that cpumon gives it,          *)
(* cpumon_next_value: two coroutines that must agree on where a record     *)
(* ends.  A request is abstracted to its schema and its records, and a     *)
(* value to where it stands in memory.                                     *)
(***************************************************************************)
EXTENDS Integers, SequencesExt

CONSTANTS
  MaxBatch,   \* the most samples in a request
  MaxValues,  \* the most CPU times in a sample
  NULL        \* the null pointer

ASSUME RequestAssumption == MaxBatch \in Nat \ {0} /\ MaxValues \in Nat

VARIABLES
  batch,        \* how many structures are in next_value_state.samples
  value_count,  \* next_value_state.value_count
  columns,      \* the length of the list signals
  supplied,     \* is there a next_value?  cpumon has one, mksigset has none
  schema,       \* is there a schema?
  cursor,       \* next_value_state: sample, next_value, next_index
  value,        \* local variable of format_data
  asked,        \* how often next_value was called
  column,       \* the signals of the schema or of the record done so far
  output,       \* the requests in the buffer, one after the other
  step          \* where fivis_signals_format_request is

inputs == <<batch, value_count, columns, supplied, schema>>
iterator == <<cursor, value, asked>>
formatVars == <<inputs, iterator, column, output, step>>

\* Where a value stands in struct sample: id_value, ts_value, time_values[i].
Id == -2
Ts == -1
Place(s, field) == [sample |-> s, field |-> field]

Unstarted == [sample |-> NULL, next_value |-> NULL, next_index |-> 0]

\* No sample and no value is where the null pointer points.
ASSUME NullAssumption ==
  /\ NULL \notin 1..MaxBatch
  /\ NULL \notin {Place(s, f) : s \in 1..MaxBatch, f \in Id..MaxValues}

\* A request of which nothing but its opening brace and its ids is written.
Opened == [schema |-> <<>>, data |-> FALSE, records |-> <<>>, closed |-> FALSE]

\* The request that is being written, with a part replaced.
Write(part, content) == output' = [output EXCEPT ![Len(output)][part] = content]
Current == Last(output)

\* How many pieces the sbuf calls have appended; stands for sbuf_length.
Pieces(request) ==
  LET types == Len(request.schema)
      size(i) == 3 + 2 * Len(request.records[i].fields)
  IN  6 + (IF types > 0 THEN 2 * types + 1 ELSE 0)
        + MapThenSumSet(size, DOMAIN request.records)

\* First-time initialization: the first sample, its id next.
First(c) == IF c.sample = NULL /\ batch > 0
            THEN [c EXCEPT !.sample = 1, !.next_value = Place(1, Id)]
            ELSE c

-----------------------------------------------------------------------------
(* Plausible mistakes: each stands in for the definition its comment names. *)

\* Advance with "limit" values in a sample, and with an index that starts at
\* "reset" for each sample.
AdvanceWith(c, limit, reset) ==
  IF c.next_value # NULL /\ c.next_value.field = Id
    THEN [c EXCEPT !.next_value.field = Ts, !.next_index = reset]
  ELSE IF c.next_index < limit
    THEN [c EXCEPT !.next_value = Place(c.sample, c.next_index),
                   !.next_index = @ + 1]
  ELSE IF c.sample < batch
    THEN [c EXCEPT !.sample = @ + 1, !.next_value = Place(c.sample + 1, Id)]
    ELSE [c EXCEPT !.next_value = NULL]

\* One value too few, an index that is not reset.
AdvanceTooShort(c) == AdvanceWith(c, value_count - 1, 0)
AdvanceNoReset(c) == AdvanceWith(c, value_count, c.next_index)

-----------------------------------------------------------------------------
(* cpumon_next_value.                                                      *)

\* The cursor after its value was served: id, ts, the times, the next sample,
\* and after the last one NULL for ever.
Advance(c) ==
  IF c.next_value # NULL /\ c.next_value.field = Id
    THEN [c EXCEPT !.next_value.field = Ts, !.next_index = 0]
  ELSE IF c.next_index < value_count
    THEN [c EXCEPT !.next_value = Place(c.sample, c.next_index),
                   !.next_index = @ + 1]
  ELSE IF c.sample < batch
    THEN [c EXCEPT !.sample = @ + 1, !.next_value = Place(c.sample + 1, Id)]
    ELSE [c EXCEPT !.next_value = NULL]

\* A call of next_value.
NextValue ==
  LET c == First(cursor) IN
    /\ value' = c.next_value
    /\ cursor' = IF c.sample = NULL THEN c ELSE Advance(c)
    /\ asked' = asked + 1

-----------------------------------------------------------------------------
(* fivis_signals_format_request.                                           *)

\* The opening of a request goes behind what the buffer holds already.
OpenRequest ==
  /\ step = "open"
  /\ output' = Append(output, Opened)
  /\ column' = 0
  /\ step' = IF schema THEN "schema" ELSE "data"
  /\ UNCHANGED <<inputs, iterator>>

\* format_schema: the type of each signal, a comma before all but the first.
FormatType ==
  /\ step = "schema" /\ column < columns
  /\ column' = column + 1
  /\ Write("schema", Append(Current.schema,
                            [signal |-> column', comma |-> column > 0]))
  /\ UNCHANGED <<inputs, iterator, step>>

EndSchema ==
  /\ step = "schema" /\ column = columns
  /\ step' = "data"
  /\ UNCHANGED <<inputs, iterator, column, output>>

\* The data: the value before the loop; no loop at all without next_value.
FirstValue ==
  /\ step = "data" /\ supplied
  /\ NextValue
  /\ Write("data", TRUE)
  /\ step' = "record"
  /\ UNCHANGED <<inputs, column>>
NoValues ==
  /\ step = "data" /\ ~ supplied
  /\ Write("data", TRUE)
  /\ step' = "close"
  /\ UNCHANGED <<inputs, iterator, column>>

\* format_data: a record is opened and its id formatted.
OpenRecord ==
  /\ step = "record" /\ value # NULL
  /\ Write("records", Append(Current.records,
                             [id |-> value, fields |-> <<>>, end |-> "open"]))
  /\ column' = 0 /\ step' = "columns"
  /\ UNCHANGED <<inputs, iterator>>

\* A part of the record that is being written, replaced.
WriteRecord(part, content) ==
  LET written == Current.records IN
    Write("records", [written EXCEPT ![Len(written)][part] = content])

\* A signal of the list: the next value, when there is one, in its format.
FormatColumn ==
  /\ step = "columns" /\ column < columns
  /\ NextValue
  /\ column' = column + 1
  /\ IF value' = NULL THEN UNCHANGED output
     ELSE WriteRecord("fields", Append(Last(Current.records).fields,
                                       [signal |-> column', value |-> value']))
  /\ UNCHANGED <<inputs, step>>

\* The end of the list: the next value decides how the record is closed.
CloseRecord ==
  /\ step = "columns" /\ column = columns
  /\ NextValue
  /\ WriteRecord("end", IF value' # NULL THEN "comma" ELSE "last")
  /\ step' = "record"
  /\ UNCHANGED <<inputs, column>>

EndData ==
  /\ step = "record" /\ value = NULL
  /\ step' = "close"
  /\ UNCHANGED <<inputs, iterator, column, output>>

CloseRequest ==
  /\ step = "close"
  /\ Write("closed", TRUE)
  /\ step' = "done"
  /\ UNCHANGED <<inputs, iterator, column>>

\* A call of fivis_signals_format_request, and what it has to work with.  cpumon
\* has at least one sample and a fresh state for the iterator; its schema is
\* the list of signals, or NULL.  mksigset has a schema and no data.
BeginFormat(samples, given, with_schema) ==
  /\ batch' = samples /\ supplied' = given /\ schema' = with_schema
  /\ cursor' = Unstarted /\ value' = NULL /\ asked' = 0
  /\ step' = "open"
  /\ UNCHANGED <<value_count, columns, column>>

\* The two programs: mksigset has four signals, cpumon a timestamp and a signal
\* for each CPU time.
FormatInit(program) ==
  /\ IF program = "cpumon"
       THEN value_count \in 0..MaxValues /\ columns = value_count + 1
       ELSE value_count = 0 /\ columns = 4
  /\ batch = 0 /\ supplied = FALSE /\ schema = FALSE
  /\ cursor = Unstarted /\ value = NULL /\ asked = 0 /\ column = 0
  /\ output = <<>> /\ step = "done"

FormatNext ==
  \/ OpenRequest \/ FormatType \/ EndSchema \/ FirstValue \/ NoValues
  \/ OpenRecord \/ FormatColumn \/ CloseRecord \/ EndData \/ CloseRequest

-----------------------------------------------------------------------------
(* Properties.                                                             *)

\* The record the server should get for a sample: its id, each of its values
\* under the signal it belongs to, and a comma if another record follows.
Expected(s) == [id |-> Place(s, Id),
                fields |-> [c \in 1..columns |->
                              [signal |-> c, value |-> Place(s, c - 2)]],
                end |-> IF s < batch THEN "comma" ELSE "last"]

\* A request has one whole record for each sample, in order.
OneRecordPerSample ==
  step = "close" => Current.records = [s \in 1..batch |-> Expected(s)]

\* The README on next_value: when it returns NULL, the iteration ends.  With the
\* iterator of cpumon it is asked once for each value, and once more at the end.
\* The iterator is exhausted then: it has come to the last sample, and another
\* call would answer NULL again and leave it where it is.
EndsAtNull ==
  /\ asked <= batch * (columns + 1) + 1
  /\ step = "close" /\ supplied =>
       /\ asked = batch * (columns + 1) + 1
       /\ cursor.sample = batch /\ cursor.next_value = NULL
       /\ First(cursor) = cursor /\ Advance(cursor) = cursor

\* The whole request: each signal in the schema, when there is one, and a record
\* for each sample.
Whole == [schema |-> IF schema THEN [c \in 1..columns |->
                                       [signal |-> c, comma |-> c > 1]]
                               ELSE <<>>,
          data |-> TRUE,
          records |-> [s \in 1..batch |-> Expected(s)],
          closed |-> TRUE]
=============================================================================
