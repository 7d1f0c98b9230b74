------------------------------ MODULE Segments ------------------------------
(***************************************************************************)
(* Directories of JSONL segment files, as the ESP32 spool and the Pi       *)
(* history store both keep them: the records of each file, by its name.    *)
(* Names are numbers that grow with the time of creation, and so does      *)
(* their order.  A record counts one unit of space.                        *)
(***************************************************************************)
EXTENDS Naturals, SequencesExt

CONSTANTS NoSegment,   \* no current segment
          Torn         \* a line that is not a complete JSON object

ASSUME SegmentsAssumption == NoSegment \notin Nat /\ Torn \notin Nat

NoFiles == [id \in {} |-> <<>>]

\* Every record by its file and its line.
Records(files) == UNION {{id} \X DOMAIN files[id] : id \in DOMAIN files}

Used(files) == Cardinality(Records(files))

Oldest(files) == CHOOSE id \in DOMAIN files : \A other \in DOMAIN files : id <= other

Drop(files, id) == Restrict(files, DOMAIN files \ {id})

Create(files, id) ==
    [name \in DOMAIN files \cup {id} |-> IF name = id THEN <<>> ELSE files[name]]

AppendTo(files, id, line) == [files EXCEPT ![id] = Append(@, line)]

\* The lines up to the first one that does not parse.
ValidPrefix(lines) ==
    SubSeq(lines, 1, CHOOSE n \in 0..Len(lines) :
                        /\ \A i \in 1..n : lines[i] # Torn
                        /\ n < Len(lines) => lines[n + 1] = Torn)

\* Mutant: the current segment is the first victim.
PrunedCurrentFirst(files, current) ==
    {files, Restrict(files, {})} \cup
        {Restrict(files, {id \in DOMAIN files \ {current} : id >= first}) :
            first \in DOMAIN files}

\* The directory while victims are removed: the oldest first, the current segment when
\* nothing else is left.
Pruned(files, current) ==
    {Restrict(files, {}), Restrict(files, DOMAIN files \cap {current})} \cup
        {Restrict(files, {id \in DOMAIN files : id = current \/ id >= first}) :
            first \in DOMAIN files}

\* Victims are removed until what is left fits, or nothing is left.
LeastPruned(left, fitting) ==
    LET enough == {files \in left : DOMAIN files = {} \/ files \in fitting}
    IN  CHOOSE files \in enough : \A other \in enough : DOMAIN other \subseteq DOMAIN files

=============================================================================
