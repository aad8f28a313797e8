--------------------------- MODULE StageSegments ---------------------------
(***************************************************************************)
(* The published stage segments of                                         *)
(* src/arrayscope/operations/stage_segments.py: copies, in shared memory,  *)
(* of stage values, for worker processes to map.  One registry serves the  *)
(* caches of all windows; its keys do not name the window.                 *)
(*                                                                         *)
(* A value is the key of its stage and the number of the call that         *)
(* computed it.  A segment goes by the value it was copied from: a value   *)
(* is put in a cache, and so published, once.                              *)
(***************************************************************************)
EXTENDS Integers, FiniteSets

CONSTANTS
    StageKeys,      \* what StageKey tells apart
    Size,           \* [StageKeys -> Nat]: the size of a stage, in pages
    MaxCalls,       \* bound: calls that look a stage up
    NoValue

Calls == 1..MaxCalls
Values == StageKeys \X Calls
KeyOf(v) == v[1]
Pages(V) == UNION {{v} \X (1..Size[KeyOf(v)]) : v \in V}
Bytes(V) == Cardinality(Pages(V))

ASSUME SegmentsAssumption ==
    /\ MaxCalls \in Nat
    /\ Size \in [StageKeys -> Nat]
    /\ NoValue \notin Values

VARIABLES
    published,      \* [StageKeys -> the value published under the key]: _published
    segments,       \* the values that have a segment in shared memory
    publishedBytes  \* _published_bytes

segmentVars == <<published, segments, publishedBytes>>

Registered == {published[k] : k \in StageKeys} \ {NoValue}

SegmentsInit ==
    /\ published = [k \in StageKeys |-> NoValue]
    /\ segments = {}
    /\ publishedBytes = 0

\* Every step ends with the registry it makes (a registration, a reservation)
\* less what it releases: the values the cache gives up by name
\* (release_stage_value) and those nothing refers to any more, whose weak
\* reference calls back at once (_release_dead).
Settle(table, live, bytes, released, alive) ==
    LET freed == {table[k] : k \in StageKeys} \cap (released \cup (Values \ alive))
    IN  /\ published' = [k \in StageKeys |-> IF table[k] \in freed THEN NoValue ELSE table[k]]
        /\ segments' = live \ freed
        /\ publishedBytes' = bytes - Bytes(freed)

Released(released, alive) == Settle(published, segments, publishedBytes, released, alive)

HasRoom(v, budget) == publishedBytes + Size[KeyOf(v)] <= budget

\* Mutant: the bytes of the segment are not counted.
Reserved_Uncounted(v, alive) == Settle(published, segments \cup {v}, publishedBytes, {}, alive)

\* publish_stage_value, first critical section: bytes and segment, before the copy.
Reserved(v, alive) ==
    Settle(published, segments \cup {v}, publishedBytes + Size[KeyOf(v)], {}, alive)

\* The copy raised: bytes and segment are given back.
Unreserved(v, alive) ==
    Settle(published, segments \ {v}, publishedBytes - Size[KeyOf(v)], {}, alive)

\* Mutant: the superseded segment is not unlinked.
Registers_KeepsOld(v, alive) ==
    Settle([published EXCEPT ![KeyOf(v)] = v], segments, publishedBytes, {}, alive)

\* The second one: the copy is registered under its key, and the one that was
\* there unlinked.  Its bytes stay counted.
Registers(v, alive) ==
    Settle([published EXCEPT ![KeyOf(v)] = v], segments \ {published[KeyOf(v)]}, publishedBytes,
           {}, alive)

SegmentsTypeOK ==
    /\ published \in [StageKeys -> Values \cup {NoValue}]
    /\ segments \subseteq Values
    /\ publishedBytes \in Nat
=============================================================================
