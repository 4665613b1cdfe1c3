------------------------------ MODULE LineMapping ------------------------------
(***************************************************************************)
(* Splitting one resolved access into cache lines, on unsigned words: the  *)
(* loop advances an address, an offset in the object and a remaining size, *)
(* and may have to stop at the last byte a word can address.               *)
(***************************************************************************)
EXTENDS Integers, Sequences

CONSTANTS
    MaxWord,         \* std::uint64_t's largest value
    Geometries,      \* [line_size, line_count, associativity] a caller may pass
    Addresses, Offsets, Sizes            \* of the accesses a caller may map

ASSUME MappingAssumption ==
    /\ MaxWord \in Nat
    /\ Geometries \subseteq [line_size : 0..MaxWord, line_count : 0..MaxWord,
                             associativity : 0..MaxWord]
    /\ Addresses \subseteq 0..MaxWord /\ Offsets \subseteq 0..MaxWord
    /\ Sizes \subseteq 0..MaxWord

VARIABLES
    geometry,
    linked_byte_address, object_byte_offset, access_size,    \* the range
    current_address, current_object_offset, remaining,
    line_span_ordinal,
    mapped,          \* what the sink was given
    stage            \* "called", "mapping", "done", "refused" or "threw"

range == <<geometry, linked_byte_address, object_byte_offset, access_size>>
cursor == <<current_address, current_object_offset, remaining, line_span_ordinal>>
vars == <<range, cursor, mapped, stage>>

Init ==
    /\ geometry \in Geometries
    /\ linked_byte_address \in Addresses
    /\ object_byte_offset \in Offsets
    /\ access_size \in Sizes
    /\ current_address = 0 /\ current_object_offset = 0
    /\ remaining = 0 /\ line_span_ordinal = 0
    /\ mapped = <<>>
    /\ stage = "called"

-----------------------------------------------------------------------------
IsPowerOfTwo(n) == n # 0 /\ \E e \in 0..n : n = 2^e

GeometryValid ==
    /\ IsPowerOfTwo(geometry.line_size)
    /\ IsPowerOfTwo(geometry.line_count)
    /\ IsPowerOfTwo(geometry.associativity)
    /\ geometry.associativity <= geometry.line_count

\* Mutant: the end of the range, one past its last byte, is checked.
Fits_past_end(first) == access_size <= MaxWord - first

\* The last byte of a range that starts at `first` is a word.
Fits(first) == access_size - 1 <= MaxWord - first

RangeValid ==
    /\ access_size # 0
    /\ Fits(linked_byte_address)
    /\ Fits(object_byte_offset)

Refuse ==
    /\ stage = "called"
    /\ ~RangeValid \/ ~GeometryValid
    /\ stage' = "refused"
    /\ UNCHANGED <<range, cursor, mapped>>

Start ==
    /\ stage = "called"
    /\ RangeValid /\ GeometryValid
    /\ current_address' = linked_byte_address
    /\ current_object_offset' = object_byte_offset
    /\ remaining' = access_size
    /\ line_span_ordinal' = 0
    /\ stage' = "mapping"
    /\ UNCHANGED <<range, mapped>>

line_offset == current_address % geometry.line_size

\* Mutant: every line carries the access's own offset.
Mapping_source_offset ==
    [address |-> current_address,
     block_number |-> current_address \div geometry.line_size,
     object_byte_offset |-> object_byte_offset,
     line_span_ordinal |-> line_span_ordinal]

Mapping ==
    [address |-> current_address,
     block_number |-> current_address \div geometry.line_size,
     object_byte_offset |-> current_object_offset,
     line_span_ordinal |-> line_span_ordinal]

\* Mutant: a full line is consumed wherever the access starts in it.
available_full_line == geometry.line_size

available == geometry.line_size - line_offset

consumed == IF remaining < available THEN remaining ELSE available

\* A word wraps.
Wrapped(i) == i % (MaxWord + 1)

\* The sink takes the line; the address moves only if bytes remain, because
\* behind the last byte there may be no address.
MapLine ==
    /\ stage = "mapping"
    /\ mapped' = Append(mapped, Mapping)
    /\ line_span_ordinal' = line_span_ordinal + 1
    /\ remaining' = Wrapped(remaining - consumed)
    /\ IF remaining # consumed
       THEN /\ current_address' = Wrapped(current_address + consumed)
            /\ current_object_offset' = Wrapped(current_object_offset + consumed)
            /\ UNCHANGED stage
       ELSE /\ stage' = "done"
            /\ UNCHANGED <<current_address, current_object_offset>>
    /\ UNCHANGED range

SinkThrows ==
    /\ stage = "mapping"
    /\ stage' = "threw"
    /\ UNCHANGED <<range, cursor, mapped>>

Next == Refuse \/ Start \/ MapLine \/ SinkThrows

Spec == Init /\ [][Next]_vars

-----------------------------------------------------------------------------
last_byte == linked_byte_address + access_size - 1

\* The bytes a mapping stands for: from its address to the end of its line, but
\* not past the access.
BytesOf(m) ==
    {a \in linked_byte_address .. last_byte :
        a >= m.address /\ a \div geometry.line_size = m.block_number}

TypeOK ==
    /\ stage \in {"called", "mapping", "done", "refused", "threw"}
    /\ current_address \in 0..MaxWord
    /\ current_object_offset \in 0..MaxWord
    /\ remaining \in 0..access_size
    /\ line_span_ordinal \in 0..access_size
    /\ Len(mapped) = line_span_ordinal

(* The lines partition the accessed bytes: none is missed, none belongs to  *)
(* two lines, and no line is without one, at the top of the address space   *)
(* as well, where the address behind the access does not exist.             *)
LinesPartitionAccess ==
    /\ \A i, j \in DOMAIN mapped : i # j => BytesOf(mapped[i]) \cap BytesOf(mapped[j]) = {}
    /\ \A i \in DOMAIN mapped : BytesOf(mapped[i]) # {}
    /\ stage = "done" =>
          UNION {BytesOf(mapped[i]) : i \in DOMAIN mapped} = linked_byte_address .. last_byte

(* Each mapping lies as far into the object range as into the address range *)
(* and carries its place in the access, so a line can be traced back to the *)
(* access and the bytes it came from.                                       *)
MappingsTraceBack ==
    \A i \in DOMAIN mapped :
        /\ mapped[i].object_byte_offset - object_byte_offset
              = mapped[i].address - linked_byte_address
        /\ mapped[i].object_byte_offset <= MaxWord
        /\ mapped[i].line_span_ordinal = i - 1
        /\ mapped[i].block_number
              = mapped[1].block_number + mapped[i].line_span_ordinal

(* Only a range with a byte that has no address or no offset is refused: an *)
(* access that ends at the very last byte is mapped.                        *)
RefusedForCause ==
    stage = "refused" =>
        \/ access_size = 0
        \/ \E n \in 0 .. access_size - 1 :
              linked_byte_address + n > MaxWord \/ object_byte_offset + n > MaxWord
        \/ ~GeometryValid
=============================================================================
