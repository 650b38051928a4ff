---------------------------- MODULE Serialization ----------------------------
(***************************************************************************)
(* The binary encoding, src/common/serialization.  A buffer is a sequence  *)
(* of cells: a number of fixed width is one cell, and so is each character *)
(* of a string.  A buffer that ends inside a number reads like one that    *)
(* ends before it, so no finer unit is needed for truncated buffers.       *)
(***************************************************************************)
EXTENDS Integers, Sequences

WriteUint(buffer, value) == Append(buffer, value)

\* The length goes first.
WriteString(buffer, value) == WriteUint(buffer, Len(value)) \o value

\* A reader: the offset, the values read so far, and whether every read succeeded.
Reader == [offset |-> 0, values |-> <<>>, ok |-> TRUE]

Corrupted(r) == [r EXCEPT !.ok = FALSE]

\* CHECK_BOUNDS
InBounds(buffer, r, required) == r.ok /\ r.offset + required <= Len(buffer)

ReadUint(buffer, r) ==
  IF InBounds(buffer, r, 1)
  THEN [r EXCEPT !.offset = @ + 1, !.values = Append(@, buffer[r.offset + 1])]
  ELSE Corrupted(r)

\* A read of a string that takes what is there of it.
ReadStringUnchecked(buffer, r) ==
  IF ~ InBounds(buffer, r, 1) THEN Corrupted(r)
  ELSE LET length == buffer[r.offset + 1]
       IN  [r EXCEPT !.offset = @ + 1 + length,
                     !.values = Append(@, SubSeq(buffer, r.offset + 2,
                       IF r.offset + 1 + length <= Len(buffer)
                       THEN r.offset + 1 + length ELSE Len(buffer)))]

ReadString(buffer, r) ==
  IF ~ InBounds(buffer, r, 1) THEN Corrupted(r)
  ELSE LET length == buffer[r.offset + 1]
       IN  IF InBounds(buffer, r, 1 + length)
           THEN [r EXCEPT !.offset = @ + 1 + length,
                          !.values = Append(@, SubSeq(buffer, r.offset + 2,
                                                      r.offset + 1 + length))]
           ELSE Corrupted(r)
=============================================================================
