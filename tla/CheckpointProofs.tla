-------------------------- MODULE CheckpointProofs ---------------------------
(***************************************************************************)
(* The checkpoint manager and the hybrid logical clock.  Both write numbers *)
(* into a format of fixed layout, a file or a machine word, and both rest  *)
(* on that format losing nothing.                                          *)
(*                                                                         *)
(* The checkpoint manager is taken with any number of threads that save any *)
(* checkpoints, with failing writes and renames, crashes of the process at *)
(* any step and losses of power.  The file format is shown to lose nothing *)
(* by counting through the files of a checkpoint; with it, SaveCheckpoint  *)
(* is atomic, and no part of a file is ever loaded.                        *)
(***************************************************************************)
EXTENDS Checkpoint, HLC, WellFoundedInduction, TLAPS

----------------------------------------------------------------------------
(* The encoding loses nothing, and a part of a file is never taken for one.*)

\* A file, as the sequence of its cells.
Buffer == Seq(Nat)

\* The buffer b is the beginning of `file'.
Begins(b, file) ==
  /\ b \in Buffer /\ file \in Buffer
  /\ Len(b) <= Len(file)
  /\ \A i \in 1 .. Len(b) : file[i] = b[i]

\* What one read returns: a number or a string.
Value == Nat \cup Seq(Nat)

\* Either `file' goes up to `offset' and so far `values' were read, or a read has failed.
ReadTo(file, r, offset, values) ==
  /\ r \in [offset : Nat, values : Seq(Value), ok : BOOLEAN]
  /\ IF offset <= Len(file) THEN r = [offset |-> offset, values |-> values, ok |-> TRUE]
     ELSE r.ok = FALSE

\* A part of a sequence, and a sequence with one more element.
LEMMA SequenceParts ==
  ASSUME NEW V, NEW s \in Seq(V)
  PROVE  /\ \A e \in V : Append(s, e) \in Seq(V)
         /\ \A m \in 1 .. Len(s) + 1 : \A n \in m - 1 .. Len(s) :
              /\ SubSeq(s, m, n) \in Seq(V) /\ Len(SubSeq(s, m, n)) = n - m + 1
              /\ \A i \in 1 .. n - m + 1 : SubSeq(s, m, n)[i] = s[m + i - 1]
OBVIOUS

\* Sequences that agree everywhere are the same.
LEMMA SameSequence ==
  ASSUME NEW V, NEW s \in Seq(V), NEW t \in Seq(V),
         Len(s) = Len(t), \A i \in 1 .. Len(t) : s[i] = t[i]
  PROVE  s = t
OBVIOUS

\* A number is written behind what is there.
LEMMA UintBehind ==
  ASSUME NEW b \in Buffer, NEW n \in Nat
  PROVE  /\ WriteUint(b, n) \in Buffer /\ Len(WriteUint(b, n)) = Len(b) + 1
         /\ WriteUint(b, n)[Len(b) + 1] = n
         /\ \A i \in 1 .. Len(b) : WriteUint(b, n)[i] = b[i]
BY DEF WriteUint, Buffer

\* So a file that begins with both begins with what was there.
LEMMA UintBegins ==
  ASSUME NEW b \in Buffer, NEW n \in Nat, NEW file, Begins(WriteUint(b, n), file)
  PROVE  Begins(b, file) /\ file[Len(b) + 1] = n
<1>1. Len(b) \in Nat /\ Len(file) \in Nat
  BY DEF Begins, Buffer
<1>2. PICK c : c = WriteUint(b, n)
  BY ZenonT(30)
<1>3. /\ c \in Buffer /\ Len(c) = Len(b) + 1 /\ c[Len(b) + 1] = n
      /\ \A i \in 1 .. Len(b) : c[i] = b[i]
  BY <1>2, UintBehind, Zenon
<1>4. Begins(c, file)
  BY <1>2, Zenon
<1> QED
  BY <1>1, <1>3, <1>4 DEF Begins

\* A string is written behind what is there, after its length.
LEMMA StringBehind ==
  ASSUME NEW b \in Buffer, NEW s \in Seq(Nat)
  PROVE  /\ WriteString(b, s) \in Buffer /\ Len(WriteString(b, s)) = Len(b) + 1 + Len(s)
         /\ WriteString(b, s)[Len(b) + 1] = Len(s)
         /\ \A i \in 1 .. Len(b) : WriteString(b, s)[i] = b[i]
         /\ \A i \in 1 .. Len(s) : WriteString(b, s)[Len(b) + 1 + i] = s[i]
<1>1. Len(s) \in Nat /\ Len(b) \in Nat
  BY DEF Buffer
<1> DEFINE c == WriteUint(b, Len(s))
<1>2. /\ c \in Buffer /\ Len(c) = Len(b) + 1 /\ c[Len(b) + 1] = Len(s)
      /\ \A i \in 1 .. Len(b) : c[i] = b[i]
  BY <1>1, UintBehind, Zenon
<1> HIDE DEF c
<1>3. c \in Seq(Nat) /\ Len(c) \in Nat
  BY <1>2 DEF Buffer
<1>4. /\ c \o s \in Buffer /\ Len(c \o s) = Len(c) + Len(s)
      /\ \A i \in 1 .. Len(c) : (c \o s)[i] = c[i]
  BY <1>1, <1>3 DEF Buffer
<1>5. ASSUME NEW i \in 1 .. Len(s) PROVE (c \o s)[Len(c) + i] = s[i]
  <2>1. Len(c) + i \in Len(c) + 1 .. Len(c) + Len(s) /\ (Len(c) + i) - Len(c) = i
    BY <1>1, <1>3
  <2> QED
    BY <1>1, <1>3, <2>1
<1>6. WriteString(b, s) = c \o s
  BY Zenon DEF WriteString, c
<1> QED
  BY <1>1, <1>2, <1>4, <1>5, <1>6

\* So a file that begins with both begins with what was there.
LEMMA StringBegins ==
  ASSUME NEW b \in Buffer, NEW s \in Seq(Nat), NEW file, Begins(WriteString(b, s), file)
  PROVE  /\ Begins(b, file)
         /\ file[Len(b) + 1] = Len(s)
         /\ \A i \in 1 .. Len(s) : file[Len(b) + 1 + i] = s[i]
<1>1. Len(b) \in Nat /\ Len(file) \in Nat /\ Len(s) \in Nat
  BY DEF Begins, Buffer
<1>2. PICK c : c = WriteString(b, s)
  BY Zenon
<1>3. /\ c \in Buffer /\ Len(c) = Len(b) + 1 + Len(s) /\ c[Len(b) + 1] = Len(s)
      /\ \A i \in 1 .. Len(b) : c[i] = b[i]
      /\ \A i \in 1 .. Len(s) : c[Len(b) + 1 + i] = s[i]
  BY <1>2, StringBehind, Zenon
<1>4. /\ \A i \in 1 .. Len(c) : file[i] = c[i]
      /\ Len(c) <= Len(file) /\ file \in Buffer
  BY <1>2, Zenon DEF Begins
<1>5. Begins(b, file)
  BY <1>1, <1>3, <1>4 DEF Begins
<1>6. \A i \in 1 .. Len(s) : Len(b) + 1 + i \in 1 .. Len(c)
  BY <1>1, <1>3
<1>7. \A i \in 1 .. Len(s) : file[Len(b) + 1 + i] = s[i]
  BY <1>3, <1>4, <1>6, Zenon
<1>8. file[Len(b) + 1] = Len(s)
  BY <1>1, <1>3, <1>4
<1> QED
  BY <1>5, <1>7, <1>8, Zenon

\* A number is read back, unless the file is cut off before its end.
LEMMA ReadsUint ==
  ASSUME NEW whole, NEW file, Begins(file, whole),
         NEW b \in Buffer, NEW n \in Nat, Begins(WriteUint(b, n), whole),
         NEW r, NEW values \in Seq(Value), ReadTo(file, r, Len(b), values)
  PROVE  ReadTo(file, ReadUint(file, r), Len(WriteUint(b, n)), Append(values, n))
<1>1. /\ Len(WriteUint(b, n)) = Len(b) + 1 /\ whole[Len(b) + 1] = n
      /\ Len(b) \in Nat /\ Len(file) \in Nat /\ Len(whole) \in Nat
  <2>1. Len(WriteUint(b, n)) = Len(b) + 1 /\ whole[Len(b) + 1] = n
    BY UintBehind, UintBegins
  <2>2. Len(b) \in Nat /\ Len(file) \in Nat /\ Len(whole) \in Nat
    BY DEF Begins, Buffer
  <2> QED
    BY <2>1, <2>2, ZenonT(30)
<1>2. Append(values, n) \in Seq(Value)
  BY DEF Value
<1>3. CASE Len(b) + 1 <= Len(file)
  <2>1. r = [offset |-> Len(b), values |-> values, ok |-> TRUE]
    BY <1>1, <1>3 DEF ReadTo
  <2>2. file[Len(b) + 1] = n
    BY <1>1, <1>3 DEF Begins
  <2>3. ReadUint(file, r) = [offset |-> Len(b) + 1, values |-> Append(values, n), ok |-> TRUE]
    BY <1>3, <2>1, <2>2, Zenon DEF ReadUint, InBounds
  <2> QED
    BY <1>1, <1>2, <1>3, <2>3 DEF ReadTo
<1>4. CASE ~ (Len(b) + 1 <= Len(file))
  <2>1. ~ InBounds(file, r, 1) /\ r \in [offset : Nat, values : Seq(Value), ok : BOOLEAN]
    BY <1>1, <1>4 DEF ReadTo, InBounds
  <2>2. ReadUint(file, r) = [r EXCEPT !.ok = FALSE]
    BY <2>1, Zenon DEF ReadUint, Corrupted
  <2> QED
    BY <1>1, <1>4, <2>1, <2>2, Zenon DEF ReadTo
<1> QED
  BY <1>3, <1>4, ZenonT(30)

\* So is a string.
LEMMA ReadsString ==
  ASSUME NEW whole, NEW file, Begins(file, whole),
         NEW b \in Buffer, NEW s \in Seq(Nat), Begins(WriteString(b, s), whole),
         NEW r, NEW values \in Seq(Value), ReadTo(file, r, Len(b), values)
  PROVE  ReadTo(file, ReadString(file, r), Len(WriteString(b, s)), Append(values, s))
<1> DEFINE end == Len(b) + 1 + Len(s)
<1>1. /\ Len(WriteString(b, s)) = end /\ whole[Len(b) + 1] = Len(s)
      /\ \A i \in 1 .. Len(s) : whole[Len(b) + 1 + i] = s[i]
      /\ Len(b) \in Nat /\ Len(file) \in Nat /\ Len(whole) \in Nat /\ Len(s) \in Nat
  <2>1. /\ Len(WriteString(b, s)) = end /\ whole[Len(b) + 1] = Len(s)
        /\ \A i \in 1 .. Len(s) : whole[Len(b) + 1 + i] = s[i]
    BY StringBehind, StringBegins
  <2>2. Len(b) \in Nat /\ Len(file) \in Nat /\ Len(whole) \in Nat /\ Len(s) \in Nat
    BY DEF Begins, Buffer
  <2> QED
    BY <2>1, <2>2, Zenon
<1>2. Append(values, s) \in Seq(Value)
  <2>1. s \in Value
    BY ZenonT(30) DEF Value
  <2> QED
    BY <2>1, SequenceParts, Zenon
<1>3. CASE end <= Len(file)
  <2>1. r = [offset |-> Len(b), values |-> values, ok |-> TRUE]
    BY <1>1, <1>3 DEF ReadTo
  <2>2. file[Len(b) + 1] = Len(s)
    BY <1>1, <1>3, SMTT(30) DEF Begins
  <2>3. SubSeq(file, Len(b) + 2, end) = s
    <3>1. file \in Seq(Nat)
      BY ZenonT(30) DEF Begins, Buffer
    <3>2. PICK m : m = Len(b) + 2
      BY Zenon
    <3>4. m \in 1 .. Len(file) + 1 /\ end \in m - 1 .. Len(file) /\ end - m + 1 = Len(s)
      BY <1>1, <1>3, <3>2
    <3>5. \A i \in 1 .. Len(s) : m + i - 1 = Len(b) + 1 + i
      BY <1>1, <3>2
    <3>6. /\ SubSeq(file, m, end) \in Seq(Nat) /\ Len(SubSeq(file, m, end)) = Len(s)
          /\ \A i \in 1 .. Len(s) : SubSeq(file, m, end)[i] = file[m + i - 1]
      <4> HIDE DEF end
      <4>1. /\ SubSeq(file, m, end) \in Seq(Nat) /\ Len(SubSeq(file, m, end)) = end - m + 1
            /\ \A i \in 1 .. end - m + 1 : SubSeq(file, m, end)[i] = file[m + i - 1]
        BY <3>1, <3>4, SequenceParts, Zenon
      <4> QED
        BY <3>4, <4>1, ZenonT(30)
    <3>3. \A i \in 1 .. Len(s) : file[Len(b) + 1 + i] = s[i]
      <4> TAKE i \in 1 .. Len(s)
      <4>1. Len(b) + 1 + i \in 1 .. Len(file)
        BY <1>1, <1>3, SMTT(30)
      <4> QED
        BY <1>1, <4>1, Zenon DEF Begins
    <3>7. \A i \in 1 .. Len(s) : SubSeq(file, m, end)[i] = s[i]
      BY <3>3, <3>5, <3>6, Zenon
    <3> QED
      <4> HIDE DEF end
      <4>1. SubSeq(file, m, end) = s
        BY <3>6, <3>7, SameSequence, Zenon
      <4> QED
        BY <3>2, <4>1, ZenonT(30)
  <2>4. ReadString(file, r) = [offset |-> end, values |-> Append(values, s), ok |-> TRUE]
    <3>1. r.offset = Len(b) /\ r.ok /\ r.values = values
      BY <2>1, ZenonT(30)
    <3>2. InBounds(file, r, 1) /\ InBounds(file, r, 1 + Len(s)) /\ file[r.offset + 1] = Len(s)
      BY <1>1, <1>3, <2>2, <3>1, SMTT(30) DEF InBounds
    <3>3. ReadString(file, r) =
            [r EXCEPT !.offset = @ + 1 + Len(s),
                      !.values = Append(@, SubSeq(file, Len(b) + 2, Len(b) + 1 + Len(s)))]
      BY <3>1, <3>2, Zenon DEF ReadString
    <3> QED
      BY <2>1, <2>3, <3>3, Zenon
  <2> QED
    BY <1>1, <1>2, <1>3, <2>4 DEF ReadTo
<1>4. CASE ~ (end <= Len(file))
  <2>1. r \in [offset : Nat, values : Seq(Value), ok : BOOLEAN]
    BY Zenon DEF ReadTo
  <2>2. CASE ~ InBounds(file, r, 1)
    <3>1. ReadString(file, r) = [r EXCEPT !.ok = FALSE]
      BY <2>2, Zenon DEF ReadString, Corrupted
    <3> QED
      BY <1>1, <1>4, <2>1, <3>1, Zenon DEF ReadTo
  <2>3. CASE InBounds(file, r, 1)
    <3>1. r.ok /\ Len(b) <= Len(file)
      BY <2>3, Zenon DEF InBounds, ReadTo
    <3>2. r = [offset |-> Len(b), values |-> values, ok |-> TRUE] /\ Len(b) + 1 <= Len(file)
      BY <2>3, <3>1 DEF InBounds, ReadTo
    <3>3. file[Len(b) + 1] = Len(s)
      BY <1>1, <3>2, SMTT(30) DEF Begins
    <3>4. ReadString(file, r) = [r EXCEPT !.ok = FALSE]
      BY <1>1, <1>4, <2>3, <3>2, <3>3, SMTT(30) DEF ReadString, InBounds, Corrupted
    <3> QED
      BY <1>1, <1>4, <2>1, <3>4, Zenon DEF ReadTo
  <2> QED
    BY <2>2, <2>3, Zenon
<1> QED
  BY <1>3, <1>4, Zenon

\* The entry of a file is written as three numbers and three strings.
LEMMA MetaBehind ==
  ASSUME NEW b \in Buffer, NEW meta \in SSTableMeta
  PROVE  /\ WriteMeta(b, meta) \in Buffer
         /\ \A file : Begins(WriteMeta(b, meta), file) => Begins(b, file)
<1>1. /\ meta.level \in Nat /\ meta.file_size_bytes \in Nat /\ meta.sequence_number \in Nat
      /\ meta.smallest_key \in Seq(Nat) /\ meta.largest_key \in Seq(Nat)
      /\ meta.filepath \in Seq(Nat)
  BY ZenonT(30) DEF SSTableMeta
<1>2. PICK b1 \in Buffer : b1 = WriteUint(b, meta.level)
  BY <1>1, UintBehind, Zenon
<1>3. PICK b2 \in Buffer : b2 = WriteUint(b1, meta.file_size_bytes)
  BY <1>1, UintBehind, Zenon
<1>4. PICK b3 \in Buffer : b3 = WriteUint(b2, meta.sequence_number)
  BY <1>1, UintBehind, Zenon
<1>5. PICK b4 \in Buffer : b4 = WriteString(b3, meta.smallest_key)
  BY <1>1, StringBehind, Zenon
<1>6. PICK b5 \in Buffer : b5 = WriteString(b4, meta.largest_key)
  BY <1>1, StringBehind, Zenon
<1>7. PICK b6 \in Buffer : b6 = WriteString(b5, meta.filepath)
  BY <1>1, StringBehind, Zenon
<1>8. b6 = WriteMeta(b, meta)
  BY <1>2, <1>3, <1>4, <1>5, <1>6, <1>7, Zenon DEF WriteMeta
<1>9. ASSUME NEW file, Begins(b6, file) PROVE Begins(b, file)
  <2>1. Begins(b5, file)
    BY <1>1, <1>7, <1>9, StringBegins, Zenon
  <2>2. Begins(b4, file)
    BY <1>1, <1>6, <2>1, StringBegins, Zenon
  <2>3. Begins(b3, file)
    BY <1>1, <1>5, <2>2, StringBegins, Zenon
  <2>4. Begins(b2, file)
    BY <1>1, <1>4, <2>3, UintBegins, Zenon
  <2>5. Begins(b1, file)
    BY <1>1, <1>3, <2>4, UintBegins, Zenon
  <2> QED
    BY <1>1, <1>2, <2>5, UintBegins, Zenon
<1> QED
  BY <1>8, <1>9, Zenon

\* The values read for it.
WithMeta(values, meta) ==
  Append(Append(Append(Append(Append(Append(values, meta.level), meta.file_size_bytes),
    meta.sequence_number), meta.smallest_key), meta.largest_key), meta.filepath)

\* They are read back, unless the file is cut off before their end.
LEMMA ReadsMeta ==
  ASSUME NEW whole, NEW file, Begins(file, whole),
         NEW b \in Buffer, NEW meta \in SSTableMeta, Begins(WriteMeta(b, meta), whole),
         NEW r, NEW values \in Seq(Value), ReadTo(file, r, Len(b), values)
  PROVE  /\ WithMeta(values, meta) \in Seq(Value)
         /\ ReadTo(file, ReadMeta(file, r), Len(WriteMeta(b, meta)), WithMeta(values, meta))
<1>1. /\ meta.level \in Nat /\ meta.file_size_bytes \in Nat /\ meta.sequence_number \in Nat
      /\ meta.smallest_key \in Seq(Nat) /\ meta.largest_key \in Seq(Nat)
      /\ meta.filepath \in Seq(Nat)
  BY Zenon DEF SSTableMeta
<1>2. PICK b1 \in Buffer : b1 = WriteUint(b, meta.level)
  BY <1>1, UintBehind, Zenon
<1>3. PICK b2 \in Buffer : b2 = WriteUint(b1, meta.file_size_bytes)
  BY <1>1, UintBehind, Zenon
<1>4. PICK b3 \in Buffer : b3 = WriteUint(b2, meta.sequence_number)
  BY <1>1, UintBehind, Zenon
<1>5. PICK b4 \in Buffer : b4 = WriteString(b3, meta.smallest_key)
  BY <1>1, StringBehind, Zenon
<1>6. PICK b5 \in Buffer : b5 = WriteString(b4, meta.largest_key)
  BY <1>1, StringBehind, Zenon
<1>7. PICK b6 \in Buffer : b6 = WriteString(b5, meta.filepath)
  BY <1>1, StringBehind, Zenon
<1>8. b6 = WriteMeta(b, meta)
  BY <1>2, <1>3, <1>4, <1>5, <1>6, <1>7, Zenon DEF WriteMeta
<1>9. /\ Begins(b6, whole) /\ Begins(b5, whole) /\ Begins(b4, whole)
      /\ Begins(b3, whole) /\ Begins(b2, whole) /\ Begins(b1, whole) /\ Begins(b, whole)
  <2>1. Begins(b6, whole)
    BY <1>8, Zenon
  <2>2. Begins(b5, whole)
    BY <1>1, <1>7, <2>1, StringBegins, Zenon
  <2>3. Begins(b4, whole)
    BY <1>1, <1>6, <2>2, StringBegins, Zenon
  <2>4. Begins(b3, whole)
    BY <1>1, <1>5, <2>3, StringBegins, Zenon
  <2>5. Begins(b2, whole)
    BY <1>1, <1>4, <2>4, UintBegins, Zenon
  <2>6. Begins(b1, whole)
    BY <1>1, <1>3, <2>5, UintBegins, Zenon
  <2>7. Begins(b, whole)
    BY <1>1, <1>2, <2>6, UintBegins, Zenon
  <2> QED
    BY <2>1, <2>2, <2>3, <2>4, <2>5, <2>6, <2>7, Zenon
<1>10. \A v \in Seq(Value) : (\A n \in Nat : Append(v, n) \in Seq(Value))
                             /\ (\A s \in Seq(Nat) : Append(v, s) \in Seq(Value))
  <2>1. Nat \subseteq Value /\ Seq(Nat) \subseteq Value
    BY Zenon DEF Value
  <2> QED
    BY <2>1, SequenceParts, Zenon
<1>11. PICK v1 \in Seq(Value) : v1 = Append(values, meta.level)
  BY <1>1, <1>10, Zenon
<1>12. PICK v2 \in Seq(Value) : v2 = Append(v1, meta.file_size_bytes)
  BY <1>1, <1>10, Zenon
<1>13. PICK v3 \in Seq(Value) : v3 = Append(v2, meta.sequence_number)
  BY <1>1, <1>10, Zenon
<1>14. PICK v4 \in Seq(Value) : v4 = Append(v3, meta.smallest_key)
  BY <1>1, <1>10, Zenon
<1>15. PICK v5 \in Seq(Value) : v5 = Append(v4, meta.largest_key)
  BY <1>1, <1>10, Zenon
<1>16. PICK v6 \in Seq(Value) : v6 = Append(v5, meta.filepath)
  BY <1>1, <1>10, Zenon
<1>17. v6 = WithMeta(values, meta)
  BY <1>11, <1>12, <1>13, <1>14, <1>15, <1>16, Zenon DEF WithMeta
<1>18. PICK r1 : r1 = ReadUint(file, r)
  BY Zenon
<1>19. PICK r2 : r2 = ReadUint(file, r1)
  BY Zenon
<1>20. PICK r3 : r3 = ReadUint(file, r2)
  BY Zenon
<1>21. PICK r4 : r4 = ReadString(file, r3)
  BY ZenonT(30)
<1>22. PICK r5 : r5 = ReadString(file, r4)
  BY ZenonT(30)
<1>23. ReadMeta(file, r) = ReadString(file, r5)
  BY <1>18, <1>19, <1>20, <1>21, <1>22, Zenon DEF ReadMeta
<1>24. ReadTo(file, r1, Len(b1), v1)
  BY <1>1, <1>2, <1>9, <1>11, <1>18, ReadsUint, Zenon
<1>25. ReadTo(file, r2, Len(b2), v2)
  BY <1>1, <1>3, <1>9, <1>12, <1>19, <1>24, ReadsUint, ZenonT(30)
<1>26. ReadTo(file, r3, Len(b3), v3)
  BY <1>1, <1>4, <1>9, <1>13, <1>20, <1>25, ReadsUint, ZenonT(30)
<1>27. ReadTo(file, r4, Len(b4), v4)
  BY <1>1, <1>5, <1>9, <1>14, <1>21, <1>26, ReadsString, Zenon
<1>28. ReadTo(file, r5, Len(b5), v5)
  BY <1>1, <1>6, <1>9, <1>15, <1>22, <1>27, ReadsString, ZenonT(30)
<1>29. ReadTo(file, ReadString(file, r5), Len(b6), v6)
  BY <1>1, <1>7, <1>9, <1>16, <1>28, ReadsString, Zenon
<1> QED
  BY <1>8, <1>9, <1>17, <1>23, <1>29, Zenon

\* The entry can be taken out of the values again, and the others are unchanged.
LEMMA MetaRead ==
  ASSUME NEW values \in Seq(Value), NEW meta \in SSTableMeta
  PROVE  /\ WithMeta(values, meta) \in Seq(Value)
         /\ Len(WithMeta(values, meta)) = Len(values) + 6
         /\ \A i \in 1 .. Len(values) : WithMeta(values, meta)[i] = values[i]
         /\ MetaAt(WithMeta(values, meta), Len(values)) = meta
<1>1. /\ meta.level \in Value /\ meta.file_size_bytes \in Value /\ meta.sequence_number \in Value
      /\ meta.smallest_key \in Value /\ meta.largest_key \in Value /\ meta.filepath \in Value
  BY Zenon DEF SSTableMeta, Value
<1> DEFINE w == WithMeta(values, meta)
<1>2. /\ w \in Seq(Value) /\ Len(values) \in Nat /\ Len(w) = Len(values) + 6
      /\ \A i \in 1 .. Len(values) : w[i] = values[i]
      /\ w[Len(values) + 1] = meta.level /\ w[Len(values) + 2] = meta.file_size_bytes
      /\ w[Len(values) + 3] = meta.sequence_number /\ w[Len(values) + 4] = meta.smallest_key
      /\ w[Len(values) + 5] = meta.largest_key /\ w[Len(values) + 6] = meta.filepath
  BY <1>1, SMTT(30) DEF WithMeta
<1> HIDE DEF w
<1>3. MetaAt(w, Len(values)) = meta
  BY <1>2, Zenon DEF MetaAt, SSTableMeta
<1> QED
  BY <1>2, <1>3, Zenon DEF w

\* Counting up from zero reaches every number up to N.
LEMMA Counting ==
  ASSUME NEW N \in Nat, NEW S, 0 \in S, \A n \in 0 .. N - 1 : n \in S => n + 1 \in S
  PROVE  \A n \in 0 .. N : n \in S
<1> DEFINE Bad == {n \in 0 .. N : n \notin S}
<1> SUFFICES ASSUME Bad # {} PROVE FALSE
  BY Zenon
<1>1. PICK x \in Bad : \A y \in Bad : ~ (<<y, x>> \in OpToRel(<, Nat))
  <2>1. Bad \subseteq Nat
    OBVIOUS
  <2> HIDE DEF Bad
  <2> QED
    BY <2>1, NatLessThanWellFounded, WFMin, Zenon
<1>2. \A y \in Bad : ~ (y < x)
  <2>1. Bad \subseteq Nat
    OBVIOUS
  <2> HIDE DEF Bad
  <2> QED
    BY <1>1, <2>1, Zenon DEF OpToRel
<1>3. x # 0 /\ x - 1 \in 0 .. N - 1 /\ x - 1 \notin Bad
  BY <1>2
<1> QED
  BY <1>3

\* f[m] is what is in the buffer after the first m files of the checkpoint.
Written(c, n, f) ==
  f = [m \in 0 .. n |->
         IF m = 0 THEN WriteUint(WriteUint(<<>>, c.last_flushed_lsn), Len(c.sstables))
         ELSE WriteMeta(f[m - 1], c.sstables[m])]

\* g[m] is the reader after the header and m files.
Reads(file, header, n, g) ==
  g = [m \in 0 .. n |-> IF m = 0 THEN header ELSE ReadMeta(file, g[m - 1])]

\* The checkpoint that is made of what reader r has read.
Taken(r, num_files) ==
  IF ~ r.ok THEN Error
  ELSE [last_flushed_lsn |-> r.values[1],
        sstables |-> [i \in 1 .. num_files |-> MetaAt(r.values, 6 * i - 4)]]

\* The loop of SaveCheckpoint, for any number of files.
LEMMA SerializedIsWritten ==
  ASSUME NEW c \in CheckpointRecord
  PROVE  \E f : Written(c, Len(c.sstables), f) /\ Serialized(c) = f[Len(c.sstables)]
<1>1. PICK N : N = Len(c.sstables)
  BY Zenon
<1>2. N \in Nat
  BY <1>1 DEF CheckpointRecord
<1> DEFINE S == {n \in 0 .. N : \E f : Written(c, n, f)}
<1>3. 0 \in S
  <2>1. Written(c, 0, [m \in 0 .. 0 |->
                         WriteUint(WriteUint(<<>>, c.last_flushed_lsn), Len(c.sstables))])
    BY DEF Written
  <2> QED
    BY <1>2, <2>1
<1>4. ASSUME NEW n \in 0 .. N - 1, n \in S PROVE n + 1 \in S
  <2>1. PICK f : Written(c, n, f)
    BY <1>4, ZenonT(30)
  <2> DEFINE g == [m \in 0 .. n + 1 |->
                     IF m = n + 1 THEN WriteMeta(f[n], c.sstables[n + 1]) ELSE f[m]]
  <2>2. Written(c, n + 1, g)
    <3>1. PICK first : first = WriteUint(WriteUint(<<>>, c.last_flushed_lsn), Len(c.sstables))
      BY ZenonT(30)
    <3>2. f = [m \in 0 .. n |-> IF m = 0 THEN first ELSE WriteMeta(f[m - 1], c.sstables[m])]
      BY <2>1, <3>1, Zenon DEF Written
    <3>3. ASSUME NEW m \in 0 .. n + 1
          PROVE  g[m] = IF m = 0 THEN first ELSE WriteMeta(g[m - 1], c.sstables[m])
      <4>1. CASE m = n + 1
        BY <4>1
      <4>2. CASE m # n + 1
        <5>1. m \in 0 .. n /\ g[m] = f[m] /\ (m # 0 => g[m - 1] = f[m - 1])
          BY <4>2
        <5> QED
          BY <3>2, <5>1, Zenon
      <4> QED
        BY <4>1, <4>2, ZenonT(30)
    <3>4. g = [m \in 0 .. n + 1 |-> IF m = 0 THEN first ELSE WriteMeta(g[m - 1], c.sstables[m])]
      BY <3>3, Zenon
    <3> QED
      BY <3>1, <3>4, Zenon DEF Written
  <2> QED
    BY <1>2, <2>2
<1>5. \E f : Written(c, N, f)
  <2> HIDE DEF S
  <2>1. \A n \in 0 .. N : n \in S
    BY <1>2, <1>3, <1>4, Counting, Zenon
  <2>2. N \in S
    BY <1>2, <2>1
  <2> QED
    BY <2>2, Zenon DEF S
<1> DEFINE h == CHOOSE f : Written(c, N, f)
<1>6. Written(c, N, h)
  BY <1>5, Zenon
<1>7. Serialized(c) = h[N]
  BY <1>1, Zenon DEF Serialized, Written
<1> QED
  <2> HIDE DEF h
  <2> QED
    BY <1>1, <1>6, <1>7, Zenon

\* The loop of LoadCheckpoint.
LEMMA ParsedIsRead ==
  ASSUME NEW file, NEW header, header = ReadUint(file, ReadUint(file, Reader)),
         NEW N \in Nat, N = IF header.ok THEN header.values[2] ELSE 0
  PROVE  \E g : Reads(file, header, N, g) /\ Parsed(file) = Taken(g[N], N)
<1> DEFINE S == {n \in 0 .. N : \E f : Reads(file, header, n, f)}
<1>3. 0 \in S
  <2>1. Reads(file, header, 0, [m \in 0 .. 0 |-> header])
    BY DEF Reads
  <2> QED
    BY <2>1
<1>4. ASSUME NEW n \in 0 .. N - 1, n \in S PROVE n + 1 \in S
  <2>1. PICK f : Reads(file, header, n, f)
    BY <1>4, ZenonT(30)
  <2> DEFINE g == [m \in 0 .. n + 1 |-> IF m = n + 1 THEN ReadMeta(file, f[n]) ELSE f[m]]
  <2>2. Reads(file, header, n + 1, g)
    BY <2>1 DEF Reads
  <2> QED
    BY <2>2
<1>5. \E f : Reads(file, header, N, f)
  <2> HIDE DEF S
  <2>1. \A n \in 0 .. N : n \in S
    BY <1>3, <1>4, Counting, ZenonT(30)
  <2>2. N \in S
    BY <2>1
  <2> QED
    BY <2>2, ZenonT(30) DEF S
<1> DEFINE h == CHOOSE f : Reads(file, header, N, f)
<1>6. Reads(file, header, N, h)
  BY <1>5, ZenonT(30)
<1>7. Parsed(file) = Taken(h[N], N)
  BY DEF Parsed, Reads, Taken
<1> QED
  <2> HIDE DEF h
  <2> QED
    BY <1>6, <1>7, Zenon

\* What was written for the first files is the beginning of the whole file.
LEMMA WrittenBegins ==
  ASSUME NEW c \in CheckpointRecord, NEW N, N = Len(c.sstables), NEW f, Written(c, N, f)
  PROVE  /\ N \in Nat
         /\ f[0] = WriteUint(WriteUint(<<>>, c.last_flushed_lsn), N)
         /\ \A n \in 1 .. N : c.sstables[n] \in SSTableMeta
                              /\ f[n] = WriteMeta(f[n - 1], c.sstables[n])
         /\ \A n \in 0 .. N : Begins(f[n], f[N])
<1>1. /\ N \in Nat /\ c.last_flushed_lsn \in Nat
      /\ \A n \in 1 .. N : c.sstables[n] \in SSTableMeta
  BY DEF CheckpointRecord
<1>2. f[0] = WriteUint(WriteUint(<<>>, c.last_flushed_lsn), N)
  BY <1>1 DEF Written
<1>3. \A n \in 1 .. N : f[n] = WriteMeta(f[n - 1], c.sstables[n])
  BY <1>1 DEF Written
<1>4. \A n \in 0 .. N : f[n] \in Buffer
  <2> DEFINE S == {n \in 0 .. N : f[n] \in Buffer}
  <2>1. 0 \in S
    <3>1. <<>> \in Buffer
      BY DEF Buffer
    <3>2. WriteUint(<<>>, c.last_flushed_lsn) \in Buffer
      BY <1>1, <3>1, UintBehind, ZenonT(30)
    <3>3. f[0] \in Buffer
      BY <1>1, <1>2, <3>2, UintBehind, Zenon
    <3> QED
      BY <1>1, <3>3
  <2>2. ASSUME NEW n \in 0 .. N - 1, n \in S PROVE n + 1 \in S
    <3>1. n + 1 \in 1 .. N /\ (n + 1) - 1 = n /\ f[n] \in Buffer
      BY <1>1, <2>2
    <3>2. f[n + 1] = WriteMeta(f[n], c.sstables[n + 1]) /\ c.sstables[n + 1] \in SSTableMeta
      BY <1>1, <1>3, <3>1, Zenon
    <3>3. f[n + 1] \in Buffer
      BY <3>1, <3>2, MetaBehind, Zenon
    <3> QED
      BY <3>1, <3>3
  <2> HIDE DEF S
  <2>3. \A n \in 0 .. N : n \in S
    BY <1>1, <2>1, <2>2, Counting, Zenon
  <2> QED
    BY <2>3, ZenonT(30) DEF S
<1>5. \A n \in 0 .. N : Begins(f[n], f[N])
  <2> DEFINE S == {k \in 0 .. N : Begins(f[N - k], f[N])}
  <2>1. 0 \in S
    <3>1. f[N] \in Buffer /\ N - 0 = N
      BY <1>1, <1>4
    <3>2. Begins(f[N], f[N])
      BY <3>1 DEF Begins, Buffer
    <3> QED
      BY <1>1, <3>1, <3>2
  <2>2. ASSUME NEW k \in 0 .. N - 1, k \in S PROVE k + 1 \in S
    <3>1. PICK n : n = N - k
      BY Zenon
    <3>2. n \in 1 .. N /\ n - 1 \in 0 .. N /\ n - 1 = N - (k + 1) /\ k + 1 \in 0 .. N
      BY <1>1, <3>1
    <3>3. Begins(WriteMeta(f[n - 1], c.sstables[n]), f[N])
      BY <1>3, <2>2, <3>1, <3>2, Zenon
    <3>4. Begins(f[n - 1], f[N])
      BY <1>1, <1>4, <3>2, <3>3, MetaBehind, Zenon
    <3> QED
      BY <3>2, <3>4, Zenon
  <2> HIDE DEF S
  <2>3. \A k \in 0 .. N : k \in S
    BY <1>1, <2>1, <2>2, Counting, Zenon
  <2>4. ASSUME NEW n \in 0 .. N PROVE Begins(f[n], f[N])
    <3>1. N - n \in 0 .. N /\ N - (N - n) = n
      BY <1>1
    <3>2. Begins(f[N - (N - n)], f[N])
      BY <2>3, <3>1, Zenon DEF S
    <3> QED
      BY <3>1, <3>2, Zenon
  <2> QED
    BY <2>4, Zenon
<1> QED
  BY <1>1, <1>2, <1>3, <1>5, ZenonT(30)

\* LoadCheckpoint gives back what SaveCheckpoint wrote, and fails on any other
\* beginning of the file: for any number of files, with any keys and paths.
LEMMA ReadsBack ==
  ASSUME NEW c \in CheckpointRecord, NEW file, Begins(file, Serialized(c))
  PROVE  Parsed(file) = IF file = Serialized(c) THEN c ELSE Error
<1>1. PICK N : N = Len(c.sstables)
  BY Zenon
<1>2. PICK f : Written(c, N, f) /\ Serialized(c) = f[N]
  BY <1>1, SerializedIsWritten, Zenon
<1>3. /\ N \in Nat
      /\ f[0] = WriteUint(WriteUint(<<>>, c.last_flushed_lsn), N)
      /\ \A n \in 1 .. N : c.sstables[n] \in SSTableMeta
                           /\ f[n] = WriteMeta(f[n - 1], c.sstables[n])
      /\ \A n \in 0 .. N : Begins(f[n], f[N])
  BY <1>1, <1>2, WrittenBegins, ZenonT(30)
<1>4. PICK whole : whole = f[N]
  BY ZenonT(30)
<1>5. /\ Begins(file, whole)
      /\ \A n \in 0 .. N : Begins(f[n], whole) /\ f[n] \in Buffer /\ Len(f[n]) \in Nat
      /\ Len(file) \in Nat /\ Len(whole) \in Nat
  <2>1. Begins(file, whole) /\ \A n \in 0 .. N : Begins(f[n], whole)
    BY <1>2, <1>3, <1>4, Zenon
  <2> QED
    BY <2>1 DEF Begins, Buffer
<1>6. c.last_flushed_lsn \in Nat /\ c.sstables \in Seq(SSTableMeta)
      /\ c = [last_flushed_lsn |-> c.last_flushed_lsn, sstables |-> c.sstables]
  BY Zenon DEF CheckpointRecord
<1>7. PICK header : header = ReadUint(file, ReadUint(file, Reader))
  BY Zenon
<1>8. PICK first : first = Append(Append(<<>>, c.last_flushed_lsn), N)
  BY Zenon
<1>9. first \in Seq(Value) /\ Len(first) = 2 /\ first[1] = c.last_flushed_lsn /\ first[2] = N
  BY <1>3, <1>6, <1>8 DEF Value
<1>10. ReadTo(file, header, Len(f[0]), first)
  <2>1. PICK b1 : b1 = WriteUint(<<>>, c.last_flushed_lsn)
    BY Zenon
  <2>2. <<>> \in Buffer /\ <<>> \in Seq(Value) /\ Len(<<>>) = 0
    BY DEF Buffer
  <2>3. b1 \in Buffer
    BY <1>6, <2>1, <2>2, UintBehind, Zenon
  <2>4. f[0] = WriteUint(b1, N) /\ Begins(f[0], whole)
    BY <1>3, <1>5, <2>1
  <2>5. Begins(b1, whole)
    BY <1>3, <2>3, <2>4, UintBegins, Zenon
  <2>6. ReadTo(file, Reader, Len(<<>>), <<>>)
    BY <1>5, <2>2 DEF ReadTo, Reader
  <2>7. PICK r1 : r1 = ReadUint(file, Reader)
    BY Zenon
  <2>8. PICK v1 : v1 = Append(<<>>, c.last_flushed_lsn)
    BY Zenon
  <2>9. v1 \in Seq(Value)
    BY <1>6, <2>8 DEF Value
  <2>10. ReadTo(file, r1, Len(b1), v1)
    BY <1>5, <1>6, <2>1, <2>2, <2>5, <2>6, <2>7, <2>8, ReadsUint, Zenon
  <2>11. ReadTo(file, ReadUint(file, r1), Len(WriteUint(b1, N)), Append(v1, N))
    BY <1>3, <1>5, <2>3, <2>4, <2>9, <2>10, ReadsUint, ZenonT(30)
  <2> QED
    BY <1>7, <1>8, <2>4, <2>7, <2>8, <2>11, Zenon
<1>11. CASE ~ header.ok
  <2>1. PICK g : Reads(file, header, 0, g) /\ Parsed(file) = Taken(g[0], 0)
    BY <1>7, <1>11, ParsedIsRead, ZenonT(30)
  <2>2. g[0] = header
    BY <2>1 DEF Reads
  <2>3. ~ (Len(f[0]) <= Len(file)) /\ Len(f[0]) <= Len(whole)
    <3>1. ~ (Len(f[0]) <= Len(file))
      BY <1>10, <1>11 DEF ReadTo
    <3>2. Begins(f[0], whole)
      BY <1>3, <1>5
    <3> QED
      BY <3>1, <3>2, Zenon DEF Begins
  <2>4. file # whole
    BY <2>3, Zenon
  <2> QED
    BY <1>2, <1>4, <1>11, <2>1, <2>2, <2>4, ZenonT(30) DEF Taken
<1>12. CASE header.ok
  <2>1. header.values = first
    BY <1>10, <1>12 DEF ReadTo
  <2>2. PICK g : Reads(file, header, N, g) /\ Parsed(file) = Taken(g[N], N)
    <3>1. N = IF header.ok THEN header.values[2] ELSE 0
      BY <1>9, <1>12, <2>1, ZenonT(30)
    <3> QED
      BY <1>3, <1>7, <3>1, ParsedIsRead
  <2>3. g[0] = header /\ \A n \in 1 .. N : g[n] = ReadMeta(file, g[n - 1])
    <3>1. g = [m \in 0 .. N |-> IF m = 0 THEN header ELSE ReadMeta(file, g[m - 1])]
      BY <2>2, Zenon DEF Reads
    <3>2. 0 \in 0 .. N /\ \A n \in 1 .. N : n \in 0 .. N /\ n # 0
      BY <1>3
    <3> QED
      BY <3>1, <3>2, Zenon
  <2> DEFINE Got(n, v) == /\ v \in Seq(Value) /\ ReadTo(file, g[n], Len(f[n]), v)
                          /\ Len(v) = 2 + 6 * n /\ v[1] = c.last_flushed_lsn
                          /\ \A i \in 1 .. n : MetaAt(v, 6 * i - 4) = c.sstables[i]
             S == {n \in 0 .. N : \E v : Got(n, v)}
  <2>4. 0 \in S
    <3>1. Got(0, first)
      BY <1>9, <1>10, <2>3
    <3> QED
      BY <1>3, <3>1, SMTT(30)
  <2>5. ASSUME NEW n \in 0 .. N - 1, n \in S PROVE n + 1 \in S
    <3>1. PICK v : Got(n, v)
      BY <2>5, ZenonT(30)
    <3>2. PICK meta : meta = c.sstables[n + 1]
      BY Zenon
    <3>3. PICK w : w = WithMeta(v, meta)
      BY Zenon
    <3>4. n + 1 \in 1 .. N /\ (n + 1) - 1 = n /\ n \in 0 .. N /\ n \in Nat /\ n + 1 \in 0 .. N
      BY <1>3
    <3>5. /\ meta \in SSTableMeta /\ f[n + 1] = WriteMeta(f[n], meta)
          /\ g[n + 1] = ReadMeta(file, g[n])
      BY <1>3, <2>3, <3>2, <3>4, Zenon
    <3>6. ReadTo(file, g[n + 1], Len(f[n + 1]), w)
      <4>1. Begins(WriteMeta(f[n], meta), whole) /\ f[n] \in Buffer
        BY <1>5, <3>4, <3>5, Zenon
      <4>2. ReadTo(file, g[n], Len(f[n]), v) /\ v \in Seq(Value)
        BY <3>1, Zenon
      <4> HIDE DEF Got
      <4> QED
        BY <1>5, <3>3, <3>5, <4>1, <4>2, ReadsMeta, Zenon
    <3>7. /\ w \in Seq(Value) /\ Len(w) = Len(v) + 6
          /\ \A i \in 1 .. Len(v) : w[i] = v[i]
          /\ MetaAt(w, Len(v)) = meta
      BY <3>1, <3>3, <3>5, MetaRead, Zenon
    <3>8. Len(v) = 2 + 6 * n /\ 6 * (n + 1) - 4 = Len(v) /\ Len(w) = 2 + 6 * (n + 1)
      BY <3>1, <3>4, <3>7
    <3>9. ASSUME NEW i \in 1 .. n + 1 PROVE MetaAt(w, 6 * i - 4) = c.sstables[i]
      <4>1. CASE i = n + 1
        BY <3>2, <3>7, <3>8, <4>1, ZenonT(30)
      <4>2. CASE i # n + 1
        <5>1. i \in 1 .. n
          BY <3>4, <4>2
        <5>2. PICK j : j = 6 * i - 4
          BY ZenonT(30)
        <5>3. /\ j + 1 \in 1 .. Len(v) /\ j + 2 \in 1 .. Len(v) /\ j + 3 \in 1 .. Len(v)
              /\ j + 4 \in 1 .. Len(v) /\ j + 5 \in 1 .. Len(v) /\ j + 6 \in 1 .. Len(v)
          BY <3>4, <3>8, <5>1, <5>2, SMTT(30)
        <5>4. MetaAt(w, j) = MetaAt(v, j)
          BY <3>7, <5>3, Zenon DEF MetaAt
        <5> QED
          BY <3>1, <5>1, <5>2, <5>4, ZenonT(30)
      <4> QED
        BY <4>1, <4>2, ZenonT(30)
    <3>10. w[1] = c.last_flushed_lsn
      BY <3>1, <3>4, <3>7, <3>8, SMTT(30)
    <3>11. Got(n + 1, w)
      BY <3>6, <3>7, <3>8, <3>9, <3>10, ZenonT(30)
    <3> HIDE DEF Got
    <3> QED
      BY <3>4, <3>11, ZenonT(30)
  <2>6. PICK v : Got(N, v)
    <3> HIDE DEF S
    <3>1. \A n \in 0 .. N : n \in S
      BY <1>3, <2>4, <2>5, Counting, Zenon
    <3>2. N \in S
      BY <1>3, <3>1
    <3> HIDE DEF Got
    <3> QED
      BY <3>2, ZenonT(30) DEF S
  <2>7. CASE Len(whole) <= Len(file)
    <3>1. file = whole
      <4>1. /\ file \in Seq(Nat) /\ whole \in Seq(Nat) /\ Len(file) = Len(whole)
            /\ \A i \in 1 .. Len(whole) : file[i] = whole[i]
        BY <1>5, <2>7 DEF Begins, Buffer
      <4> QED
        BY <4>1, SameSequence, Zenon
    <3>2. g[N].ok /\ g[N].values = v
      BY <1>4, <2>6, <2>7 DEF ReadTo
    <3>3. [i \in 1 .. N |-> MetaAt(v, 6 * i - 4)] = c.sstables
      <4>1. [i \in 1 .. N |-> MetaAt(v, 6 * i - 4)] = [i \in 1 .. N |-> c.sstables[i]]
        BY <2>6, ZenonT(30)
      <4>2. c.sstables = [i \in 1 .. N |-> c.sstables[i]]
        BY <1>1, <1>6
      <4> QED
        BY <4>1, <4>2, ZenonT(30)
    <3>4. Parsed(file) = c
      BY <1>6, <2>2, <2>6, <3>2, <3>3, Zenon DEF Taken
    <3> QED
      BY <1>2, <1>4, <3>1, <3>4, ZenonT(30)
  <2>8. CASE ~ (Len(whole) <= Len(file))
    <3>1. ~ g[N].ok
      BY <1>4, <2>6, <2>8, Zenon DEF ReadTo
    <3>2. file # whole
      BY <1>5, <2>8
    <3> QED
      BY <1>2, <1>4, <2>2, <3>1, <3>2, ZenonT(30) DEF Taken
  <2> QED
    BY <2>7, <2>8, Zenon
<1> QED
  BY <1>11, <1>12, Zenon

\* A file that was written in full is a buffer, and begins with itself.
LEMMA SerializedIsBuffer ==
  ASSUME NEW c \in CheckpointRecord
  PROVE  /\ Serialized(c) \in Buffer /\ Serialized(c) # NoFile
         /\ Begins(Serialized(c), Serialized(c))
<1>1. PICK N : N = Len(c.sstables)
  BY Zenon
<1>2. PICK f : Written(c, N, f) /\ Serialized(c) = f[N]
  BY <1>1, SerializedIsWritten, Zenon
<1>3. N \in Nat /\ \A n \in 0 .. N : Begins(f[n], f[N])
  BY <1>1, <1>2, WrittenBegins, Zenon
<1>4. Begins(Serialized(c), Serialized(c))
  BY <1>2, <1>3
<1>5. Serialized(c) \in Seq(Nat)
  BY <1>4, Zenon DEF Begins, Buffer
<1>6. Serialized(c) # NoFile
  <2>1. PICK file \in Seq(Nat) : file = Serialized(c)
    BY <1>5, Zenon
  <2>2. file # <<-1>>
    BY <2>1, SMTT(30)
  <2> QED
    BY <2>1, <2>2, Zenon DEF NoFile
<1> QED
  BY <1>4, <1>5, <1>6, Zenon DEF Buffer

\* What SaveCheckpoint writes in full, LoadCheckpoint reads back (Lossless), for
\* any checkpoints.
LEMMA EncodingIsLossless == Lossless
<1>1. \A c \in Checkpoints : c \in CheckpointRecord
  BY CheckpointAssumptions, Zenon
<1>2. ASSUME NEW c \in Checkpoints
      PROVE  Serialized(c) # NoFile /\ Parsed(Serialized(c)) = c
  <2>1. c \in CheckpointRecord
    BY <1>1, Zenon
  <2>2. Serialized(c) # NoFile /\ Begins(Serialized(c), Serialized(c))
    BY <2>1, SerializedIsBuffer, Zenon
  <2> QED
    BY <2>1, <2>2, ReadsBack, Zenon
<1> QED
  BY <1>2, Zenon DEF Lossless
----------------------------------------------------------------------------
(* SaveCheckpoint is atomic.                                               *)

\* Where a thread is while it holds the mutex and has not finished saving.
Inside == {"open", "write", "rename"}

\* Only the thread inside the mutex is past the lock, and once it is about to
\* rename the temporary file that file holds its checkpoint.
SaveInv ==
  /\ \A s \in Saver : /\ save[s].pc \in Inside => s \in mutex
                      /\ save[s].pc # "idle" => save[s].checkpoint \in Checkpoints
                      /\ save[s].pc = "rename" => temp = Serialized(save[s].checkpoint)
  /\ \A s, u \in mutex : s = u
  /\ DOMAIN save = Saver
  /\ LoadsLatestSaved

\* At first there is no checkpoint and nobody saves one.
LEMMA SaveInvInit == CheckpointInit => SaveInv
  BY DEF CheckpointInit, SaveInv, Inside, NotSaving, LoadsLatestSaved, Loaded

\* While one thread is inside, no other is about to rename.
LEMMA OthersNotRenaming ==
  ASSUME SaveInv, NEW s \in Saver, save[s].pc \in Inside, NEW u \in Saver, u # s
  PROVE  save[u].pc \notin Inside
BY ZenonT(30) DEF SaveInv

\* Each step of SaveCheckpoint, the start and the two ways to die keep it.
LEMMA SaveInvNext ==
  ASSUME Lossless, SaveInv, [CheckpointNext]_checkpointVars
  PROVE  SaveInv'
<1>1. CASE UNCHANGED checkpointVars
  BY <1>1, ZenonT(30) DEF SaveInv, LoadsLatestSaved, checkpointVars
<1>2. CASE Start
  BY <1>2, ZenonT(30) DEF Start, SaveInv, LoadsLatestSaved
<1>3. ASSUME NEW s \in Saver, NEW c \in Checkpoints, Call(s, c)
      PROVE  SaveInv'
  BY <1>3, Zenon DEF Call, SaveInv, LoadsLatestSaved, Inside
<1>4. ASSUME NEW s \in Saver, Lock(s)
      PROVE  SaveInv'
  BY <1>4 DEF Lock, SaveInv, LoadsLatestSaved, Inside
<1>5. ASSUME NEW s \in Saver, OpenTemp(s)
      PROVE  SaveInv'
  <2>1. CASE temp' = <<>> /\ save' = [save EXCEPT ![s].pc = "write"] /\ UNCHANGED mutex
    BY <1>5, <2>1, OthersNotRenaming DEF OpenTemp, SaveInv, LoadsLatestSaved, Inside
  <2>2. CASE Returned(s) /\ UNCHANGED temp
    BY <1>5, <2>2, Zenon DEF OpenTemp, Returned, NotSaving, SaveInv, LoadsLatestSaved, Inside
  <2> QED
    BY <1>5, <2>1, <2>2, ZenonT(30) DEF OpenTemp
<1>6. ASSUME NEW s \in Saver, WriteTemp(s)
      PROVE  SaveInv'
  <2>1. CASE /\ temp' = Serialized(save[s].checkpoint)
             /\ save' = [save EXCEPT ![s].pc = "rename"]
             /\ UNCHANGED mutex
    BY <1>6, <2>1, OthersNotRenaming DEF WriteTemp, SaveInv, LoadsLatestSaved, Inside
  <2>2. CASE Returned(s)
    BY <1>6, <2>2, OthersNotRenaming, Zenon DEF WriteTemp, Returned, NotSaving, SaveInv,
                                         LoadsLatestSaved, Inside
  <2> QED
    BY <1>6, <2>1, <2>2, ZenonT(30) DEF WriteTemp
<1>7. ASSUME NEW s \in Saver, RenameTemp(s)
      PROVE  SaveInv'
  BY <1>7, Zenon DEF RenameTemp, Returned, NotSaving, SaveInv, LoadsLatestSaved, Loaded, Lossless, Inside
<1>8. CASE Crash
  BY <1>8, ZenonT(30) DEF Crash, NotSaving, SaveInv, LoadsLatestSaved, Inside
<1>9. CASE PowerLoss
  BY <1>9, ZenonT(30) DEF PowerLoss, NotSaving, SaveInv, LoadsLatestSaved, Inside
<1> QED
  BY <1>1, <1>2, <1>3, <1>4, <1>5, <1>6, <1>7, <1>8, <1>9, ZenonT(30) DEF CheckpointNext

\* LoadCheckpoint gives back the checkpoint renamed last, whatever the threads
\* that save, the failures and the crashes of the process, as long as the power
\* stays on.
THEOREM SaveIsAtomic == CheckpointSpec => []LoadsLatestSaved
<1>1. SaveInv => LoadsLatestSaved
  BY ZenonT(30) DEF SaveInv
<1>2. SaveInv /\ [CheckpointNext]_checkpointVars => SaveInv'
  BY SaveInvNext, EncodingIsLossless, Zenon
<1> QED
  BY <1>1, <1>2, SaveInvInit, PTL DEF CheckpointSpec
----------------------------------------------------------------------------
(* No part of a file is taken for a checkpoint.                            *)

\* No file, or the beginning of one that was written.
Part(file) == file = NoFile \/ \E c \in Checkpoints : Begins(file, Serialized(c))

\* All that is on the disk, and all that may be there after a power loss.
PartsInv == SaveInv /\ Part(manifest) /\ \A file \in older : Part(file)

\* What is left of a part is a part.
LEMMA PartOfPart ==
  ASSUME NEW file, Part(file), file # NoFile, NEW rest \in Prefixes(file)
  PROVE  Part(rest)
<1>1. PICK c \in Checkpoints : Begins(file, Serialized(c))
  BY Zenon DEF Part
<1>2. PICK whole : whole = Serialized(c)
  BY Zenon
<1>3. /\ file \in Seq(Nat) /\ whole \in Seq(Nat) /\ Len(file) \in Nat /\ Len(whole) \in Nat
      /\ Len(file) <= Len(whole) /\ \A i \in 1 .. Len(file) : whole[i] = file[i]
  BY <1>1, <1>2 DEF Begins, Buffer
<1>4. PICK n \in 0 .. Len(file) : rest = SubSeq(file, 1, n)
  BY Zenon DEF Prefixes
<1>5. /\ rest \in Seq(Nat) /\ Len(rest) = n
      /\ \A i \in 1 .. n : rest[i] = file[i]
  BY <1>3, <1>4, SMTT(30)
<1>6. Begins(rest, whole)
  BY <1>3, <1>4, <1>5 DEF Begins, Buffer
<1> QED
  BY <1>2, <1>6, Zenon DEF Part

\* A file that was written in full is one, too.
LEMMA WholeIsPart ==
  ASSUME NEW c \in Checkpoints PROVE Part(Serialized(c))
<1>1. c \in CheckpointRecord
  BY CheckpointAssumptions, Zenon
<1> QED
  BY <1>1, SerializedIsBuffer, Zenon DEF Part

\* At first there is no file.
LEMMA PartsInvInit == CheckpointInit => PartsInv
  BY SaveInvInit, Zenon DEF CheckpointInit, PartsInv, Part

\* RenameTemp stores a whole file, PowerLoss leaves a part of one.
LEMMA PartsInvNext ==
  ASSUME PartsInv, [CheckpointNext]_checkpointVars
  PROVE  PartsInv'
<1>1. SaveInv'
  BY SaveInvNext, EncodingIsLossless, Zenon DEF PartsInv
<1>2. Part(manifest)' /\ \A file \in older' : Part(file)
  <2>1. CASE UNCHANGED <<manifest, older>>
    BY <2>1, Zenon DEF PartsInv, Part
  <2>2. ASSUME NEW s \in Saver, RenameTemp(s), ~ UNCHANGED <<manifest, older>>
        PROVE  Part(manifest)' /\ \A file \in older' : Part(file)
    <3>1. /\ save[s].pc = "rename" /\ manifest' = temp /\ older' = older \cup {temp}
      BY <2>2, Zenon DEF RenameTemp
    <3>2. temp = Serialized(save[s].checkpoint) /\ save[s].checkpoint \in Checkpoints
      BY <3>1, Zenon DEF PartsInv, SaveInv
    <3>3. Part(temp)
      BY <3>2, WholeIsPart, Zenon
    <3>4. Part(manifest')
      BY <3>1, <3>3, Zenon
    <3> QED
      BY <3>1, <3>3, <3>4, Zenon DEF PartsInv, Part
  <2>3. CASE PowerLoss
    <3>1. PICK file \in older : manifest' \in IF file = NoFile THEN {NoFile} ELSE Prefixes(file)
      BY <2>3, Zenon DEF PowerLoss
    <3>2. Part(manifest')
      <4>1. CASE file = NoFile
        BY <3>1, <4>1, Zenon DEF Part
      <4>2. CASE file # NoFile
        BY <3>1, <4>2, PartOfPart, Zenon DEF PartsInv
      <4> QED
        BY <4>1, <4>2, Zenon
    <3>3. older' = {manifest'}
      BY <2>3, Zenon DEF PowerLoss
    <3> QED
      BY <3>2, <3>3, Zenon DEF Part
  <2>4. CASE UNCHANGED checkpointVars
    BY <2>1, <2>4, Zenon DEF checkpointVars
  <2>5. CASE Start \/ Crash
    BY <2>1, <2>5, Zenon DEF Start, Crash
  <2>6. ASSUME NEW s \in Saver,
               (\E c \in Checkpoints : Call(s, c)) \/ Lock(s) \/ OpenTemp(s) \/ WriteTemp(s)
        PROVE  UNCHANGED <<manifest, older>>
    BY <2>6, Zenon DEF Call, Lock, OpenTemp, WriteTemp
  <2> QED
    BY <2>1, <2>2, <2>3, <2>4, <2>5, <2>6, Zenon DEF CheckpointNext
<1> QED
  BY <1>1, <1>2, Zenon DEF PartsInv

\* Whatever a power loss leaves of the renamed files, LoadCheckpoint fails or
\* gives back a checkpoint that was saved: it never makes one up from a part.
THEOREM LoadsAlwaysSavedOrFails == CheckpointSpec => []LoadsSavedOrFails
<1>1. PartsInv => LoadsSavedOrFails
  <2> SUFFICES ASSUME PartsInv PROVE LoadsSavedOrFails
    BY Zenon
  <2>1. CASE manifest = NoFile
    BY <2>1, Zenon DEF LoadsSavedOrFails, Loaded
  <2>2. ASSUME NEW c \in Checkpoints, Begins(manifest, Serialized(c)), manifest # NoFile
        PROVE  LoadsSavedOrFails
    <3>1. c \in CheckpointRecord
      BY CheckpointAssumptions, Zenon
    <3>2. Parsed(manifest) = IF manifest = Serialized(c) THEN c ELSE Error
      BY <2>2, <3>1, ReadsBack, Zenon
    <3> QED
      BY <2>2, <3>2, Zenon DEF LoadsSavedOrFails, Loaded
  <2> QED
    BY <2>1, <2>2, Zenon DEF PartsInv, Part
<1>2. PartsInv /\ [CheckpointNext]_checkpointVars => PartsInv'
  BY PartsInvNext, Zenon
<1> QED
  BY <1>1, <1>2, PartsInvInit, PTL DEF CheckpointSpec

----------------------------------------------------------------------------
(* The hybrid logical clock within an era of its machine word, for fields  *)
(* of any width, any number of nodes and clocks set at will.  The argument *)
(* is that every timestamp fits the word at all times, also when a field   *)
(* overflows, and that a reading that does not fit is larger than any      *)
(* physical time in a timestamp, so that what is left of it becomes the    *)
(* timestamp.                                                              *)

\* What the machine word holds.
Word == 0 .. PhysicalLimit * LogicalLimit - 1

\* The inductive invariant of the clock.
HLCInv ==
  /\ micros \in [Node -> Nat]
  /\ current_time \in [Node -> Word]
  /\ sent \subseteq Word
  /\ last_reading \in [Node -> Nat]
  /\ \A n \in Node :
       last_reading[n] >= PhysicalLimit => current_time[n] \in {0, Pack(last_reading[n], 0)}

\* The reading and the counters that count leave room for the next timestamp.
Fits(n, times) == micros[n] < PhysicalLimit /\ RoomFor(times)
----------------------------------------------------------------------------
(* Arithmetic.                                                             *)

\* Quotient and remainder.
LEMMA DivMod ==
  ASSUME NEW t \in Nat, NEW L \in Nat \ {0}
  PROVE  t = L * (t \div L) + (t % L)
BY SMTT(60)

\* Their ranges.
LEMMA DivModRange ==
  ASSUME NEW t \in Nat, NEW L \in Nat \ {0}
  PROVE  t \div L \in Nat /\ t % L \in 0 .. L - 1
OBVIOUS

\* A number below the modulus is its own remainder.
LEMMA SmallMod ==
  ASSUME NEW a \in Nat, NEW b \in Nat, a < b
  PROVE  a % b = a
OBVIOUS

\* The next multiple of L.
LEMMA NextMultiple ==
  ASSUME NEW a \in Nat, NEW b \in Nat, a < b, NEW L \in Nat \ {0}
  PROVE  a * L + L <= b * L
OBVIOUS

\* A remainder is determined by its range.
LEMMA RemainderUnique ==
  ASSUME NEW q \in Nat, NEW m \in Nat \ {0}, NEW r \in 0 .. m - 1
  PROVE  (q * m + r) % m = r
OBVIOUS

\* A shifted number is cut off at the top: (a * L) modulo the word.
LEMMA ShiftCutsOff ==
  ASSUME NEW a \in Nat, NEW P \in Nat \ {0}, NEW L \in Nat \ {0}
  PROVE  (a * L) % (P * L) = (a % P) * L
<1> DEFINE q == a \div P
           r == a % P
<1>1. a = P * q + r /\ q \in Nat /\ r \in 0 .. P - 1
  BY DivMod, DivModRange, ZenonT(30)
<1> HIDE DEF q, r
<1>2. P * L \in Nat \ {0} /\ r * L \in Nat
  BY <1>1
<1>3. r * L + L <= P * L
  BY <1>1, NextMultiple
<1>4. r * L \in 0 .. P * L - 1
  BY <1>2, <1>3
<1>5. a * L = q * (P * L) + r * L
  BY <1>1
<1>6. (q * (P * L) + r * L) % (P * L) = r * L
  BY <1>1, <1>2, <1>4, RemainderUnique, ZenonT(30)
<1> QED
  BY <1>5, <1>6, Zenon DEF r
----------------------------------------------------------------------------
(* Timestamps.                                                             *)

\* The largest of one or two numbers is one of them.
LEMMA MaxOfTwo ==
  ASSUME NEW a \in Nat, NEW b \in Nat, NEW S \in SUBSET {a, b}, S # {}
  PROVE  Max(S) \in S /\ \A y \in S : y <= Max(S)
<1>1. \E x \in S : \A y \in S : x >= y
  <2>1. S = {a} \/ S = {b} \/ S = {a, b}
    BY Zenon
  <2> QED
    BY <2>1
<1> QED
  BY <1>1, ZenonT(30) DEF Max

\* The same of three.
LEMMA MaxOfThree ==
  ASSUME NEW a \in Nat, NEW b \in Nat, NEW c \in Nat
  PROVE  Max({a, b, c}) \in {a, b, c} /\ \A y \in {a, b, c} : y <= Max({a, b, c})
<1>1. \E x \in {a, b, c} : \A y \in {a, b, c} : x >= y
  OBVIOUS
<1> QED
  BY <1>1, ZenonT(30) DEF Max

\* The parts of a timestamp.
LEMMA Parts ==
  ASSUME NEW t \in Word
  PROVE  /\ GetPhysicalTime(t) \in 0 .. PhysicalLimit - 1
         /\ GetLogicalTime(t) \in 0 .. LogicalLimit - 1
         /\ t = GetPhysicalTime(t) * LogicalLimit + GetLogicalTime(t)
<1> DEFINE p == t \div LogicalLimit
           l == t % LogicalLimit
<1>1. t \in Nat /\ t < PhysicalLimit * LogicalLimit
  BY ClockConstants DEF Word
<1>2. p \in Nat /\ l \in 0 .. LogicalLimit - 1 /\ t = LogicalLimit * p + l
  BY <1>1, ClockConstants, DivMod, DivModRange, ZenonT(30)
<1> HIDE DEF p, l
<1>3. p < PhysicalLimit
  <2> SUFFICES ASSUME PhysicalLimit <= p PROVE FALSE
    BY <1>2, ClockConstants
  <2>1. PhysicalLimit * LogicalLimit <= p * LogicalLimit
    BY <1>2, ClockConstants
  <2> QED
    BY <1>1, <1>2, <2>1, ClockConstants, SMTT(30)
<1> QED
  <2>1. GetPhysicalTime(t) = p /\ GetLogicalTime(t) = l
    BY Zenon DEF GetPhysicalTime, GetLogicalTime, p, l
  <2> QED
    BY <1>2, <1>3, <2>1, ClockConstants, SMTT(30)

\* Packing parts that fit.
LEMMA PackFits ==
  ASSUME NEW physical \in 0 .. PhysicalLimit - 1, NEW logical \in 0 .. LogicalLimit - 1
  PROVE  Pack(physical, logical) = physical * LogicalLimit + logical
<1>1. (physical * LogicalLimit) % (PhysicalLimit * LogicalLimit)
        = (physical % PhysicalLimit) * LogicalLimit
  <2>1. physical \in Nat /\ PhysicalLimit \in Nat \ {0} /\ LogicalLimit \in Nat \ {0}
    BY ClockConstants
  <2> QED
    BY <2>1, ShiftCutsOff, Zenon
<1>2. physical % PhysicalLimit = physical
  BY ClockConstants, SmallMod, SMTT(30)
<1> QED
  BY <1>1, <1>2, ClockConstants, SMTT(30) DEF Pack

\* Whatever is packed fits the word: a reading that is too large is cut off, and
\* a counter that has left its field is added to an even physical time only.
LEMMA PackedIsWord ==
  ASSUME NEW physical \in Nat, NEW logical \in 0 .. LogicalLimit,
         logical = LogicalLimit => physical < PhysicalLimit
  PROVE  Pack(physical, logical) \in Word
<1> DEFINE r == physical % PhysicalLimit
<1>1. r \in 0 .. PhysicalLimit - 1
  BY ClockConstants, DivModRange, ZenonT(30)
<1>2. (physical * LogicalLimit) % (PhysicalLimit * LogicalLimit) = r * LogicalLimit
  BY ClockConstants, ShiftCutsOff, ZenonT(30)
<1>3. logical = LogicalLimit => r = physical
  BY ClockConstants, SmallMod, ZenonT(30)
<1> HIDE DEF r
<1>4. r * LogicalLimit + LogicalLimit <= PhysicalLimit * LogicalLimit
  BY <1>1, ClockConstants, NextMultiple, SMTT(30)
<1>5. r * LogicalLimit \in Nat
  BY <1>1, ClockConstants
<1>6. CASE logical < LogicalLimit
  BY <1>2, <1>4, <1>5, <1>6, ClockConstants, SMTT(30) DEF Pack, Word
<1>7. CASE logical = LogicalLimit /\ physical % 2 = 1
  BY <1>2, <1>4, <1>5, <1>7, ClockConstants, SMTT(30) DEF Pack, Word
<1>8. CASE logical = LogicalLimit /\ physical % 2 # 1
  <2>1. physical + 1 < PhysicalLimit
    BY <1>8, ClockConstants
  <2>2. (physical + 1) * LogicalLimit + LogicalLimit <= PhysicalLimit * LogicalLimit
    BY <2>1, ClockConstants, NextMultiple, SMTT(30)
  <2>3. (physical + 1) * LogicalLimit = physical * LogicalLimit + LogicalLimit
    BY ClockConstants, SMTT(30)
  <2> QED
    BY <1>2, <1>3, <1>5, <1>8, <2>2, <2>3, ClockConstants, SMTT(30) DEF Pack, Word
<1> QED
  BY <1>6, <1>7, <1>8, ClockConstants, SMTT(30)

\* A timestamp with a larger physical time, or the same and a larger counter, is
\* the larger one.
LEMMA PackedAbove ==
  ASSUME NEW t \in Word, NEW physical \in 0 .. PhysicalLimit - 1,
         NEW logical \in 0 .. LogicalLimit - 1,
         \/ GetPhysicalTime(t) < physical
         \/ GetPhysicalTime(t) = physical /\ GetLogicalTime(t) < logical
  PROVE  Pack(physical, logical) > t
<1> DEFINE p == GetPhysicalTime(t)
           l == GetLogicalTime(t)
<1>1. /\ p \in 0 .. PhysicalLimit - 1 /\ l \in 0 .. LogicalLimit - 1
      /\ t = p * LogicalLimit + l
  BY Parts, Zenon
<1>2. Pack(physical, logical) = physical * LogicalLimit + logical
  BY PackFits, Zenon
<1>3. p < physical \/ (p = physical /\ l < logical)
  BY Zenon
<1> HIDE DEF p, l
<1>4. CASE p < physical
  <2>1. p * LogicalLimit + LogicalLimit <= physical * LogicalLimit
    BY <1>1, <1>4, ClockConstants, NextMultiple, SMTT(30)
  <2> QED
    BY <1>1, <1>2, <2>1, ClockConstants, SMTT(30)
<1>5. CASE p = physical /\ l < logical
  BY <1>1, <1>2, <1>5, ClockConstants, SMTT(30)
<1> QED
  BY <1>3, <1>4, <1>5, Zenon
----------------------------------------------------------------------------
(* The clock.                                                              *)

\* What Now() makes of the parts of the current timestamp.
LEMMA NowStep ==
  ASSUME HLCInv, NEW n \in Node
  PROVE  /\ NowValue(n) \in Word
         /\ Fits(n, {current_time[n]}) => NowValue(n) > current_time[n]
         /\ micros[n] >= PhysicalLimit => NowValue(n) = Pack(micros[n], 0)
<1> DEFINE c == current_time[n]
           p == GetPhysicalTime(c)
           l == GetLogicalTime(c)
<1>1. c \in Word /\ micros[n] \in Nat
  BY Zenon DEF HLCInv
<1>2. p \in 0 .. PhysicalLimit - 1 /\ l \in 0 .. LogicalLimit - 1
  BY <1>1, Parts, Zenon
<1>3. CASE micros[n] > p
  <2>1. NowValue(n) = Pack(micros[n], 0)
    BY <1>3, Zenon DEF NowValue
  <2>2. NowValue(n) \in Word
    BY <1>1, <2>1, PackedIsWord, ClockConstants, SMTT(30)
  <2>3. ASSUME Fits(n, {c}) PROVE Pack(micros[n], 0) > c
    BY <1>1, <1>2, <1>3, <2>3, PackedAbove, ClockConstants, SMTT(30) DEF Fits, RoomFor
  <2> QED
    BY <2>1, <2>2, <2>3, Zenon
<1>4. CASE ~ (micros[n] > p)
  <2>1. NowValue(n) = Pack(p, l + 1) /\ ~ (micros[n] >= PhysicalLimit)
    <3>1. ~ (micros[n] >= PhysicalLimit)
      BY <1>1, <1>2, <1>4, ClockConstants, SMTT(30)
    <3> QED
      BY <1>4, <3>1, Zenon DEF NowValue
  <2>2. NowValue(n) \in Word
    BY <1>2, <2>1, PackedIsWord, ClockConstants, SMTT(30)
  <2>3. ASSUME Fits(n, {c}) PROVE Pack(p, l + 1) > c
    <3>1. l + 1 \in 0 .. LogicalLimit - 1
      BY <1>2, <2>3, ClockConstants, SMTT(30) DEF Fits, RoomFor
    <3> QED
      BY <1>1, <1>2, <3>1, PackedAbove, ClockConstants, SMTT(30)
  <2> QED
    BY <2>1, <2>2, <2>3, Zenon
<1> QED
  BY <1>3, <1>4, Zenon

\* What Update() makes of the current timestamp and the one received.
LEMMA UpdateStep ==
  ASSUME HLCInv, NEW n \in Node, NEW t \in Word
  PROVE  /\ UpdateValue(n, t) \in Word
         /\ Fits(n, {current_time[n], t}) =>
              UpdateValue(n, t) > current_time[n] /\ UpdateValue(n, t) > t
         /\ micros[n] >= PhysicalLimit => UpdateValue(n, t) = Pack(micros[n], 0)
<1> DEFINE c == current_time[n]
           m == micros[n]
           times == {c, t}
           physicals == {m} \cup {GetPhysicalTime(x) : x \in times}
           top == Max(physicals)
           tied == {x \in times : GetPhysicalTime(x) = top}
           counters == {GetLogicalTime(x) : x \in tied}
<1>1. c \in Word /\ m \in Nat /\ times \subseteq Word
  BY Zenon DEF HLCInv
<1>2. \A x \in times : /\ GetPhysicalTime(x) \in 0 .. PhysicalLimit - 1
                       /\ GetLogicalTime(x) \in 0 .. LogicalLimit - 1
  BY <1>1, Parts, Zenon
<1>3. top \in physicals /\ \A y \in physicals : y <= top
  <2>1. physicals = {m, GetPhysicalTime(c), GetPhysicalTime(t)}
    BY Zenon
  <2>2. GetPhysicalTime(c) \in Nat /\ GetPhysicalTime(t) \in Nat
    BY <1>2, ClockConstants
  <2> DEFINE a == GetPhysicalTime(c)
             b == GetPhysicalTime(t)
  <2>3. Max({m, a, b}) \in {m, a, b} /\ \A y \in {m, a, b} : y <= Max({m, a, b})
    <3> HIDE DEF m, a, b
    <3> QED
      BY <1>1, <2>2, MaxOfThree, Zenon DEF a, b
  <2> HIDE DEF physicals
  <2> QED
    BY <2>1, <2>3, Zenon
<1>4. top \in Nat /\ \A x \in times : GetPhysicalTime(x) <= top
  BY <1>1, <1>2, <1>3, ClockConstants, SMTT(30)
<1>5. m < PhysicalLimit => top < PhysicalLimit
  BY <1>1, <1>2, <1>3, ClockConstants, SMTT(30)
<1>6. UpdateValue(n, t) = IF tied = {} THEN Pack(top, 0) ELSE Pack(top, Max(counters) + 1)
  BY Zenon DEF UpdateValue
<1>7. tied \subseteq times /\ counters = {GetLogicalTime(x) : x \in tied}
  BY ZenonT(30)
<1>8. \A x \in times : x \in tied <=> GetPhysicalTime(x) = top
  BY Zenon
<1>9. tied # {} => /\ counters # {}
                   /\ counters \in SUBSET {GetLogicalTime(c), GetLogicalTime(t)}
                   /\ \A x \in tied : GetLogicalTime(x) \in counters
                   /\ \A y \in counters : \E x \in tied : y = GetLogicalTime(x)
  BY ZenonT(30)
<1>10. m >= PhysicalLimit => top = m
  <2>1. \A x \in times : GetPhysicalTime(x) \in Nat /\ GetPhysicalTime(x) < PhysicalLimit
    BY <1>2, ClockConstants
  <2>2. top \in {m} \cup {GetPhysicalTime(x) : x \in times} /\ m <= top
    BY <1>3, Zenon
  <2>3. top = m \/ top < PhysicalLimit
    BY <2>1, <2>2, Zenon
  <2> QED
    BY <1>1, <1>4, <2>2, <2>3, ClockConstants, SMTT(30)
<1> HIDE DEF top, tied, counters
<1>11. CASE tied = {}
  <2>1. UpdateValue(n, t) = Pack(top, 0)
    BY <1>6, <1>11, Zenon
  <2>2. \A x \in times : GetPhysicalTime(x) < top
    BY <1>2, <1>4, <1>8, <1>11, ClockConstants, SMTT(30)
  <2>3. UpdateValue(n, t) \in Word
    BY <1>4, <2>1, PackedIsWord, ClockConstants, SMTT(30)
  <2>4. ASSUME Fits(n, times), NEW x \in times PROVE Pack(top, 0) > x
    <3>1. top \in 0 .. PhysicalLimit - 1
      BY <1>4, <1>5, <2>4, ClockConstants, SMTT(30) DEF Fits, RoomFor
    <3> QED
      BY <1>1, <2>2, <3>1, PackedAbove, ClockConstants, SMTT(30)
  <2> QED
    BY <1>10, <2>1, <2>3, <2>4, ZenonT(30)
<1>12. CASE tied # {}
  <2> DEFINE l == Max(counters)
  <2>1. UpdateValue(n, t) = Pack(top, l + 1)
    BY <1>6, <1>12, Zenon
  <2>2. l \in counters /\ \A y \in counters : y <= l
    <3>1. GetLogicalTime(c) \in Nat /\ GetLogicalTime(t) \in Nat
      BY <1>2, ClockConstants
    <3>2. counters \in SUBSET {GetLogicalTime(c), GetLogicalTime(t)} /\ counters # {}
      BY <1>9, <1>12, Zenon
    <3> HIDE DEF c
    <3> QED
      BY <3>1, <3>2, MaxOfTwo, ZenonT(30)
  <2> HIDE DEF l
  <2>3. PICK x \in tied : l = GetLogicalTime(x)
    BY <1>9, <1>12, <2>2, Zenon
  <2>4. x \in times /\ l \in 0 .. LogicalLimit - 1 /\ top \in 0 .. PhysicalLimit - 1
    BY <1>2, <1>7, <1>8, <2>3, Zenon
  <2>5. UpdateValue(n, t) \in Word /\ ~ (m >= PhysicalLimit)
    <3>1. ~ (m >= PhysicalLimit)
      BY <1>1, <1>10, <2>4, ClockConstants, SMTT(30)
    <3> QED
      BY <2>1, <2>4, <3>1, PackedIsWord, ClockConstants
  <2>6. ASSUME Fits(n, times), NEW u \in times PROVE Pack(top, l + 1) > u
    <3>1. l + 1 \in 0 .. LogicalLimit - 1
      BY <2>3, <2>4, <2>6, ClockConstants DEF Fits, RoomFor
    <3>2. \/ GetPhysicalTime(u) < top
          \/ GetPhysicalTime(u) = top /\ GetLogicalTime(u) < l + 1
      <4>1. CASE u \in tied
        BY <1>2, <1>8, <1>9, <1>12, <2>2, <2>4, <4>1, ClockConstants, SMTT(30)
      <4>2. CASE u \notin tied
        BY <1>2, <1>4, <1>8, <4>2, ClockConstants, SMTT(30)
      <4> QED
        BY <4>1, <4>2, ZenonT(30)
    <3> QED
      BY <1>1, <2>4, <3>1, <3>2, PackedAbove, ZenonT(30)
  <2> QED
    BY <2>1, <2>5, <2>6, Zenon
<1> QED
  BY <1>11, <1>12, Zenon
----------------------------------------------------------------------------
\* A reading fits in the first era only.
LEMMA FirstEra ==
  ASSUME NEW r \in Nat
  PROVE  Era(r) \in Nat /\ (Era(r) = 0 <=> r < PhysicalLimit)
<1>1. PhysicalLimit \in Nat \ {0}
  BY ClockConstants
<1> DEFINE e == r \div PhysicalLimit
           m == r % PhysicalLimit
<1>2. r = PhysicalLimit * e + m /\ e \in Nat /\ m \in 0 .. PhysicalLimit - 1
  BY <1>1, DivMod, DivModRange, ZenonT(30)
<1> HIDE DEF e, m
<1>3. e > 0 => PhysicalLimit * e >= PhysicalLimit
  BY <1>1, <1>2, SMTT(30)
<1>4. e \in Nat /\ (e = 0 <=> r < PhysicalLimit)
  BY <1>1, <1>2, <1>3, SMTT(30)
<1> QED
  BY <1>4, Zenon DEF Era, e

\* Within an era, what is left of two readings is in their order.
LEMMA EraOrdered ==
  ASSUME NEW a \in Nat, NEW b \in Nat, Era(a) = Era(b), a <= b
  PROVE  Pack(b, 0) >= Pack(a, 0) /\ (a < b => Pack(b, 0) > Pack(a, 0) /\ Pack(b, 0) > 0)
<1>1. PhysicalLimit \in Nat \ {0} /\ LogicalLimit \in Nat \ {0}
  BY ClockConstants
<1> DEFINE e == a \div PhysicalLimit
           x == a % PhysicalLimit
           y == b % PhysicalLimit
<1>2. a = PhysicalLimit * e + x /\ x \in 0 .. PhysicalLimit - 1 /\ e \in Nat
  BY <1>1, DivMod, DivModRange, ZenonT(30)
<1>3. b = PhysicalLimit * e + y /\ y \in 0 .. PhysicalLimit - 1
  BY <1>1, DivMod, DivModRange, ZenonT(30) DEF Era
<1>4. /\ (a * LogicalLimit) % (PhysicalLimit * LogicalLimit) = x * LogicalLimit
      /\ (b * LogicalLimit) % (PhysicalLimit * LogicalLimit) = y * LogicalLimit
  BY <1>1, ShiftCutsOff, ZenonT(30)
<1> HIDE DEF e, x, y
<1>5. Pack(a, 0) = x * LogicalLimit /\ Pack(b, 0) = y * LogicalLimit
  <2>1. x * LogicalLimit \in Nat /\ y * LogicalLimit \in Nat /\ 0 < LogicalLimit
    BY <1>1, <1>2, <1>3
  <2> QED
    BY <1>4, <2>1 DEF Pack
<1>6. x <= y /\ (a < b => x < y)
  BY <1>1, <1>2, <1>3, SMTT(30)
<1>7. CASE x = y
  BY <1>1, <1>2, <1>5, <1>6, <1>7, SMTT(30)
<1>8. CASE x < y
  <2>1. x * LogicalLimit + LogicalLimit <= y * LogicalLimit
    BY <1>1, <1>2, <1>3, <1>8, NextMultiple, SMTT(30)
  <2>2. x * LogicalLimit \in Nat /\ y * LogicalLimit \in Nat
    BY <1>1, <1>2, <1>3
  <2> QED
    BY <1>1, <1>5, <2>1, <2>2, SMTT(30)
<1> QED
  BY <1>2, <1>3, <1>6, <1>7, <1>8

\* The clocks start at zero, over whatever the system clock says.
LEMMA HLCInvInit == HLCInit => HLCInv
<1>1. 0 \in Word
  BY ClockConstants DEF Word
<1> QED
  BY <1>1, ClockConstants DEF HLCInit, HLCInv

\* A timestamp taken: it fits the word, and is what is left of a reading over the field.
LEMMA TakenKeeps ==
  ASSUME HLCInv, NEW n \in Node, NEW new \in Word,
         current_time' = [current_time EXCEPT ![n] = new],
         micros[n] >= PhysicalLimit => new = Pack(micros[n], 0),
         sent' \subseteq sent \cup {new},
         last_reading' = [last_reading EXCEPT ![n] = micros[n]], UNCHANGED micros
  PROVE  HLCInv'
<1>1. /\ micros' \in [Node -> Nat] /\ current_time' \in [Node -> Word] /\ sent' \subseteq Word
      /\ last_reading' \in [Node -> Nat]
  BY DEF HLCInv
<1>2. ASSUME NEW m \in Node, last_reading'[m] >= PhysicalLimit
      PROVE  current_time'[m] \in {0, Pack(last_reading'[m], 0)}
  <2>1. CASE m = n
    <3>1. last_reading'[m] = micros[n] /\ current_time'[m] = new
      BY <2>1 DEF HLCInv
    <3> QED
      BY <1>2, <3>1, Zenon
  <2>2. CASE m # n
    <3>1. last_reading'[m] = last_reading[m] /\ current_time'[m] = current_time[m]
      BY <2>2 DEF HLCInv
    <3> QED
      BY <1>2, <3>1, Zenon DEF HLCInv
  <2> QED
    BY <2>1, <2>2
<1> QED
  BY <1>1, <1>2, Zenon DEF HLCInv, Pack

\* Timestamps stay within the word, overflows included.
LEMMA HLCInvNext == HLCInv /\ [HLCNext]_hlcVars => HLCInv'
<1> SUFFICES ASSUME HLCInv, [HLCNext]_hlcVars PROVE HLCInv'
  BY ZenonT(30)
<1>1. CASE UNCHANGED hlcVars
  BY <1>1, ZenonT(30) DEF hlcVars, HLCInv, Pack
<1>2. ASSUME NEW n \in Node, ClockMoves(n) PROVE HLCInv'
  <2>1. micros' \in [Node -> Nat]
    BY <1>2, ClockConstants DEF ClockMoves, HLCInv
  <2> QED
    BY <1>2, <2>1, ZenonT(30) DEF ClockMoves, HLCInv, Pack
<1>3. ASSUME NEW n \in Node, Now(n) PROVE HLCInv'
  <2>1. /\ NowValue(n) \in Word
        /\ micros[n] >= PhysicalLimit => NowValue(n) = Pack(micros[n], 0)
    BY NowStep, Zenon
  <2>2. PICK new : new = NowValue(n)
    OBVIOUS
  <2>3. /\ current_time' = [current_time EXCEPT ![n] = new] /\ sent' = sent \cup {new}
        /\ last_reading' = [last_reading EXCEPT ![n] = micros[n]] /\ UNCHANGED micros
    BY <1>3, <2>2, Zenon DEF Now
  <2>4. sent' \subseteq sent \cup {new}
    BY <2>3, Zenon
  <2> QED
    BY <2>1, <2>2, <2>3, <2>4, TakenKeeps, Zenon
<1>4. ASSUME NEW n \in Node, NEW t \in sent, Update(n, t) PROVE HLCInv'
  <2>1. /\ UpdateValue(n, t) \in Word
        /\ micros[n] >= PhysicalLimit => UpdateValue(n, t) = Pack(micros[n], 0)
    BY UpdateStep, ZenonT(30) DEF HLCInv
  <2>2. PICK new : new = UpdateValue(n, t)
    OBVIOUS
  <2>3. /\ current_time' = [current_time EXCEPT ![n] = new] /\ sent' = sent
        /\ last_reading' = [last_reading EXCEPT ![n] = micros[n]] /\ UNCHANGED micros
    BY <1>4, <2>2, Zenon DEF Update
  <2>4. sent' \subseteq sent \cup {new}
    BY <2>3, Zenon
  <2> QED
    BY <2>1, <2>2, <2>3, <2>4, TakenKeeps, Zenon
<1> QED
  BY <1>1, <1>2, <1>3, <1>4, ZenonT(30) DEF HLCNext

\* A timestamp that is larger where it fits, and what is left of the reading where
\* that does not, follows a steady clock.
LEMMA TakenFollows ==
  ASSUME HLCInv, NEW n \in Node, NEW received, Steady(n), current_time'[n] \in Word,
         micros[n] >= PhysicalLimit => current_time'[n] = Pack(micros[n], 0),
         micros[n] < PhysicalLimit =>
           \A t \in {current_time[n]} \cup received : current_time'[n] > t
  PROVE  FollowsClock(n, received)
<1>1. /\ micros[n] \in Nat /\ last_reading[n] \in Nat /\ current_time[n] \in Word
      /\ last_reading[n] >= PhysicalLimit => current_time[n] \in {0, Pack(last_reading[n], 0)}
  BY Zenon DEF HLCInv
<1>2. current_time[n] \in Nat /\ current_time'[n] \in Nat /\ PhysicalLimit \in Nat
  BY <1>1, ClockConstants DEF Word
<1>3. CASE micros[n] < PhysicalLimit
  <2>1. current_time'[n] > current_time[n]
    BY <1>3
  <2>2. current_time'[n] >= current_time[n]
    BY <1>2, <2>1
  <2> QED
    BY <1>3, <2>1, <2>2, Zenon DEF FollowsClock
<1>4. CASE micros[n] >= PhysicalLimit
  <2>1. Era(micros[n]) # 0 /\ Era(micros[n]) > 0
    BY <1>1, <1>2, <1>4, FirstEra, SMTT(30)
  <2>2. Era(last_reading[n]) = Era(micros[n]) /\ last_reading[n] <= micros[n]
    BY <1>1, <2>1, SMTT(30) DEF Steady
  <2>3. last_reading[n] >= PhysicalLimit
    BY <1>1, <1>2, <2>1, <2>2, FirstEra, SMTT(30)
  <2>4. PICK old, new : old = Pack(last_reading[n], 0) /\ new = Pack(micros[n], 0)
    BY Zenon
  <2>5. new >= old /\ (last_reading[n] < micros[n] => new > old /\ new > 0)
    BY <1>1, <2>2, <2>4, EraOrdered, Zenon
  <2>6. current_time'[n] = new /\ current_time[n] \in {0, old}
    BY <1>1, <1>4, <2>3, <2>4, Zenon
  <2>7. /\ current_time'[n] >= current_time[n]
        /\ micros[n] > last_reading[n] => current_time'[n] > current_time[n]
    BY <1>1, <1>2, <2>5, <2>6, SMTT(30)
  <2> QED
    BY <2>1, <2>7, Zenon DEF FollowsClock
<1> QED
  BY <1>1, <1>2, <1>3, <1>4, SMTT(30)

\* A node's timestamps follow its clock, for fields of any width and readings of any
\* size, unless the clock is set back or the word starts over; and as long as the
\* readings fit, later events of a node and the receipt of a message have larger
\* timestamps, however the clocks are set.
THEOREM AlwaysOrderedWithinEra == HLCSpec => OrderedWithinEra
<1> DEFINE Ordered ==
      \A n \in Node :
        /\ Now(n) /\ Steady(n) /\ RoomFor({current_time[n]}) => FollowsClock(n, {})
        /\ \A t \in sent :
             Update(n, t) /\ Steady(n) /\ RoomFor({current_time[n], t})
               => FollowsClock(n, {t})
<1>1. HLCInv => Ordered
  <2> SUFFICES ASSUME HLCInv, NEW n \in Node PROVE
        /\ Now(n) /\ Steady(n) /\ RoomFor({current_time[n]}) => FollowsClock(n, {})
        /\ \A t \in sent :
             Update(n, t) /\ Steady(n) /\ RoomFor({current_time[n], t})
               => FollowsClock(n, {t})
    BY ZenonT(30)
  <2>1. ASSUME Now(n), Steady(n), RoomFor({current_time[n]}) PROVE FollowsClock(n, {})
    <3>1. current_time'[n] = NowValue(n)
      BY <2>1, Zenon DEF Now, HLCInv
    <3>2. /\ current_time'[n] \in Word
          /\ micros[n] >= PhysicalLimit => current_time'[n] = Pack(micros[n], 0)
          /\ micros[n] < PhysicalLimit => current_time'[n] > current_time[n]
      BY <2>1, <3>1, NowStep, Zenon DEF Fits
    <3>3. micros[n] < PhysicalLimit =>
            \A t \in {current_time[n]} \cup {} : current_time'[n] > t
      BY <3>2, Zenon
    <3> QED
      BY <2>1, <3>2, <3>3, TakenFollows, Zenon
  <2>2. ASSUME NEW t \in sent, Update(n, t), Steady(n), RoomFor({current_time[n], t})
        PROVE  FollowsClock(n, {t})
    <3>1. current_time'[n] = UpdateValue(n, t) /\ t \in Word
      BY <2>2, Zenon DEF Update, HLCInv
    <3>2. /\ current_time'[n] \in Word
          /\ micros[n] >= PhysicalLimit => current_time'[n] = Pack(micros[n], 0)
          /\ micros[n] < PhysicalLimit => current_time'[n] > current_time[n] /\ current_time'[n] > t
      BY <2>2, <3>1, UpdateStep, Zenon DEF Fits
    <3>3. micros[n] < PhysicalLimit =>
            \A u \in {current_time[n]} \cup {t} : current_time'[n] > u
      BY <3>2, Zenon
    <3> QED
      BY <2>2, <3>2, <3>3, TakenFollows, Zenon
  <2> QED
    BY <2>1, <2>2, ZenonT(30)
<1> QED
  BY <1>1, HLCInvInit, HLCInvNext, PTL DEF HLCSpec, OrderedWithinEra
=============================================================================
