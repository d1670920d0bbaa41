---------------------------- MODULE DMABuffer_proof ----------------------------
(***************************************************************************)
(* For any programs, names and sizes: an object that is built holds the    *)
(* descriptor of its own dma_buf, of which as many pages are mapped as     *)
(* size() bytes take; no descriptor and no mapping is lost between two     *)
(* calls; no dma_buf gets descriptor 0; and a name that fits is found      *)
(* again in fdinfo.                                                        *)
(***************************************************************************)
EXTENDS DMABuffer, FiniteSetTheorems, TLAPS

USE NumbersAssumption, ObjectAssumption DEF NumbersAssumption, ObjectAssumption

-----------------------------------------------------------------------------
(* Smallest and largest numbers. *)

(* A set of natural numbers has a smallest element: the intervals that end   *)
(* in one are finite sets, which inclusion orders well.                      *)
LEMMA LeastNumber ==
  ASSUME NEW S \in SUBSET Nat, S # {}
  PROVE  \E m \in S : \A k \in S : m <= k
<1> DEFINE T == {0 .. n : n \in S}
           R == StrictSubsetOrdering(Nat)
<1>1. T \subseteq FiniteSubsetsOf(Nat)
  <2>1. \A n \in S : IsFiniteSet(0 .. n) /\ 0 .. n \in SUBSET Nat
    BY FS_Interval
  <2> QED
    BY <2>1 DEF FiniteSubsetsOf
<1>2. IsWellFoundedOn(R, FiniteSubsetsOf(Nat))
  BY FS_StrictSubsetOrderingWellFounded
<1>3. T # {}
  OBVIOUS
<1>4. PICK x \in T : \A y \in T : ~(<<y, x>> \in R)
  <2> HIDE DEF T, R
  <2> QED
    BY <1>1, <1>2, <1>3, WFMin
<1>5. PICK m \in S : x = 0 .. m
  BY <1>4
<1>6. ASSUME NEW k \in S PROVE m <= k
  <2> SUFFICES ASSUME k < m PROVE FALSE
    OBVIOUS
  <2>1. 0 .. k \in SUBSET Nat /\ x \in SUBSET Nat /\ 0 .. k \subseteq x /\ m \in x /\ m \notin 0 .. k
    BY <1>5
  <2>2. 0 .. k \in T
    OBVIOUS
  <2>3. <<0 .. k, x>> \in R
    BY <2>1 DEF StrictSubsetOrdering
  <2> QED
    BY <1>4, <2>2, <2>3
<1> QED
  BY <1>6

(* What Min and Max choose in a set of positions.                            *)
LEMMA MinOf ==
  ASSUME NEW n \in Nat, NEW S \in SUBSET (1 .. n), S # {}
  PROVE  Min(S) \in S /\ \A k \in S : Min(S) <= k
<1>1. \E m \in S : \A k \in S : m <= k
  BY LeastNumber
<1> QED
  BY <1>1, Zenon DEF Min

LEMMA MaxOf ==
  ASSUME NEW n \in Nat, NEW S \in SUBSET (1 .. n), S # {}
  PROVE  Max(S) \in S /\ \A k \in S : Max(S) >= k
<1> DEFINE T == {n - k : k \in S}
<1>1. T \in SUBSET Nat /\ T # {}
  <2>1. \A k \in S : n - k \in Nat
    OBVIOUS
  <2> QED
    BY <2>1, Zenon
<1>2. PICK m \in T : \A k \in T : m <= k
  <2> HIDE DEF T
  <2> QED
    BY <1>1, LeastNumber
<1>3. PICK l \in S : m = n - l
  BY <1>2
<1>4. ASSUME NEW k \in S PROVE n - k \in T
  OBVIOUS
<1>5. \A k \in S : l >= k
  <2> HIDE DEF T
  <2> QED
    BY <1>2, <1>3, <1>4
<1> QED
  BY <1>5, Zenon DEF Max

-----------------------------------------------------------------------------
(* Names. *)

(* A part of a text is a text, and not a longer one.                         *)
LEMMA PartOfText ==
  ASSUME NEW s \in Text, NEW k \in 1 .. Len(s) + 1, NEW l \in 0 .. Len(s)
  PROVE  SubSeq(s, k, l) \in Text /\ Len(SubSeq(s, k, l)) <= Len(s)
  BY DEF Text

LEMMA TrimText ==
  ASSUME NEW s \in Text
  PROVE  trim(s) \in Text /\ Len(trim(s)) <= Len(s)
<1> DEFINE ink == {i \in DOMAIN s : s[i] \notin Blank}
<1>1. Len(s) \in Nat /\ DOMAIN s = 1 .. Len(s) /\ <<>> \in Text
  BY DEF Text
<1>2. CASE ink = {}
  BY <1>1, <1>2 DEF trim
<1>3. CASE ink # {}
  <2>1. Min(ink) \in 1 .. Len(s) /\ Max(ink) \in 1 .. Len(s)
    BY <1>1, <1>3, MinOf, MaxOf
  <2>2. /\ SubSeq(s, Min(ink), Max(ink)) \in Text
        /\ Len(SubSeq(s, Min(ink), Max(ink))) <= Len(s)
    <3> HIDE DEF ink
    <3> QED
      BY <1>1, <2>1, PartOfText
  <2>3. trim(s) = SubSeq(s, Min(ink), Max(ink))
    BY <1>3, Zenon DEF trim
  <2> QED
    BY <2>2, <2>3
<1> QED
  BY <1>2, <1>3

(* What is before and what is after the first c are parts of a text.         *)
LEMMA CutText ==
  ASSUME NEW s \in Text, NEW c
  PROVE  /\ UpTo(s, c) \in Text /\ Len(UpTo(s, c)) <= Len(s)
         /\ After(s, c) \in Text /\ Len(After(s, c)) <= Len(s)
<1>1. Len(s) \in Nat /\ DOMAIN s = 1 .. Len(s) /\ Places(s, c) \subseteq 1 .. Len(s)
  BY DEF Text, Places
<1>2. CASE Places(s, c) = {}
  BY <1>1, <1>2 DEF UpTo, After
<1>3. CASE Places(s, c) # {}
  <2> DEFINE m == Min(Places(s, c))
  <2>1. m \in 1 .. Len(s)
    BY <1>1, <1>3, MinOf
  <2>2. UpTo(s, c) = SubSeq(s, 1, m - 1) /\ After(s, c) = SubSeq(s, m + 1, Len(s))
    BY <1>3 DEF UpTo, After
  <2> HIDE DEF m
  <2>3. 1 \in 1 .. Len(s) + 1 /\ m - 1 \in 0 .. Len(s) /\ m + 1 \in 1 .. Len(s) + 1 /\ Len(s) \in 0 .. Len(s)
    BY <1>1, <2>1
  <2> QED
    BY <2>2, <2>3, PartOfText
<1> QED
  BY <1>2, <1>3

(* So is the value of any line of a name.                                    *)
LEMMA ValueText ==
  ASSUME NEW s \in Text, NEW i \in FurtherLines(s)
  PROVE  ValueFrom(s, i) \in Text /\ Len(ValueFrom(s, i)) <= Len(s)
<1> DEFINE rest == SubSeq(s, i, Len(s))
           line == LineFrom(s, i)
           value == After(line, ":")
<1>1. Len(s) \in Nat /\ i \in 1 .. Len(s) + 1 /\ Len(s) \in 0 .. Len(s)
  BY DEF Text, FurtherLines, Places
<1>2. rest \in Text /\ Len(rest) <= Len(s)
  BY <1>1, PartOfText
<1>3. line = UpTo(rest, "\n") /\ ValueFrom(s, i) = trim(value)
  BY DEF LineFrom, FirstLine, ValueFrom
<1> HIDE DEF rest, line
<1>4. line \in Text /\ Len(line) <= Len(rest)
  BY <1>2, <1>3, CutText
<1>5. value \in Text /\ Len(value) <= Len(line)
  BY <1>4, CutText
<1> HIDE DEF value
<1>6. trim(value) \in Text /\ Len(trim(value)) <= Len(value)
  BY <1>5, TrimText
<1>7. \A t \in Text : Len(t) \in Nat
  BY DEF Text
<1> QED
  BY <1>2, <1>3, <1>4, <1>5, <1>6, <1>7

(* The line of a field that counts is one of its lines.                      *)
LEMMA LastField ==
  ASSUME NEW s \in Text, NEW field, Fields(s, field) # {}
  PROVE  Max(Fields(s, field)) \in Fields(s, field) /\ Max(Fields(s, field)) \in FurtherLines(s)
<1>1. Len(s) + 1 \in Nat /\ Fields(s, field) \subseteq 1 .. Len(s) + 1
  BY DEF Text, Fields, FurtherLines, Places
<1>2. Max(Fields(s, field)) \in Fields(s, field)
  BY <1>1, MaxOf
<1> QED
  BY <1>2 DEF Fields

LEMMA ReadNameText ==
  ASSUME NEW s \in Text
  PROVE  ReadName(s) \in Text /\ Len(ReadName(s)) <= Len(s)
<1>1. CASE Fields(s, NAME) = {}
  <2>1. FirstLine(s) \in Text /\ Len(FirstLine(s)) <= Len(s)
    BY CutText DEF FirstLine
  <2>2. trim(FirstLine(s)) \in Text /\ Len(trim(FirstLine(s))) <= Len(FirstLine(s))
    BY <2>1, TrimText
  <2>3. \A t \in Text : Len(t) \in Nat
    BY DEF Text
  <2>4. ReadName(s) = trim(FirstLine(s))
    BY <1>1 DEF ReadName
  <2> QED
    BY <2>1, <2>2, <2>3, <2>4
<1>2. CASE Fields(s, NAME) # {}
  <2>1. ReadName(s) = ValueFrom(s, Max(Fields(s, NAME)))
    BY <1>2 DEF ReadName
  <2>2. Max(Fields(s, NAME)) \in FurtherLines(s)
    BY <1>2, LastField
  <2> QED
    BY <2>1, <2>2, ValueText
<1> QED
  BY <1>1, <1>2

(* A size that is read is the kernel's, or one of the numbers stoul makes.   *)
LEMMA ReadSizeNat ==
  ASSUME NEW k \in [size : Nat, name : Text], Readable(k.name)
  PROVE  ReadSize(k) \in Nat
<1>1. CASE Fields(k.name, SIZE) = {}
  BY <1>1 DEF ReadSize
<1>2. CASE Fields(k.name, SIZE) # {}
  <2>1. Max(Fields(k.name, SIZE)) \in Fields(k.name, SIZE)
    BY <1>2, LastField
  <2>2. ValueFrom(k.name, Max(Fields(k.name, SIZE))) \in DOMAIN Numeral
    BY <2>1 DEF Readable
  <2>3. ReadSize(k) = Numeral[ValueFrom(k.name, Max(Fields(k.name, SIZE)))]
    BY <1>2 DEF ReadSize
  <2> QED
    BY <2>2, <2>3, NumeralAssumption DEF NumeralAssumption
<1> QED
  BY <1>1, <1>2

LEMMA PagesNat ==
  ASSUME NEW size \in Nat
  PROVE  PageAligned(size) \in Nat
<1> DEFINE m == size + PAGE_SIZE - 1
           q == m \div PAGE_SIZE
<1>1. m \in Nat
  OBVIOUS
<1>2. q \in Nat
  BY <1>1
<1>3. PageAligned(size) = q * PAGE_SIZE
  BY DEF PageAligned
<1> QED
  BY <1>2, <1>3

(* What the kernel keeps of a name leaves room for a terminator.             *)
LEMMA StoredText ==
  ASSUME NEW s \in Text
  PROVE  \A name \in Stored(s) : name \in Text /\ Len(name) < NameLen
<1>1. Len(s) \in Nat /\ <<>> \in Text /\ Len(<<>>) = 0
  BY DEF Text
<1>2. CASE Len(s) < NameLen - 1
  BY <1>1, <1>2 DEF Stored
<1>3. CASE ~(Len(s) < NameLen - 1)
  <2>1. SubSeq(s, 1, NameLen - 1) \in Text /\ Len(SubSeq(s, 1, NameLen - 1)) = NameLen - 1
    BY <1>1, <1>3 DEF Text
  <2>2. Stored(s) = {SubSeq(s, 1, NameLen - 1), <<>>}
    BY <1>3 DEF Stored
  <2>3. NameLen - 1 < NameLen /\ 0 < NameLen
    OBVIOUS
  <2> QED
    BY <1>1, <2>1, <2>2, <2>3
<1> QED
  BY <1>2, <1>3

-----------------------------------------------------------------------------
(* The calls. *)

LEMMA CallType ==
  ASSUME TypeOK, calls # <<>>
  PROVE  /\ 1 \in 1 .. Len(calls) /\ Call = calls[1] /\ Call.o \in Object
         /\ Call.op = "new" => Call.size \in Nat /\ Call.name \in Text
<1>1. calls \in Seq(ACall)
  BY DEF TypeOK
<1>2. 1 \in 1 .. Len(calls) /\ Call = calls[1] /\ calls[1] \in ACall
  BY <1>1 DEF Call
<1>3. \A c \in ACall : c.o \in Object /\ (c.op = "new" => c.size \in Nat /\ c.name \in Text)
  BY DEF ACall
<1> QED
  BY <1>2, <1>3

(* When a call has been made the others move up.                             *)
LEMMA TailCalls ==
  ASSUME TypeOK, calls # <<>>
  PROVE  /\ Tail(calls) \in Seq(ACall) /\ BuiltOnce(Tail(calls))
         /\ \A k \in 1 .. Len(Tail(calls)) :
              k + 1 \in 2 .. Len(calls) /\ Tail(calls)[k] = calls[k + 1]
<1>1. calls \in Seq(ACall) /\ Len(calls) \in Nat /\ BuiltOnce(calls)
  BY DEF TypeOK
<1>2. /\ Tail(calls) \in Seq(ACall) /\ Len(Tail(calls)) = Len(calls) - 1
      /\ \A k \in 1 .. Len(calls) - 1 : Tail(calls)[k] = calls[k + 1]
  BY <1>1
<1>3. \A k \in 1 .. Len(calls) - 1 : k + 1 \in 2 .. Len(calls)
  BY <1>1
<1>4. BuiltOnce(Tail(calls))
  BY <1>1, <1>2, <1>3 DEF BuiltOnce
<1> QED
  BY <1>2, <1>3, <1>4

(* What holds of the calls when the first of them is done; only a            *)
(* destructor or the constructor of this call has changed an object.         *)
CallEnds ==
  /\ calls # <<>> /\ calls' = Tail(calls) /\ step' = "call"
  /\ \A o \in Object :
       /\ \/ _buffer'[o] => _buffer[o]
          \/ Builds(Call) /\ o = Call.o
       /\ dma_buf_fd'[o] = dma_buf_fd[o] \/ dma_buf_fd'[o] = -1

LEMMA CallDone ==
  ASSUME BufferInv, CallEnds
  PROVE  Ahead'
<1> USE DEF CallEnds
<1> SUFFICES ASSUME NEW k \in 1 .. Len(calls'), Builds(calls'[k])
             PROVE  ~_buffer'[calls'[k].o] /\ dma_buf_fd'[calls'[k].o] = -1
  BY DEF Ahead
<1>1. /\ k + 1 \in 1 .. Len(calls) /\ calls'[k] = calls[k + 1] /\ k + 1 # 1 /\ k + 1 > 1
      /\ calls[k + 1] \in ACall
  BY TailCalls DEF BufferInv, TypeOK
<1>2. calls'[k].o \in Object
  BY <1>1 DEF ACall
<1>3. ~_buffer[calls'[k].o] /\ dma_buf_fd[calls'[k].o] = -1
  BY <1>1 DEF BufferInv, Ahead
<1>4. Builds(Call) => calls'[k].o # Call.o
  <2>1. BuiltOnce(calls) /\ 1 \in 1 .. Len(calls) /\ Call = calls[1] /\ Builds(calls[k + 1])
    BY <1>1, CallType DEF BufferInv, TypeOK
  <2> QED
    BY <1>1, <2>1 DEF BuiltOnce
<1> QED
  BY <1>2, <1>3, <1>4

-----------------------------------------------------------------------------
(* One lemma for each step. *)

LEMMA InitBufferInv == Init => BufferInv
<1> SUFFICES ASSUME Init PROVE BufferInv
  OBVIOUS
<1>1. calls \in Seq(ACall) /\ BuiltOnce(calls)
  BY ProgramsAssumption DEF Init
<1>2. <<>> \in Text /\ -1 \notin Fd
  BY DEF Text, Fd
<1>3. table \in [Fd -> {"std", "free"}]
  BY DEF Init
<1>4. TypeOK
  BY <1>1, <1>2, <1>3 DEF Init, TypeOK, Kind, NoMap
<1>5. Ahead
  <2>1. \A k \in 1 .. Len(calls) : calls[k] \in ACall
    BY <1>1
  <2>2. \A c \in ACall : c.o \in Object
    BY DEF ACall
  <2> QED
    BY <2>1, <2>2 DEF Init, Ahead
<1>6. TableInv
  <2>1. \A d \in Fd : table[d] \notin Object
    BY <1>3 DEF Kind
  <2> QED
    BY <1>2, <1>3, <2>1 DEF Init, TableInv
<1> QED
  BY <1>4, <1>5, <1>6 DEF Init, BufferInv, InStep, BuiltInv, NameInv

(* The kernel takes everything back.                                         *)
LEMMA EndsInv ==
  ASSUME BufferInv, NEW how \in {"returned", "SIGSEGV", "SIGABRT", "fault"}, Ends(how)
  PROVE  BufferInv'
<1>1. TypeOK'
  BY DEF Ends, BufferInv, TypeOK, Kind, NoMap, members
<1>2. InStep' /\ Ahead' /\ NameInv'
  BY DEF Ends, BufferInv, InStep, Ahead, NameInv, members, Call
<1>3. TableInv'
  BY DEF Ends, TableInv, Kind
<1>4. BuiltInv'
  BY DEF Ends, BuiltInv, NoMap
<1> QED
  BY <1>1, <1>2, <1>3, <1>4 DEF BufferInv

(* The first descriptor of a constructor, of kind k at step s.               *)
LEMMA OpensFirst ==
  ASSUME BufferInv, status = "running", step = "call", calls # <<>>,
         NEW k \in {"heap", "pidfd"}, NEW d \in Fd, LowestIn(table, d),
         table' = [table EXCEPT ![d] = k],
         step' = IF k = "heap" THEN "alloc" ELSE "getfd",
         Call.op = IF k = "heap" THEN "new" ELSE "connect",
         UNCHANGED <<calls, status, kernel, maps, members>>
  PROVE  BufferInv'
<1> USE DEF BufferInv, members
<1>1. TypeOK'
  BY DEF TypeOK, Kind
<1>2. InStep' /\ Ahead' /\ NameInv' /\ BuiltInv'
  BY DEF InStep, Ahead, NameInv, BuiltInv, Call, Builds
<1>3. TableInv'
  <2>1. 0 \in Fd /\ d \in Fd /\ (d = 0 \/ 0 \in 0 .. d - 1)
    BY DEF Fd
  <2>2. table'[0] # "free"
    BY <2>1 DEF LowestIn, TypeOK
  <2>3. k \notin Object /\ table[d] \notin Object
    BY DEF Kind, LowestIn
  <2>4. \A e \in Fd : table'[e] = IF e = d THEN k ELSE table[e]
    BY DEF TypeOK
  <2>5. \A e \in Fd : table[e] # "heap" /\ table[e] # "pidfd"
    BY DEF TableInv
  <2> QED
    BY <2>2, <2>3, <2>4, <2>5 DEF TableInv
<1> QED
  BY <1>1, <1>2, <1>3

(* The object gets its dma_buf, and what was opened first is closed.         *)
LEMMA GetsInv ==
  ASSUME BufferInv, status = "running", calls # <<>>,
         NEW k \in {"heap", "pidfd"}, step = IF k = "heap" THEN "alloc" ELSE "getfd",
         NEW d \in Fd, LowestIn(table, d), table' = Without(Opened(table, d), k),
         NEW buf \in [size : Nat, name : Text], Gets(d, buf),
         Call.op = "new" => buf.name \in Stored(Call.name)
  PROVE  BufferInv'
<1> DEFINE o == Call.o
<1> USE DEF BufferInv
<1>1. o \in Object /\ 1 \in 1 .. Len(calls) /\ Call = calls[1] /\ Builds(Call)
  BY CallType DEF InStep
<1>2. ~_buffer[o] /\ dma_buf_fd[o] = -1
  BY <1>1 DEF Ahead
<1>3. d \in 1 .. MaxFd
  <2>1. table[0] # "free" /\ table[d] = "free"
    BY DEF TableInv, LowestIn
  <2> QED
    BY <2>1 DEF Fd
<1> HIDE DEF o
<1>4. /\ \A e \in Fd : table'[e] = IF e = d THEN o ELSE IF table[e] = k THEN "free" ELSE table[e]
      /\ table' \in [Fd -> Kind \union Object]
  <2>1. o \notin Kind
    BY <1>1
  <2>2. \A e \in Fd : Opened(table, d)[e] = IF e = d THEN o ELSE table[e]
    BY DEF Opened, o, TypeOK
  <2> QED
    BY <1>1, <2>1, <2>2 DEF Without, TypeOK, Kind
<1>5. /\ dma_buf_fd' = [dma_buf_fd EXCEPT ![o] = d] /\ kernel' = [kernel EXCEPT ![o] = buf]
      /\ step' = "info" /\ Call' = Call /\ calls' = calls /\ status' = status /\ maps' = maps
      /\ _size' = _size /\ buffer_name' = buffer_name /\ _buffer' = _buffer /\ freed' = freed
  BY DEF Gets, o, Call
<1>6. TypeOK'
  BY <1>1, <1>3, <1>4, <1>5 DEF TypeOK
<1>7. InStep'
  BY <1>1, <1>3, <1>5 DEF InStep, TypeOK, o, Builds
<1>8. Ahead'
  <2> SUFFICES ASSUME NEW l \in 1 .. Len(calls), Builds(calls[l])
               PROVE  ~_buffer[calls[l].o] /\ (l > 1 => dma_buf_fd'[calls[l].o] = -1)
    BY <1>5 DEF Ahead
  <2>1. ~_buffer[calls[l].o] /\ dma_buf_fd[calls[l].o] = -1
    BY DEF Ahead
  <2>2. l > 1 => calls[l].o # o
    BY <1>1 DEF TypeOK, BuiltOnce, o
  <2>3. calls[l] \in ACall
    BY DEF TypeOK
  <2>4. calls[l].o \in Object
    BY <2>3 DEF ACall
  <2> QED
    BY <1>5, <2>1, <2>2, <2>4 DEF TypeOK
<1>9. TableInv'
  <2>1. \A e \in Fd : table[e] = "heap" \/ table[e] = "pidfd" => table[e] = k
    BY DEF TableInv
  <2>2. \A e \in Fd, p \in Object : table[e] = p <=> dma_buf_fd[p] = e
    BY DEF TableInv
  <2>3. table[d] = "free" /\ \A e \in Fd : table[e] # o
    <3>1. table[d] = "free" /\ -1 \notin Fd
      BY DEF LowestIn, Fd
    <3> QED
      BY <1>1, <1>2, <2>2, <3>1 DEF o
  <2>4. \A p \in Object : dma_buf_fd'[p] = IF p = o THEN d ELSE dma_buf_fd[p]
    BY <1>5 DEF TypeOK
  <2>5. o \in Object /\ \A p \in Object : p # "free" /\ p # k
    BY <1>1 DEF Kind, o
  <2>6. \A e \in Fd, p \in Object : table'[e] = p <=> dma_buf_fd'[p] = e
    BY <1>4, <2>2, <2>3, <2>4, <2>5
  <2>7. \A e \in Fd : table'[e] # "heap" /\ table'[e] # "pidfd"
    BY <1>4, <2>1, <2>5 DEF Kind
  <2> QED
    BY <1>5, <2>6, <2>7 DEF TableInv
<1>10. BuiltInv'
  <2>1. ASSUME NEW p \in Object, _buffer[p] PROVE dma_buf_fd'[p] = dma_buf_fd[p] /\ kernel'[p] = kernel[p]
    BY <1>2, <1>5, <2>1 DEF TypeOK, o
  <2> QED
    BY <1>5, <2>1 DEF BuiltInv
<1>11. NameInv'
  BY <1>1, <1>5 DEF NameInv, TypeOK, o
<1> QED
  BY <1>6, <1>7, <1>8, <1>9, <1>10, <1>11

LEMMA UpdateInv ==
  ASSUME BufferInv, update_buffer_info
  PROVE  BufferInv'
<1> DEFINE o == Call.o
           n == ReadSize(kernel[o])
           name == ReadName(kernel[o].name)
<1> USE DEF BufferInv
<1>0. /\ calls # <<>> /\ step = "info" /\ status = "running" /\ Readable(kernel[o].name)
      /\ _size' = [_size EXCEPT ![o] = n]
      /\ buffer_name' = [buffer_name EXCEPT ![o] = name]
      /\ step' = "map" /\ Call' = Call
      /\ UNCHANGED <<calls, status, table, kernel, maps, dma_buf_fd, _buffer, freed>>
  BY DEF update_buffer_info, Informed, At, Call
<1>1. o \in Object /\ 1 \in 1 .. Len(calls) /\ Call = calls[1] /\ Builds(Call)
  BY <1>0, CallType DEF InStep
<1>2. ~_buffer[o]
  BY <1>1 DEF Ahead
<1>3. n \in Nat /\ name \in Text
  <2>1. kernel[o] \in [size : Nat, name : Text]
    BY <1>1 DEF TypeOK
  <2>2. kernel[o].name \in Text
    BY <2>1
  <2> QED
    BY <1>0, <2>1, <2>2, ReadSizeNat, ReadNameText
<1>4. kernel'[o] = kernel[o] /\ ReadSize(kernel'[o]) = n /\ ReadName(kernel'[o].name) = name
  BY <1>0
<1>5. o = Call.o /\ n = ReadSize(kernel[o])
  OBVIOUS
<1> HIDE DEF o, n, name
<1>6. TypeOK'
  BY <1>0, <1>3 DEF TypeOK
<1>7. _size'[o] = n /\ buffer_name'[o] = name
  BY <1>0, <1>1 DEF TypeOK
<1>8. InStep' /\ Ahead'
  BY <1>0, <1>1, <1>4, <1>5, <1>7 DEF InStep, Ahead
<1>9. TableInv'
  BY <1>0 DEF TableInv
<1>10. BuiltInv'
  <2>1. \A p \in Object : _buffer[p] => _size'[p] = _size[p]
    BY <1>0, <1>2 DEF TypeOK
  <2> QED
    BY <1>0, <2>1 DEF BuiltInv
<1>11. NameInv'
  BY <1>0, <1>4, <1>5, <1>7 DEF NameInv
<1> QED
  BY <1>6, <1>8, <1>9, <1>10, <1>11

LEMMA MapInv ==
  ASSUME BufferInv, map
  PROVE  BufferInv'
<1> DEFINE o == Call.o
           len == PageAligned(_size[o])
           mapping == [len |-> len, write |-> Call.op = "new"]
<1> USE DEF BufferInv
<1>0. /\ calls # <<>> /\ step = "map" /\ status = "running" /\ len <= kernel[o].size
      /\ maps' = [maps EXCEPT ![o] = mapping] /\ _buffer' = [_buffer EXCEPT ![o] = TRUE]
      /\ calls' = Tail(calls) /\ step' = "call"
      /\ UNCHANGED <<status, table, kernel, dma_buf_fd, _size, buffer_name, freed>>
  BY DEF map, Mapped, At
<1>1. o \in Object /\ Builds(Call) /\ dma_buf_fd[o] # -1 /\ _size[o] = ReadSize(kernel[o])
  BY <1>0, CallType DEF InStep
<1>2. mapping \in [len : Nat, write : BOOLEAN] /\ mapping.len = len
  <2>1. _size[o] \in Nat
    BY <1>1 DEF TypeOK
  <2> QED
    BY <2>1, PagesNat
<1> HIDE DEF mapping
<1>3. TypeOK'
  BY <1>0, <1>1, <1>2, TailCalls DEF TypeOK
<1>4. InStep' /\ NameInv'
  BY <1>0 DEF InStep, NameInv
<1>5. Ahead'
  <2>1. CallEnds
    BY <1>0, <1>1 DEF CallEnds, TypeOK, o
  <2> QED
    BY <2>1, CallDone
<1>6. TableInv'
  BY <1>0 DEF TableInv
<1>7. BuiltInv'
  <2>1. \A p \in Object : maps'[p] = IF p = o THEN mapping ELSE maps[p]
    BY <1>0 DEF TypeOK
  <2>2. \A p \in Object : _buffer'[p] = IF p = o THEN TRUE ELSE _buffer[p]
    BY <1>0 DEF TypeOK
  <2> HIDE DEF o, len
  <2>3. status' = status /\ kernel' = kernel /\ _size' = _size /\ dma_buf_fd' = dma_buf_fd
    BY <1>0
  <2>4. mapping.len = len /\ len <= kernel[o].size /\ dma_buf_fd[o] # -1 /\ _size[o] = ReadSize(kernel[o])
    BY <1>0, <1>1, <1>2
  <2>5. len = PageAligned(_size[o])
    BY DEF len
  <2>6. ASSUME NEW p \in Object
        PROVE  /\ maps'[p] # NoMap => _buffer'[p]
               /\ _buffer'[p] /\ status' = "running" =>
                    /\ dma_buf_fd'[p] # -1 /\ _size'[p] = ReadSize(kernel'[p])
                    /\ maps'[p].len = PageAligned(_size'[p]) /\ maps'[p].len <= kernel'[p].size
    <3>1. CASE p = o
      BY <2>1, <2>2, <2>3, <2>4, <2>5, <3>1
    <3>2. CASE p # o
      BY <2>1, <2>2, <2>3, <3>2 DEF BuiltInv
    <3> QED
      BY <3>1, <3>2
  <2> QED
    BY <2>6 DEF BuiltInv
<1> QED
  BY <1>3, <1>4, <1>5, <1>6, <1>7

LEMMA TouchInv ==
  ASSUME BufferInv, Touch
  PROVE  BufferInv'
<1>1. CASE Ends("fault")
  BY <1>1, EndsInv
<1>2. CASE ~Ends("fault")
  <2>1. /\ calls # <<>> /\ step = "call" /\ calls' = Tail(calls)
        /\ UNCHANGED <<step, status, table, kernel, maps, members>>
    BY <1>2 DEF Touch, At
  <2>2. TypeOK'
    BY <2>1, TailCalls DEF BufferInv, TypeOK, members
  <2>3. CallEnds
    BY <2>1 DEF CallEnds, members
  <2>4. Ahead'
    BY <2>3, CallDone
  <2> QED
    BY <2>1, <2>2, <2>4 DEF BufferInv, InStep, TableInv, BuiltInv, NameInv, members
<1> QED
  BY <1>1, <1>2

LEMMA DestroyInv ==
  ASSUME BufferInv, Destroy
  PROVE  BufferInv'
<1> DEFINE o == Call.o
           d == dma_buf_fd[o]
<1> USE DEF BufferInv
<1>0. /\ calls # <<>> /\ step = "call" /\ status = "running" /\ d > 0
      /\ table' = [table EXCEPT ![d] = "free"]
      /\ dma_buf_fd' = [dma_buf_fd EXCEPT ![o] = -1]
      /\ _buffer' = [_buffer EXCEPT ![o] = FALSE] /\ _size' = [_size EXCEPT ![o] = 0]
      /\ maps' = [maps EXCEPT ![o] = NoMap]
      /\ freed' = freed \union {o} /\ calls' = Tail(calls)
      /\ UNCHANGED <<step, status, kernel, buffer_name>>
  BY DEF Destroy, ClosesAndResets, Destroyed, At
<1>1. o \in Object /\ d \in Fd
  <2>1. o \in Object
    BY <1>0, CallType
  <2> QED
    BY <1>0, <2>1 DEF TypeOK, Fd
<1>2. table[d] = o
  BY <1>0, <1>1 DEF TableInv
<1> HIDE DEF d, o
<1>3. TypeOK'
  BY <1>0, <1>1, TailCalls DEF TypeOK, NoMap, Kind
<1>4. InStep' /\ NameInv'
  BY <1>0 DEF InStep, NameInv
<1>5. Ahead'
  <2>1. \A p \in Object : _buffer'[p] => _buffer[p]
    BY <1>0 DEF TypeOK
  <2>2. \A p \in Object : dma_buf_fd'[p] = dma_buf_fd[p] \/ dma_buf_fd'[p] = -1
    BY <1>0 DEF TypeOK
  <2>3. CallEnds
    BY <1>0, <2>1, <2>2 DEF CallEnds
  <2> QED
    BY <2>3, CallDone
<1>6. TableInv'
  <2>1. \A e \in Fd : table'[e] = IF e = d THEN "free" ELSE table[e]
    BY <1>0 DEF TypeOK
  <2>2. \A p \in Object : dma_buf_fd'[p] = IF p = o THEN -1 ELSE dma_buf_fd[p]
    BY <1>0 DEF TypeOK
  <2>3. \A e \in Fd, p \in Object : table[e] = p <=> dma_buf_fd[p] = e
    BY <1>0 DEF TableInv
  <2>4. -1 \notin Fd /\ \A p \in Object : p # "free"
    BY DEF Fd, Kind
  <2>5. \A e \in Fd, p \in Object : table'[e] = p <=> dma_buf_fd'[p] = e
    BY <1>1, <1>2, <2>1, <2>2, <2>3, <2>4
  <2> QED
    BY <1>0, <2>1, <2>5 DEF TableInv
<1>7. BuiltInv'
  BY <1>0, <1>1 DEF BuiltInv, TypeOK
<1> QED
  BY <1>3, <1>4, <1>5, <1>6, <1>7

LEMMA DestroyAgainInv ==
  ASSUME BufferInv, DestroyAgain
  PROVE  BufferInv'
<1>1. CASE Ends("SIGABRT")
  BY <1>1, EndsInv
<1>2. CASE ~Ends("SIGABRT")
  <2>1. /\ calls # <<>> /\ step = "call" /\ calls' = Tail(calls) /\ freed' = freed \union {Call.o}
        /\ UNCHANGED <<step, status, kernel, buffer_name, table, maps, dma_buf_fd, _size, _buffer>>
    BY <1>2 DEF DestroyAgain, Destroyed, At
  <2>2. Call.o \in Object
    BY <2>1, CallType DEF BufferInv
  <2>3. TypeOK'
    BY <2>1, <2>2, TailCalls DEF BufferInv, TypeOK
  <2>4. CallEnds
    BY <2>1 DEF CallEnds
  <2>5. Ahead'
    BY <2>4, CallDone
  <2> QED
    BY <2>1, <2>3, <2>5 DEF BufferInv, InStep, TableInv, BuiltInv, NameInv
<1> QED
  BY <1>1, <1>2

LEMMA NextInv ==
  ASSUME BufferInv, [Next]_vars
  PROVE  BufferInv'
<1>1. CASE OpenHeap
  <2>1. PICK d \in Fd : LowestIn(table, d) /\ table' = [table EXCEPT ![d] = "heap"]
    BY <1>1 DEF OpenHeap
  <2> QED
    BY <1>1, <2>1, OpensFirst DEF OpenHeap, At
<1>2. CASE PidfdOpen
  <2>1. PICK d \in Fd : LowestIn(table, d) /\ table' = [table EXCEPT ![d] = "pidfd"]
    BY <1>2 DEF PidfdOpen
  <2> QED
    BY <1>2, <2>1, OpensFirst DEF PidfdOpen, At
<1>3. CASE Allocate
  <2>1. /\ status = "running" /\ calls # <<>> /\ step = "alloc"
        /\ Call.size \in Nat /\ Call.name \in Text
    BY <1>3, CallType DEF Allocate, Allocating, At, BufferInv
  <2>2. PICK d \in Fd, name \in Stored(Call.name) :
          /\ LowestIn(table, d) /\ table' = Without(Opened(table, d), "heap")
          /\ Gets(d, [size |-> PageAligned(Call.size), name |-> name])
    BY <1>3 DEF Allocate
  <2>3. PageAligned(Call.size) \in Nat
    BY <2>1, PagesNat
  <2>4. name \in Text
    BY <2>1, <2>2, StoredText
  <2> DEFINE buf == [size |-> PageAligned(Call.size), name |-> name]
  <2>5. buf \in [size : Nat, name : Text] /\ buf.name \in Stored(Call.name)
    BY <2>2, <2>3, <2>4
  <2>6. Gets(d, buf)
    BY <2>2
  <2> HIDE DEF buf
  <2> QED
    BY <2>1, <2>2, <2>5, <2>6, GetsInv
<1>4. CASE GetFd
  <2>1. /\ status = "running" /\ calls # <<>> /\ step = "getfd" /\ Call.op # "new"
        /\ Call.fd \in DOMAIN Remote
    BY <1>4 DEF GetFd, Getting, At
  <2>2. PICK d \in Fd :
          /\ LowestIn(table, d) /\ table' = Without(Opened(table, d), "pidfd")
          /\ Gets(d, Remote[Call.fd])
    BY <1>4 DEF GetFd
  <2>3. Remote[Call.fd] \in [size : Nat, name : Text]
    BY <2>1, RemoteAssumption
  <2> QED
    BY <2>1, <2>2, <2>3, GetsInv
<1>5. CASE Raises \/ update_buffer_info_Throws \/ Returns
  BY <1>5, EndsInv DEF Raises, Returns, update_buffer_info_Throws
<1>6. CASE UNCHANGED vars
  BY <1>6 DEF vars, members, BufferInv, TypeOK, InStep, Ahead, TableInv, BuiltInv, NameInv, Call
<1> QED
  BY <1>1, <1>2, <1>3, <1>4, <1>5, <1>6, UpdateInv, MapInv, TouchInv, DestroyInv, DestroyAgainInv
  DEF Next

(* The inductive invariant.                                                  *)
THEOREM BufferInvariant == Spec => []BufferInv
<1>1. Init => BufferInv
  BY InitBufferInv
<1>2. BufferInv /\ [Next]_vars => BufferInv'
  BY NextInv
<1> QED
  BY <1>1, <1>2, PTL DEF Spec

-----------------------------------------------------------------------------
(* What the program relies on. *)

(* Every member, the table of descriptors and what is mapped have their type *)
(* whatever the programs do: dma_buf_fd is -1 or a number above 0.           *)
THEOREM TypeCorrect == Spec => []TypeOK
<1>1. BufferInv => TypeOK
  BY DEF BufferInv
<1> QED
  BY <1>1, BufferInvariant, PTL

(* An object that is built holds the descriptor of its own dma_buf, whatever *)
(* the other objects opened and closed; the pages that size() bytes take are *)
(* mapped and all in the buffer, whatever its name makes of the size; and    *)
(* size() is the buffer's if no further line of the name sets it.            *)
THEOREM BufferDescribed == Spec => []MembersDescribeBuffer
<1>1. BufferInv => MembersDescribeBuffer
  <2> SUFFICES ASSUME BufferInv, status = "running", NEW o \in Object, _buffer[o]
               PROVE  /\ table[dma_buf_fd[o]] = o
                      /\ maps[o].len = PageAligned(_size[o]) /\ maps[o].len <= kernel[o].size
                      /\ Fields(kernel[o].name, SIZE) = {} => _size[o] = kernel[o].size
    BY DEF MembersDescribeBuffer
  <2>1. /\ dma_buf_fd[o] # -1 /\ _size[o] = ReadSize(kernel[o])
        /\ maps[o].len = PageAligned(_size[o]) /\ maps[o].len <= kernel[o].size
    BY DEF BufferInv, BuiltInv
  <2>2. dma_buf_fd[o] \in Fd
    BY <2>1 DEF BufferInv, TypeOK, Fd
  <2>3. Fields(kernel[o].name, SIZE) = {} => _size[o] = kernel[o].size
    BY <2>1 DEF ReadSize
  <2> QED
    BY <2>1, <2>2, <2>3 DEF BufferInv, TableInv
<1> QED
  BY <1>1, BufferInvariant, PTL

(* Between two calls nothing is open or mapped that no object records.       *)
THEOREM NoLeak == Spec => []NothingLost
<1>1. BufferInv => NothingLost
  <2> SUFFICES ASSUME BufferInv, step = "call" PROVE NothingLost
    BY DEF NothingLost
  <2>1. ASSUME NEW d \in Fd
        PROVE  table[d] \in {"free", "std"} \/ \E o \in Object : dma_buf_fd[o] = d
    <3>1. table[d] \in {"free", "std"} \/ table[d] \in Object
      BY DEF BufferInv, TypeOK, TableInv, Kind
    <3> QED
      BY <3>1 DEF BufferInv, TableInv
  <2> QED
    BY <2>1 DEF BufferInv, BuiltInv, NothingLost
<1> QED
  BY <1>1, BufferInvariant, PTL

(* No dma_buf gets descriptor 0: the heap or the pidfd, opened first and     *)
(* closed later, takes it when the process was started without its streams.  *)
THEOREM ZeroIsNever == Spec => []NeverZero
<1>1. BufferInv => NeverZero
  <2> SUFFICES ASSUME BufferInv, NEW o \in Object PROVE dma_buf_fd[o] # 0
    BY DEF NeverZero
  <2>1. dma_buf_fd[o] \in {-1} \union (1 .. MaxFd)
    BY DEF BufferInv, TypeOK
  <2> QED
    BY <2>1
<1> QED
  BY <1>1, BufferInvariant, PTL

(* A name that fits, of one line and with no blanks at its ends, comes back  *)
(* from fdinfo as it was given; no name is longer than the kernel's limit.   *)
THEOREM NameSurvives == Spec => []NameKept
<1>1. BufferInv => NameKept
  <2> SUFFICES ASSUME BufferInv, At("new", "map")
               PROVE  LET name == Call.name  kept == buffer_name[Call.o]
                      IN  /\ Len(kept) < NameLen
                          /\ Len(name) < NameLen - 1 /\ trim(name) = name /\ ~Contains(name, "\n")
                               => kept = name
    BY DEF NameKept
  <2> DEFINE name == Call.name
             kept == buffer_name[Call.o]
             stored == kernel[Call.o].name
  <2>1. step = "map" /\ calls # <<>> /\ Call.op = "new"
    BY DEF At
  <2>2. Call.o \in Object /\ name \in Text
    BY <2>1, CallType DEF BufferInv
  <2>3. stored \in Stored(name) /\ kept = ReadName(stored)
    BY <2>1 DEF BufferInv, NameInv
  <2>4. stored \in Text /\ Len(stored) < NameLen
    BY <2>2, <2>3, StoredText
  <2>5. Len(kept) < NameLen
    <3>1. kept \in Text /\ Len(kept) <= Len(stored)
      BY <2>3, <2>4, ReadNameText
    <3>2. Len(stored) \in Nat /\ Len(kept) \in Nat
      BY <2>4, <3>1 DEF Text
    <3> QED
      BY <2>4, <3>1, <3>2
  <2>6. ASSUME Len(name) < NameLen - 1, trim(name) = name, ~Contains(name, "\n")
        PROVE  kept = name
    <3>1. stored = name
      BY <2>3, <2>6 DEF Stored
    <3>2. Places(name, "\n") = {}
      <4>1. DOMAIN name = 1 .. Len(name)
        BY <2>2 DEF Text
      <4> QED
        BY <2>6, <4>1 DEF Contains, Places
    <3>3. Fields(name, NAME) = {} /\ FirstLine(name) = name
      BY <3>2, Zenon DEF Fields, FurtherLines, FirstLine, UpTo
    <3> QED
      BY <2>3, <2>6, <3>1, <3>3 DEF ReadName
  <2> QED
    BY <2>5, <2>6
<1> QED
  BY <1>1, BufferInvariant, PTL
===============================================================================
