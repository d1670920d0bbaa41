------------------------------ MODULE DMABuffer ------------------------------
(***************************************************************************)
(* dps::DMABuffer, member by member, under programs that use it in one     *)
(* thread.  A program is the sequence of calls its main makes.  Heaps,     *)
(* /proc and the process whose descriptors are borrowed are external.      *)
(***************************************************************************)
EXTENDS Integers, Sequences, SequencesExt

CONSTANTS
  Object,     \* the variables of type DMABuffer
  Programs,   \* sequences of calls
  Remote,     \* what the other process has open: [size, name] records, size 0 for no dma_buf
  MaxFd,      \* the last descriptor RLIMIT_NOFILE allows
  PAGE_SIZE,
  NameLen,    \* DMA_BUF_NAME_LEN
  Numeral,    \* the texts of which std::stoul makes a number, and the number
  LocalCapacity \* the longest std::string without memory of its own

ASSUME NumbersAssumption == MaxFd \in Nat /\ PAGE_SIZE \in Nat \ {0} /\ NameLen \in Nat \ {0}

Text == Seq(STRING)   \* a character is a string of length 1
Kind == {"free", "std", "heap", "pidfd"}   \* what a descriptor is, when it is no dma_buf
ASSUME ObjectAssumption == Object \cap Kind = {}
ASSUME RemoteAssumption ==
  \A d \in DOMAIN Remote :
    Remote[d] \in [size : Nat, name : Text] /\ (Remote[d].size = 0 => Remote[d].name = <<>>)
ASSUME NumeralAssumption ==
  \A t \in DOMAIN Numeral : t \in Text /\ Numeral[t] \in Nat

\* A variable is constructed once; the destructor may be called by its name as well.
ACall ==
  [op : {"new"}, o : Object, size : Nat, name : Text]
  \union [op : {"connect"}, o : Object, fd : Int]
  \union [op : {"touch"}, o : Object, n : Nat, write : BOOLEAN]
  \union [op : {"delete"}, o : Object]
Builds(c) == c.op \in {"new", "connect"}
BuiltOnce(p) ==
  \A k, l \in 1 .. Len(p) : k # l /\ Builds(p[k]) /\ Builds(p[l]) => p[k].o # p[l].o
ASSUME ProgramsAssumption == Programs \subseteq {p \in Seq(ACall) : BuiltOnce(p)}

VARIABLES
  calls,      \* the calls that are still to be made
  step,       \* how far the first of them is
  status,     \* "running", "returned", or how the process ended
  table,      \* descriptor -> a Kind, or the object whose dma_buf it is
  kernel,     \* the size and the name of the dma_buf each object was given
  maps,       \* the mapping each object has: its length and whether it may be written
  dma_buf_fd, _size, buffer_name, _buffer, \* the members (_buffer: not nullptr)
  freed       \* the objects whose member destructors have run

members == <<dma_buf_fd, _size, buffer_name, _buffer, freed>>
vars == <<calls, step, status, table, kernel, maps, members>>

NoMap == [len |-> 0, write |-> FALSE]
Fd == 0 .. MaxFd

\* A process may be started without its standard streams.
Init ==
  /\ calls \in Programs /\ step = "call" /\ status = "running"
  /\ table \in {[d \in Fd |-> IF d < std THEN "std" ELSE "free"] : std \in {0, 3}}
  /\ kernel = [o \in Object |-> [size |-> 0, name |-> <<>>]]
  /\ maps = [o \in Object |-> NoMap]
  /\ dma_buf_fd = [o \in Object |-> -1] /\ _size = [o \in Object |-> 0]
  /\ buffer_name = [o \in Object |-> <<>>] /\ _buffer = [o \in Object |-> FALSE]
  /\ freed = {}
-------------------------------------------------------------------------------
Call == Head(calls)
At(op, s) == status = "running" /\ calls # <<>> /\ Call.op = op /\ step = s
Free == {d \in Fd : table[d] = "free"}
LowestIn(t, d) == t[d] = "free" /\ \A lower \in 0 .. d - 1 : t[lower] # "free"

\* The kernel ends the process.
Ends(how) ==
  /\ status' = how
  /\ table' = [d \in Fd |-> "free"] /\ maps' = [o \in Object |-> NoMap]
  /\ UNCHANGED <<calls, step, kernel, members>>

Building == \E op \in {"new", "connect"}, s \in {"call", "alloc", "getfd", "info", "map"} : At(op, s)

\* raise(SIGSEGV), after any call of a constructor that may fail.
Raises == Building /\ Ends("SIGSEGV")

\* open(DMA_HEAP_PATH + heap_name)
OpenHeap ==
  /\ At("new", "call")
  /\ \E d \in Fd : LowestIn(table, d) /\ table' = [table EXCEPT ![d] = "heap"]
  /\ step' = "alloc"
  /\ UNCHANGED <<calls, status, kernel, maps, members>>

\* Mutant: a name that is too long is not cut.
StoredWhole(name) == {name}

\* What is stored of the name: the kernel wants a terminator among the first NameLen
\* bytes, the array has NameLen - 1, and the byte behind it may be anything.
Stored(name) ==
  IF Len(name) < NameLen - 1 THEN {name}
  ELSE {SubSeq(name, 1, NameLen - 1), <<>>}

PageAligned(size) == ((size + PAGE_SIZE - 1) \div PAGE_SIZE) * PAGE_SIZE

\* The object of the call gets descriptor d, for a dma_buf k.
Gets(d, k) ==
  /\ dma_buf_fd' = [dma_buf_fd EXCEPT ![Call.o] = d]
  /\ kernel' = [kernel EXCEPT ![Call.o] = k]
  /\ step' = "info"
  /\ UNCHANGED <<calls, status, maps, _size, buffer_name, _buffer, freed>>

Without(t, kind) == [d \in Fd |-> IF t[d] = kind THEN "free" ELSE t[d]]
Opened(t, d) == [t EXCEPT ![d] = Call.o]

Allocating == At("new", "alloc") /\ Call.size > 0

\* Mutant: the heap is closed first.
AllocateClosesFirst ==
  /\ Allocating
  /\ \E d \in Fd :
       /\ LowestIn(Without(table, "heap"), d)
       /\ table' = Opened(Without(table, "heap"), d)
       /\ Gets(d, [size |-> PageAligned(Call.size), name |-> Call.name])

\* DMA_HEAP_IOCTL_ALLOC, close(heap_fd), DMA_BUF_SET_NAME.  The heap refuses length 0.
Allocate ==
  /\ Allocating
  /\ \E d \in Fd, name \in Stored(Call.name) :
       /\ LowestIn(table, d)
       /\ table' = Without(Opened(table, d), "heap")
       /\ Gets(d, [size |-> PageAligned(Call.size), name |-> name])

PidfdOpen ==
  /\ At("connect", "call")
  /\ \E d \in Fd : LowestIn(table, d) /\ table' = [table EXCEPT ![d] = "pidfd"]
  /\ step' = "getfd"
  /\ UNCHANGED <<calls, status, kernel, maps, members>>

Getting == At("connect", "getfd") /\ Call.fd \in DOMAIN Remote

\* Mutant: the number it was asked for is closed, and not the pidfd.
GetFdClosesNumber ==
  /\ Getting
  /\ \E d \in Fd :
       /\ LowestIn(table, d)
       /\ table' = [Opened(table, d) EXCEPT ![Call.fd] = "free"]
       /\ Gets(d, Remote[Call.fd])

\* pidfd_getfd, close(pid_fd)
GetFd ==
  /\ Getting
  /\ \E d \in Fd :
       /\ LowestIn(table, d)
       /\ table' = Without(Opened(table, d), "pidfd")
       /\ Gets(d, Remote[Call.fd])

\* dps_common::trim
Blank == {" ", "\n"}
trim(s) ==
  LET ink == {i \in DOMAIN s : s[i] \notin Blank}
  IN  IF ink = {} THEN <<>> ELSE SubSeq(s, Min(ink), Max(ink))

Places(s, c) == {i \in DOMAIN s : s[i] = c}

\* What is before and what is after the first c; without one, all of s (npos, and npos + 1).
UpTo(s, c) == IF Places(s, c) = {} THEN s ELSE SubSeq(s, 1, Min(Places(s, c)) - 1)
After(s, c) == IF Places(s, c) = {} THEN s ELSE SubSeq(s, Min(Places(s, c)) + 1, Len(s))

\* fdinfo ends with the line "name:".  The kernel does not escape the name: what follows a
\* newline of it is read as lines of fdinfo, of which those that set a field are Fields.
FirstLine(s) == UpTo(s, "\n")
LineFrom(name, i) == FirstLine(SubSeq(name, i, Len(name)))
ValueFrom(name, i) == trim(After(LineFrom(name, i), ":"))
FurtherLines(name) == {i + 1 : i \in Places(name, "\n")}
Fields(name, field) ==
  {i \in FurtherLines(name) : IsPrefix(field, trim(UpTo(LineFrom(name, i), ":")))}
SIZE == <<"s", "i", "z", "e">>
NAME == <<"n", "a", "m", "e">>

\* The last line of a field counts.
ReadSize(k) ==
  IF Fields(k.name, SIZE) = {} THEN k.size
  ELSE Numeral[ValueFrom(k.name, Max(Fields(k.name, SIZE)))]
ReadName(name) ==
  IF Fields(name, NAME) = {} THEN trim(FirstLine(name))
  ELSE ValueFrom(name, Max(Fields(name, NAME)))

\* The ifstream needs a descriptor of its own.
Informed == (At("new", "info") \/ At("connect", "info")) /\ Free # {}
Readable(name) == \A i \in Fields(name, SIZE) : ValueFrom(name, i) \in DOMAIN Numeral

\* What is no dma_buf has no size.
update_buffer_info ==
  /\ Informed /\ Readable(kernel[Call.o].name) /\ ReadSize(kernel[Call.o]) # 0
  /\ _size' = [_size EXCEPT ![Call.o] = ReadSize(kernel[Call.o])]
  /\ buffer_name' = [buffer_name EXCEPT ![Call.o] = ReadName(kernel[Call.o].name)]
  /\ step' = "map"
  /\ UNCHANGED <<calls, status, table, kernel, maps, dma_buf_fd, _buffer, freed>>

\* std::stoul throws, and nothing catches it.
update_buffer_info_Throws == Informed /\ ~Readable(kernel[Call.o].name) /\ Ends("SIGABRT")

\* mmap(NULL, _size, prot, MAP_SHARED, dma_buf_fd, 0): whole pages, none of them behind
\* the end of the buffer.
Mapped(write) ==
  /\ At("new", "map") \/ At("connect", "map")
  /\ PageAligned(_size[Call.o]) <= kernel[Call.o].size
  /\ maps' = [maps EXCEPT ![Call.o] = [len |-> PageAligned(_size[Call.o]), write |-> write]]
  /\ _buffer' = [_buffer EXCEPT ![Call.o] = TRUE]
  /\ calls' = Tail(calls) /\ step' = "call"
  /\ UNCHANGED <<status, table, kernel, dma_buf_fd, _size, buffer_name, freed>>

\* readonly is FALSE for what is allocated, TRUE for what is connected to.
map == Mapped(Call.op = "new")

\* A main reads or writes the first n bytes; 0 stands for all of size().
Touch ==
  /\ At("touch", "call")
  /\ LET m == maps[Call.o]
     IN  IF Call.n <= m.len /\ (Call.write => m.write) /\ m.len > 0
         THEN calls' = Tail(calls) /\ UNCHANGED <<step, status, table, kernel, maps, members>>
         ELSE Ends("fault")

\* ~DMABuffer.  The second run of it on one object, explicitly called and then at the end
\* of the scope, finds dma_buf_fd = -1 and returns; the members are destroyed again.
Destroyed ==
  /\ freed' = freed \union {Call.o}
  /\ calls' = Tail(calls)
  /\ UNCHANGED <<step, status, kernel, buffer_name>>

ClosesAndResets ==
  /\ At("delete", "call") /\ dma_buf_fd[Call.o] > 0
  /\ table' = [table EXCEPT ![dma_buf_fd[Call.o]] = "free"]
  /\ dma_buf_fd' = [dma_buf_fd EXCEPT ![Call.o] = -1]
  /\ _buffer' = [_buffer EXCEPT ![Call.o] = FALSE]
  /\ _size' = [_size EXCEPT ![Call.o] = 0]
  /\ Destroyed

\* Mutant: the size is reset before munmap uses it.
DestroyResetsSize == ClosesAndResets /\ UNCHANGED maps

Destroy == ClosesAndResets /\ maps' = [maps EXCEPT ![Call.o] = NoMap]

\* The capacity of buffer_name survives the assignment of "": its memory is given back twice.
DestroyAgain ==
  /\ At("delete", "call") /\ dma_buf_fd[Call.o] <= 0
  /\ IF Call.o \in freed /\ Len(buffer_name[Call.o]) > LocalCapacity
     THEN Ends("SIGABRT")
     ELSE /\ Destroyed
          /\ UNCHANGED <<table, maps, dma_buf_fd, _size, _buffer>>

Returns == status = "running" /\ calls = <<>> /\ Ends("returned")

Next ==
  \/ OpenHeap \/ Allocate \/ PidfdOpen \/ GetFd
  \/ update_buffer_info \/ update_buffer_info_Throws \/ map \/ Raises
  \/ Touch \/ Destroy \/ DestroyAgain \/ Returns

Spec == Init /\ [][Next]_vars
-------------------------------------------------------------------------------
\* An object that is built holds the descriptor of its own dma_buf, whatever other objects
\* did to the table; as many of its pages are mapped as size() bytes take, all of them
\* unless the name has a line of its own for the size (dma_buffer.cpp:30, 70, 110, 136-139).
MembersDescribeBuffer ==
  status = "running" => \A o \in Object : _buffer[o] =>
    /\ table[dma_buf_fd[o]] = o
    /\ maps[o].len = PageAligned(_size[o]) /\ maps[o].len <= kernel[o].size
    /\ Fields(kernel[o].name, SIZE) = {} => _size[o] = kernel[o].size

\* Between two calls, no descriptor and no mapping is open that an object does not
\* record; what was only needed on the way has been closed (dma_buffer.cpp:18-44, 70, 110).
NothingLost ==
  step = "call" =>
    /\ \A d \in Fd : table[d] \in {"free", "std"} \/ \E o \in Object : dma_buf_fd[o] = d
    /\ \A o \in Object : maps[o] # NoMap => _buffer[o]

\* In one thread no dma_buf ever gets descriptor 0, which the destructor takes for none,
\* not even without standard streams (dma_buffer.cpp:20).
NeverZero == \A o \in Object : dma_buf_fd[o] # 0

\* A name that fits and has no blanks at its ends is found again in fdinfo, and no name
\* is longer than the kernel's limit (dma_buffer.cpp:75-83, 131-150).
NameKept ==
  At("new", "map") =>
    LET name == Call.name  kept == buffer_name[Call.o]
    IN  /\ Len(kept) < NameLen
        /\ Len(name) < NameLen - 1 /\ trim(name) = name /\ ~Contains(name, "\n") => kept = name
-------------------------------------------------------------------------------
\* Why these hold: the inductive invariant.
TypeOK ==
  /\ calls \in Seq(ACall) /\ BuiltOnce(calls)
  /\ step \in {"call", "alloc", "getfd", "info", "map"}
  /\ status \in {"running", "returned", "SIGSEGV", "SIGABRT", "fault"}
  /\ table \in [Fd -> Kind \union Object]
  /\ kernel \in [Object -> [size : Nat, name : Text]]
  /\ maps \in [Object -> [len : Nat, write : BOOLEAN]]
  /\ dma_buf_fd \in [Object -> {-1} \union (1 .. MaxFd)]
  /\ _size \in [Object -> Nat] /\ _buffer \in [Object -> BOOLEAN]
  /\ buffer_name \in [Object -> Text] /\ freed \subseteq Object

\* A constructor is in the call its step belongs to.
InStep ==
  step # "call" =>
    /\ calls # <<>> /\ Builds(Call)
    /\ step = "alloc" => Call.op = "new"
    /\ step = "getfd" => Call.op = "connect"
    /\ step \in {"info", "map"} => dma_buf_fd[Call.o] # -1
    /\ step = "map" => _size[Call.o] = ReadSize(kernel[Call.o])

\* A variable that is still to be constructed has no buffer, and none is mapped yet.
Ahead ==
  \A k \in 1 .. Len(calls) :
    Builds(calls[k]) =>
      /\ ~_buffer[calls[k].o]
      /\ k > 1 \/ step \in {"call", "alloc", "getfd"} => dma_buf_fd[calls[k].o] = -1

\* An open descriptor is a stream's, one that is about to be closed, or what an object
\* records; the first one opened on the way keeps 0 from the dma_buf.
TableInv ==
  /\ status = "running" =>
       /\ \A d \in Fd, o \in Object : table[d] = o <=> dma_buf_fd[o] = d
       /\ step \in {"alloc", "getfd"} => table[0] # "free"
  /\ \A d \in Fd :
       /\ table[d] = "heap" => step = "alloc"
       /\ table[d] = "pidfd" => step = "getfd"
       /\ table[d] \in Object => dma_buf_fd[table[d]] = d

\* What an object has built is mapped, and nothing else.
BuiltInv ==
  \A o \in Object :
    /\ maps[o] # NoMap => _buffer[o]
    /\ _buffer[o] /\ status = "running" =>
         /\ dma_buf_fd[o] # -1 /\ _size[o] = ReadSize(kernel[o])
         /\ maps[o].len = PageAligned(_size[o]) /\ maps[o].len <= kernel[o].size

\* The name on its way from the caller through the kernel and fdinfo.
NameInv ==
  step \in {"info", "map"} /\ Call.op = "new" =>
    /\ kernel[Call.o].name \in Stored(Call.name)
    /\ step = "map" => buffer_name[Call.o] = ReadName(kernel[Call.o].name)

BufferInv == TypeOK /\ InStep /\ Ahead /\ TableInv /\ BuiltInv /\ NameInv
===============================================================================
