----------------------------- MODULE MCDMABuffer -----------------------------
EXTENDS DMABuffer

Word(n) == [i \in 1 .. n |-> "x"]

\* A name of two lines.
Line2(field, value) == <<"x", "\n">> \o field \o <<":">> \o value

\* Names of every length that matters, with blanks, and with a newline: after it nothing,
\* a size above, within or below the buffer's, one that is no number, or another name.
Texts == {<<>>, Word(1), Word(16), Word(30), Word(31), Word(33),
          <<" ">> \o Word(2) \o <<" ">>, Word(2) \o <<"\n">> \o Word(2), <<"\n">>,
          Line2(SIZE, <<"8", "1", "9", "2">>), Line2(SIZE, <<" ", "1">>), Line2(SIZE, <<"0">>),
          <<"x", "\n">> \o SIZE, Line2(NAME, <<"y">>)}
MCNumeral == (<<"8", "1", "9", "2">> :> 8192) @@ (<<"1">> :> 1) @@ (<<"0">> :> 0)

New(o, size, name) == [op |-> "new", o |-> o, size |-> size, name |-> name]
Connect(o, fd) == [op |-> "connect", o |-> o, fd |-> fd]
Use(o, n, write) == [op |-> "touch", o |-> o, n |-> n, write |-> write]
Delete(o) == [op |-> "delete", o |-> o]

\* create_dma_buffer.cpp: the destructor is called, and runs again at the end of main.
CreateDMABuffer ==
  <<New("dma", 63, Word(18)), Use("dma", 100, TRUE), Use("dma", 100, FALSE), Delete("dma"), Delete("dma")>>

\* open_dma_buffer.cpp, with the descriptor that is typed in.
OpenDMABuffer(fd) == <<Connect("dma", fd), Use("dma", 0, FALSE), Delete("dma")>>

\* epoll_dma_buffer.cpp, up to its endless loop.
EpollDMABuffer(fd1, fd2) == <<Connect("dma", fd1), Connect("dma2", fd2)>>

\* publisher_base.cpp with one message buffer: the info buffer is the last one.
Publisher(size, name) ==
  <<New("dma", size, name), New("dma2", 64, <<"i">> \o name), Use("dma2", 64, TRUE), Delete("dma2"), Delete("dma")>>

MCPrograms ==
  {CreateDMABuffer}
  \union {OpenDMABuffer(fd) : fd \in 0 .. 5}
  \union {EpollDMABuffer(fd1, fd2) : fd1 \in 3 .. 5, fd2 \in 3 .. 5}
  \union {Publisher(size, name) : size \in {0, 1, 4096, 4097, 1920 * 1080}, name \in Texts}

\* 4 has a name that makes less of it, 5 is no dma_buf.
MCRemote ==
  [fd \in 3 .. 5 |->
    [size |-> IF fd = 5 THEN 0 ELSE 4096 * fd,
     name |-> <<Word(3), Line2(SIZE, <<"8", "1", "9", "2">>), <<>>>>[fd - 2]]]
=============================================================================
