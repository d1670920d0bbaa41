----------------------------- MODULE InfoFileName -----------------------------
(***************************************************************************)
(* The names in a topic's directory.  A publisher makes an info file named *)
(* "\<pid>\<fd>", and a nested topic is a directory with the name of its   *)
(* component.  apps/inotify_topic.cpp hands every name it finds to         *)
(* open_dma_buffer(), which splits it and converts two of the parts.       *)
(***************************************************************************)
EXTENDS TopicName, FiniteSetsExt

CONSTANTS Digit,    \* decimal digits, which are letters to TopicName
          Numbers   \* what to_string makes of the pids and the descriptors

ASSUME DigitAssumption == Digit \subseteq Letter
ASSUME NumbersAssumption == Numbers \subseteq Seq(Digit) \ {<<>>}

\* Where split cuts: at every separator; the first part starts at the beginning and the last one
\* goes to the end, so that a part may be empty.
Cuts(s, seperator) == {0, Len(s) + 1} \union {k \in 1 .. Len(s) : s[k] = seperator}

\* The part between the cuts a and b, when they follow each other.
Follows(s, seperator, a, b) == a < b /\ \A c \in Cuts(s, seperator) : c <= a \/ b <= c
Part(s, a, b) == SubSeq(s, a + 1, b - 1)

split(s, seperator) ==
  {Part(s, c[1], c[2]) : c \in {d \in Cuts(s, seperator) \X Cuts(s, seperator) :
                                  Follows(s, seperator, d[1], d[2])}}

\* stoi takes the digits a string begins with; when there are none it throws.
Digits(part) == {k \in 1 .. Len(part) : \A j \in 1 .. k : part[j] \in Digit}
Converts(part) == Digits(part) # {}
stoi(part) == SubSeq(part, 1, Max(Digits(part)))

\* Mutant: the parts are counted from 0, the empty one before the first separator.
open_first_parts(file_info) ==
  LET cuts == Cuts(file_info, Service)
      places == {c \in cuts \X cuts : /\ Follows(file_info, Service, 0, c[1])
                                      /\ Follows(file_info, Service, c[1], c[2])
                                      /\ Converts(Part(file_info, 0, c[1]))
                                      /\ Converts(Part(file_info, c[1], c[2]))}
  IN  {<<stoi(Part(file_info, 0, c[1])), stoi(Part(file_info, c[1], c[2]))>> : c \in places}

\* The pid and the descriptor that are connected to, from the second and the third part, or
\* nothing: the process does not survive an index past the parts, nor an exception that nobody
\* catches.
open_dma_buffer(file_info) ==
  LET cuts == Cuts(file_info, Service)
      places == {c \in cuts \X cuts \X cuts : /\ Follows(file_info, Service, 0, c[1])
                                              /\ Follows(file_info, Service, c[1], c[2])
                                              /\ Follows(file_info, Service, c[2], c[3])
                                              /\ Converts(Part(file_info, c[1], c[2]))
                                              /\ Converts(Part(file_info, c[2], c[3]))}
  IN  {<<stoi(Part(file_info, c[1], c[2])), stoi(Part(file_info, c[2], c[3]))>> : c \in places}

\* The name of a publisher's info file.
InfoFile(pid, fd) == <<Service>> \o pid \o <<Service>> \o fd

(* A subscriber connects to exactly what publishers have registered: it reads *)
(* the pid and the descriptor an info file was named after, and no directory *)
(* of a nested topic, whatever the topic is called, is taken for an info     *)
(* file (it ends the subscriber), since simplify_topic_name leaves no        *)
(* service character in a topic (inotify_topic.cpp:35-60, common.h:67-70,    *)
(* publisher_base.cpp:103).                                                  *)
OnlyInfoFilesConnect ==
  pc = "done" =>
    /\ \A component \in split(topic_name_new, Slash) : open_dma_buffer(component) = {}
    /\ \A pid, fd \in Numbers : open_dma_buffer(InfoFile(pid, fd)) = {<<pid, fd>>}
===============================================================================
