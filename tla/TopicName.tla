------------------------------ MODULE TopicName ------------------------------
(***************************************************************************)
(* dps_common::simplify_topic_name: the loop that turns the topic a user    *)
(* spells into the path of its directory under DPS_BASE_PATH.  Info files   *)
(* of publishers are named "\<pid>\<fd>" in that directory, so a topic must *)
(* contain no service character; two spellings of a topic must meet in one  *)
(* directory.                                                               *)
(*                                                                          *)
(* A character is a letter (anything but '/' and '\'), Slash or Service.    *)
(***************************************************************************)
EXTENDS Naturals, Sequences, FiniteSets

CONSTANTS Letter,   \* the characters that are copied
          Slash,    \* '/'
          Service,  \* DPS_TOPIC_SERVICE_CHARACER
          Names     \* the spellings a user may pass

Char == Letter \union {Slash, Service}

ASSUME CharAssumption == Slash \notin Letter /\ Service \notin Letter /\ Slash # Service
ASSUME NamesAssumption == Names \subseteq Seq(Char)

VARIABLES topic_name,       \* the parameter
          index,            \* 1-based position of the loop
          topic_name_new,   \* the name built so far, then the value returned
          once_slash,       \* the last character looked at, services aside, was '/'
          outOfBounds,      \* topic_name_new[length - 1] was read with length = 0
          pc

vars == <<topic_name, index, topic_name_new, once_slash, outOfBounds, pc>>

TypeOK ==
  /\ topic_name \in Seq(Char)
  /\ index \in 1 .. Len(topic_name) + 1
  /\ topic_name_new \in Seq(Char)
  /\ once_slash \in BOOLEAN
  /\ outOfBounds \in BOOLEAN
  /\ pc \in {"loop", "done"}

Init ==
  /\ topic_name \in Names
  /\ index = 1
  /\ topic_name_new = <<>>
  /\ once_slash = FALSE
  /\ outOfBounds = FALSE
  /\ pc = "loop"
-----------------------------------------------------------------------------
Looking == pc = "loop" /\ index <= Len(topic_name)

SkipService ==
  /\ Looking
  /\ topic_name[index] = Service
  /\ index' = index + 1
  /\ UNCHANGED <<topic_name, topic_name_new, once_slash, outOfBounds, pc>>

\* Mutant: the length is not tested.
TakeSlashAtStart ==
  /\ Looking
  /\ topic_name[index] = Slash
  /\ topic_name_new' = IF ~once_slash THEN Append(topic_name_new, Slash)
                                      ELSE topic_name_new
  /\ once_slash' = TRUE
  /\ index' = index + 1
  /\ UNCHANGED <<topic_name, outOfBounds, pc>>

TakeSlash ==
  /\ Looking
  /\ topic_name[index] = Slash
  /\ topic_name_new' = IF ~once_slash /\ Len(topic_name_new) > 0
                       THEN Append(topic_name_new, Slash)
                       ELSE topic_name_new
  /\ once_slash' = TRUE
  /\ index' = index + 1
  /\ UNCHANGED <<topic_name, outOfBounds, pc>>

\* Mutant: the flag is never reset.
TakeLetterKeepFlag ==
  /\ Looking
  /\ topic_name[index] \in Letter
  /\ topic_name_new' = Append(topic_name_new, topic_name[index])
  /\ index' = index + 1
  /\ UNCHANGED <<topic_name, once_slash, outOfBounds, pc>>

TakeLetter ==
  /\ Looking
  /\ topic_name[index] \in Letter
  /\ topic_name_new' = Append(topic_name_new, topic_name[index])
  /\ once_slash' = FALSE
  /\ index' = index + 1
  /\ UNCHANGED <<topic_name, outOfBounds, pc>>

\* Mutant: the trailing slash stays.
Untrimmed(name) == name

\* The name without its trailing slash.
Trimmed(name) ==
  IF name # <<>> /\ name[Len(name)] = Slash
  THEN SubSeq(name, 1, Len(name) - 1)
  ELSE name

\* With an empty name the test reads the byte before the characters: libstdc++
\* keeps the top byte of the string's length there, which is 0, so nothing is
\* popped; only a build with _GLIBCXX_ASSERTIONS stops.
Return ==
  /\ pc = "loop"
  /\ index > Len(topic_name)
  /\ topic_name_new' = Trimmed(topic_name_new)
  /\ outOfBounds' = (topic_name_new = <<>>)
  /\ pc' = "done"
  /\ UNCHANGED <<topic_name, index, once_slash>>

Next == SkipService \/ TakeSlash \/ TakeLetter \/ Return

Spec == Init /\ [][Next]_vars /\ WF_vars(Next)
-----------------------------------------------------------------------------
(* No service character, no leading slash and no two slashes in a row.      *)
Simple(name) ==
  \A i \in 1 .. Len(name) :
    /\ name[i] # Service
    /\ name[i] = Slash => i > 1 /\ name[i - 1] # Slash

EndsInSlash(name) == name # <<>> /\ name[Len(name)] = Slash

(* While the loop runs the name built so far is simple, and once_slash       *)
(* (common.h:72-81) says exactly whether a non-empty one ends in a slash.    *)
BuiltSimple ==
  /\ Simple(topic_name_new)
  /\ pc = "loop" /\ topic_name_new # <<>>
       => (once_slash <=> EndsInSlash(topic_name_new))

(* A topic can be used as a directory next to the "\<pid>\<fd>" info files: *)
(* no component of it is empty or starts with the service character         *)
(* (common.h:84-88).                                                        *)
ReturnsSimple ==
  pc = "done" => Simple(topic_name_new) /\ ~EndsInSlash(topic_name_new)
-----------------------------------------------------------------------------
(* Which characters of a spelling survive, said without a loop.              *)

\* Services aside, the character before position i is a letter.
AfterLetter(spelling, i) ==
  \E h \in 1 .. i - 1 :
    spelling[h] \in Letter /\ \A k \in h + 1 .. i - 1 : spelling[k] = Service

\* A letter always stays, a slash only between a letter and some later letter.
Kept(spelling) ==
  {i \in 1 .. Len(spelling) :
     \/ spelling[i] \in Letter
     \/ /\ spelling[i] = Slash
        /\ AfterLetter(spelling, i)
        /\ \E j \in i + 1 .. Len(spelling) : spelling[j] \in Letter}

\* The name is the kept characters, in their order.
IsCanonical(name, spelling) ==
  /\ Len(name) = Cardinality(Kept(spelling))
  /\ \A i \in Kept(spelling) :
       name[Cardinality(Kept(spelling) \intersect 1 .. i)] = spelling[i]

(* Every spelling of a topic reaches one directory: what the loop of         *)
(* common.h:64-88 returns is the canonical name, which depends on nothing    *)
(* but the components.                                                       *)
ReturnsCanonical == pc = "done" => IsCanonical(topic_name_new, topic_name)

(* The read before the first character (common.h:84) happens for exactly the *)
(* spellings without a letter, whose topic is DPS_BASE_PATH itself.          *)
OutOfBoundsOnlyWithoutLetter ==
  pc = "done" => (outOfBounds <=> \A i \in DOMAIN topic_name : topic_name[i] \notin Letter)

\* The positions before i that the loop copies: a slash may still turn out to be the last.
Copied(spelling, i) ==
  {k \in 1 .. i - 1 : \/ spelling[k] \in Letter
                      \/ spelling[k] = Slash /\ AfterLetter(spelling, k)}

(* What is built so far is what the loop has copied, in order; a letter      *)
(* precedes, services aside, exactly when the next slash would be copied     *)
(* (common.h:64-82).                                                         *)
CopyInv ==
  pc = "loop" =>
    /\ Len(topic_name_new) = Cardinality(Copied(topic_name, index))
    /\ \A k \in Copied(topic_name, index) :
         topic_name_new[Cardinality(Copied(topic_name, k + 1))] = topic_name[k]
    /\ topic_name_new # <<>> =>
         \E m \in Copied(topic_name, index) : Copied(topic_name, m + 1) = Copied(topic_name, index)
    /\ AfterLetter(topic_name, index) <=> ~once_slash /\ topic_name_new # <<>>
=============================================================================
