------------------------------- MODULE Discovery -------------------------------
(***************************************************************************)
(* What publishers and subscribers of a topic promise each other, without   *)
(* files, events and descriptors.  A publisher can be found only between    *)
(* the end of its construction and the beginning of its destruction, and    *)
(* when it withdraws everybody is warned.  A subscriber shows a publisher   *)
(* that can be found, unless it is warned already; it gives up what it      *)
(* shows only when it was warned, and knows of no warning only when it      *)
(* shows nothing and begins to watch.  Publishers may be killed, and what   *)
(* they left may be found for the process of their pid; it may be swept     *)
(* away, and the subscriber be misled by what was announced before.  One    *)
(* that is misled while it looks, or refused, does not survive that; it     *)
(* survives a publisher it can find.                                        *)
(* InotifyTopic is shown to implement this specification.                   *)
(***************************************************************************)
CONSTANTS Pub, Sub,
          Host,       \* the process, by its pid, of each publisher
          Slot,       \* the buffers of a publisher,
          InfoSlot,   \* and the one that makes the others known
          Refusable,  \* the subscribers a process may refuse its buffers,
          Nothing     \* what a subscriber shows when it shows no buffer

VARIABLES life,       \* of each publisher: new, ready, leaving, gone or killed
          listed,     \* the publishers that can be found
          shown,      \* the buffer each subscriber shows: its publisher and slot
          warned,     \* the subscribers that will start over, or may miss something
          refused,    \* the subscribers that are just being refused
          swept       \* somebody removes what he finds

discovery == <<life, listed, shown, warned, refused, swept>>

Init ==
  /\ life = [p \in Pub |-> "new"] /\ listed = {}
  /\ shown = [s \in Sub |-> Nothing] /\ warned = Sub
  /\ refused = {} /\ swept = FALSE

\* The directory may refuse to list a publisher, or list one already (a name of a killed one).
Ready(p) ==
  /\ life[p] = "new" /\ life' = [life EXCEPT ![p] = "ready"]
  /\ listed' \in {listed, listed \union {p}}
  /\ UNCHANGED <<shown, warned, refused, swept>>

\* Who can be found withdraws before anything of it is given up, and everybody is warned.
Leave(p) ==
  /\ life[p] = "ready" /\ life' = [life EXCEPT ![p] = "leaving"]
  /\ listed' = listed \ {p}
  /\ warned' = IF p \in listed THEN Sub ELSE warned
  /\ UNCHANGED <<shown, refused, swept>>

Gone(p) ==
  /\ life[p] = "leaving" /\ life' = [life EXCEPT ![p] = "gone"]
  /\ UNCHANGED <<listed, shown, warned, refused, swept>>

\* A process ends: nobody is warned.
Kill(killed) ==
  /\ \A p \in killed, q \in killed : Host[p] = Host[q] /\ life[p] \in {"new", "ready", "leaving"}
  /\ life' = [p \in Pub |-> IF p \in killed THEN "killed" ELSE life[p]]
  /\ listed' = listed \ killed
  /\ UNCHANGED <<shown, warned, refused, swept>>

Sweep ==
  /\ swept' = TRUE
  /\ UNCHANGED <<life, listed, shown, warned, refused>>

Unlist(removed) ==
  /\ swept
  /\ listed' = listed \ removed /\ warned' = Sub
  /\ UNCHANGED <<life, shown, refused, swept>>

\* Something is not delivered to these subscribers.
Miss(subs) ==
  /\ warned' = warned \union subs
  /\ UNCHANGED <<life, listed, shown, refused, swept>>

InfoOf(pubs) == pubs \X {InfoSlot}

\* Who begins to watch will learn of everything, unless there is nothing to watch.
Watch(s) ==
  /\ shown[s] = Nothing
  /\ warned' \in {warned \ {s}, warned \union {s}}
  /\ UNCHANGED <<life, listed, shown, refused, swept>>

\* A process that got the pid of a killed one may be taken for it.
Misled(s, p) == s \in warned \/ swept \/ \E q \in Pub : life[q] = "killed" /\ Host[q] = Host[p]

Show(s) ==
  /\ shown[s] = Nothing
  /\ \E p \in Pub, i \in Slot :
       /\ <<p, i>> \in InfoOf(listed) \/ Misled(s, p)
       /\ shown' = [shown EXCEPT ![s] = <<p, i>>]
  /\ UNCHANGED <<life, listed, warned, refused, swept>>

StartOver(s) ==
  /\ s \in warned
  /\ shown' = [shown EXCEPT ![s] = Nothing]
  /\ UNCHANGED <<life, listed, warned, refused, swept>>

\* A process keeps what it has from a subscriber.
Refuse(s) ==
  /\ s \in Refusable
  /\ shown[s] = Nothing
  /\ refused' = refused \union {s}
  /\ UNCHANGED <<life, listed, shown, warned, swept>>

\* A subscriber looks for what is not there any more, or is not his.
Fails(s) == s \in warned \union refused \/ swept \/ \E p \in Pub : life[p] = "killed"

\* A subscriber does not survive what is no info buffer, but it survives a publisher.
Die(s) ==
  /\ IF shown[s] = Nothing THEN Fails(s) ELSE shown[s] \notin InfoOf(listed)
  /\ shown' = [shown EXCEPT ![s] = Nothing]
  /\ warned' = warned \union {s} /\ refused' = refused \ {s}
  /\ UNCHANGED <<life, listed, swept>>

Next ==
  \/ \E p \in Pub : Ready(p) \/ Leave(p) \/ Gone(p)
  \/ \E pubs \in SUBSET Pub : Kill(pubs) \/ Unlist(pubs)
  \/ \E subs \in SUBSET Sub : Miss(subs)
  \/ \E s \in Sub : Watch(s) \/ Show(s) \/ StartOver(s) \/ Refuse(s) \/ Die(s)
  \/ Sweep

Spec == Init /\ [][Next]_discovery

(* Whoever shows a buffer shows the info buffer of a publisher that can be   *)
(* found, or was warned, or something is there to mislead him.               *)
ShowsWhatIsListed ==
  \A s \in Sub, p \in Pub, i \in Slot :
    shown[s] = <<p, i>> => <<p, i>> \in InfoOf(listed) \/ Misled(s, p)
================================================================================
