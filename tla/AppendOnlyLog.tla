---------------------------- MODULE AppendOnlyLog -----------------------------
(***************************************************************************)
(* What the log directory promises to those who rely on it: a log with one *)
(* name that only ever grows at the end, appends that are reported with    *)
(* the index their bytes really have, and signed notes that commit to      *)
(* prefixes of that one log.  LogStore implements this specification when  *)
(* one command runs at a time, whatever crashes and whatever leaf files    *)
(* are damaged.                                                            *)
(***************************************************************************)
EXTENDS Naturals, Sequences

CONSTANTS Names,    \* the possible names (origins) of the log
          Entries,  \* the possible entries
          NoName    \* the name of a log that does not exist yet

VARIABLES name,     \* the name of the log, or NoName
          log,      \* the entries, in order
          acked,    \* reported appends: [index, data] records, counted from 0
          signed    \* signed notes: [origin, pin] records

vars == <<name, log, acked, signed>>

Note(n) == [origin |-> name,
            pin |-> [tree_size |-> n, root_hash |-> SubSeq(log, 1, n)]]

Init == name = NoName /\ log = << >> /\ acked = {} /\ signed = {}

\* The log gets its name, once.
Create(o) ==
  /\ name = NoName
  /\ name' = o
  /\ UNCHANGED <<log, acked, signed>>

\* One more entry, at the end.
Extend(x) ==
  /\ name # NoName
  /\ log' = Append(log, x)
  /\ UNCHANGED <<name, acked, signed>>

\* An append is reported: its entry is in the log, at that index.
Acknowledge(i) ==
  /\ acked' = acked \cup {[index |-> i - 1, data |-> log[i]]}
  /\ UNCHANGED <<name, log, signed>>

\* Notes are signed over the log as it is, and over one of its prefixes.
Sign(n) ==
  /\ name # NoName
  /\ signed' = signed \cup {Note(n), Note(Len(log))}
  /\ UNCHANGED <<name, log, acked>>

Next ==
  \/ \E o \in Names : Create(o)
  \/ \E x \in Entries : Extend(x)
  \/ \E i \in 1..Len(log) : Acknowledge(i)
  \/ \E n \in 0..Len(log) : Sign(n)

Spec == Init /\ [][Next]_vars

===============================================================================
