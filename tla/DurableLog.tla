----------------------------- MODULE DurableLog -----------------------------
(***************************************************************************)
(* What a room's write-behind promises its callers: accepted entries form  *)
(* a log, storage holds a prefix of it that only grows, an entry is        *)
(* acknowledged only once it is in that prefix, and the tail may be lost   *)
(* only as a whole (a crash, or another owner's fence).                    *)
(***************************************************************************)
EXTENDS Naturals, Sequences

CONSTANT Entries   \* what may be accepted

VARIABLES
  log,      \* every accepted entry that was not lost, in order of acceptance
  durable,  \* how many of them storage holds
  acked     \* the longest prefix a caller was told is durable

logVars == <<log, durable, acked>>

LogInit == log = <<>> /\ durable = 0 /\ acked = 0

\* An entry is accepted once.
AcceptEntry ==
  /\ \E e \in Entries :
       /\ \A i \in 1 .. Len(log) : log[i] # e
       /\ log' = Append(log, e)
  /\ UNCHANGED <<durable, acked>>

MakeDurable ==
  /\ durable' \in durable + 1 .. Len(log)
  /\ UNCHANGED <<log, acked>>

Acknowledge ==
  /\ acked' \in acked + 1 .. durable
  /\ UNCHANGED <<log, durable>>

LoseTail ==
  /\ durable < Len(log)
  /\ log' = SubSeq(log, 1, durable)
  /\ UNCHANGED <<durable, acked>>

LogNext == AcceptEntry \/ MakeDurable \/ Acknowledge \/ LoseTail

LogSpec == LogInit /\ [][LogNext]_logVars

=============================================================================
