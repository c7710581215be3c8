---------------------------- MODULE OrderStream ----------------------------
(***************************************************************************)
(* The Redis stream "stream.orders" and its consumer group "g1", as the    *)
(* code uses them.  Every application instance reads under the one         *)
(* consumer name "c1", so the pending-entries list (PEL) has one owner and *)
(* is a set of stream positions.  The stream itself is never trimmed: an   *)
(* entry is its position, "the next undelivered one" is a counter.         *)
(***************************************************************************)
EXTENDS Naturals, Sequences

VARIABLES
    stream,         \* the entries XADDed so far, oldest first
    groupExists,    \* has an operator created the group?
    lastDelivered,  \* the group's last-delivered position
    pel             \* positions delivered to c1 and not yet acknowledged

streamVars == <<stream, groupExists, lastDelivered, pel>>
groupVars == <<groupExists, lastDelivered, pel>>

Positions == 1..Len(stream)

Acked == {i \in Positions : i <= lastDelivered /\ i \notin pel}

StreamInit ==
    /\ stream = <<>>
    /\ groupExists = FALSE
    /\ lastDelivered = 0
    /\ pel = {}

XAdd(entry) ==
    /\ stream' = Append(stream, entry)
    /\ UNCHANGED groupVars

\* XGROUP CREATE stream.orders g1 0 MKSTREAM: delivery starts at the oldest.
XGroupCreate ==
    /\ ~groupExists
    /\ groupExists' = TRUE
    /\ UNCHANGED <<stream, lastDelivered, pel>>

\* XREADGROUP ... STREAMS stream.orders >
XReadGroupNew ==
    /\ groupExists
    /\ lastDelivered < Len(stream)
    /\ lastDelivered' = lastDelivered + 1
    /\ pel' = pel \cup {lastDelivered + 1}
    /\ UNCHANGED <<stream, groupExists>>

\* The entry XREADGROUP ... COUNT 1 STREAMS stream.orders 0 answers with.
IsOldestPending(i) == i \in pel /\ \A j \in pel : i <= j

XAck(i) ==
    /\ pel' = pel \ {i}
    /\ UNCHANGED <<stream, groupExists, lastDelivered>>
=============================================================================
