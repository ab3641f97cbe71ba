------------------------------ MODULE EventLog ------------------------------
(***************************************************************************)
(* What the trace log promises, without rings, slots or snapshots.         *)
(*                                                                         *)
(* Target threads produce numbered events.  The tracer passes over the     *)
(* numbers in order and without gaps: it either delivers the next event or *)
(* reports a run of numbers as lost, and it may call an event lost only    *)
(* when Capacity newer events have already been produced.                  *)
(***************************************************************************)
EXTENDS Integers

CONSTANT Capacity

VARIABLES produced,   \* how many events the target has reserved so far
          consumed,   \* the last sequence number the tracer has passed
          delivered,  \* sequence numbers written to the log as events
          lost        \* sequence numbers covered by a loss marker

logVars == <<produced, consumed, delivered, lost>>

LogInit ==
    /\ produced = 0
    /\ consumed = 0
    /\ delivered = {}
    /\ lost = {}

Produce ==
    /\ produced' = produced + 1
    /\ UNCHANGED <<consumed, delivered, lost>>

Deliver ==
    /\ consumed < produced
    /\ consumed' = consumed + 1
    /\ delivered' = delivered \cup {consumed + 1}
    /\ UNCHANGED <<produced, lost>>

Lose(upTo) ==
    /\ consumed < upTo
    /\ upTo + Capacity <= produced
    /\ consumed' = upTo
    /\ lost' = lost \cup (consumed + 1 .. upTo)
    /\ UNCHANGED <<produced, delivered>>

LogNext ==
    \/ Produce
    \/ Deliver
    \/ \E upTo \in 1 .. produced : Lose(upTo)

LogSpec == LogInit /\ [][LogNext]_logVars
=============================================================================
