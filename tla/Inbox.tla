------------------------------- MODULE Inbox --------------------------------
(***************************************************************************)
(* What the webhook endpoint promises its provider: an event is recorded   *)
(* at most once, however often it is delivered, and it is acknowledged     *)
(* only after it has been recorded.  An entry of the inbox is the place    *)
(* where the event was recorded.                                           *)
(***************************************************************************)
CONSTANT Events

VARIABLES
  entries,  \* [Events -> the places where the event was recorded]
  acked     \* events the provider may forget

inboxVars == <<entries, acked>>

Init == entries = [e \in Events |-> {}] /\ acked = {}

\* Where it is recorded is up to the implementation.
Record(e) ==
  /\ entries[e] = {}
  /\ \E p \in entries'[e] : entries' = [entries EXCEPT ![e] = {p}]
  /\ UNCHANGED acked

Acknowledge(e) ==
  /\ entries[e] # {}
  /\ acked' = acked \cup {e}
  /\ UNCHANGED entries

Next == \E e \in Events : Record(e) \/ Acknowledge(e)

Spec == Init /\ [][Next]_inboxVars
=============================================================================
