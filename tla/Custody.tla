------------------------------ MODULE Custody ------------------------------
(***************************************************************************)
(* What a mail drop promises, without runs, locks, file numbers or faults: *)
(* a message moves from the spool to the folder and from there out of the  *)
(* system, it is handed over only while the folder holds it, and nothing   *)
(* leaves the folder that was never handed over.                           *)
(***************************************************************************)
EXTENDS Naturals

CONSTANT Msgs  \* the messages that may arrive

VARIABLES
  place,  \* where each message is
  copies  \* how often each message was handed over

Init ==
  /\ place = [m \in Msgs |-> "nowhere"]
  /\ copies = [m \in Msgs |-> 0]

Arrive(m) ==
  /\ place[m] = "nowhere"
  /\ place' = [place EXCEPT ![m] = "spool"]
  /\ UNCHANGED copies

\* The whole spool is fetched at once.
Fetch ==
  /\ \E m \in Msgs : place[m] = "spool"
  /\ place' = [m \in Msgs |-> IF place[m] = "spool" THEN "folder" ELSE place[m]]
  /\ UNCHANGED copies

Deliver(m) ==
  /\ place[m] = "folder"
  /\ copies' = [copies EXCEPT ![m] = @ + 1]
  /\ UNCHANGED place

Release(m) ==
  /\ place[m] = "folder"
  /\ copies[m] > 0
  /\ place' = [place EXCEPT ![m] = "gone"]
  /\ UNCHANGED copies

Next == Fetch \/ \E m \in Msgs : Arrive(m) \/ Deliver(m) \/ Release(m)

Spec == Init /\ [][Next]_<<place, copies>>
============================================================================
