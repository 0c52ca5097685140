--------------------------- MODULE IncmailProofs ---------------------------
(***************************************************************************)
(* Proofs about Incmail, for any number of runs, messages, file numbers    *)
(* and faults but that of touch: as long as no two runs are in their lock  *)
(* test together, the lock keeps runs apart, no mail is lost, a fault      *)
(* accounts for every second delivery, and no file of the folder is passed *)
(* over.                                                                   *)
(***************************************************************************)
EXTENDS Incmail, TLAPS

\* A lock test is over before the next one begins, and the lock can be made.
LockWorks == ~SlowStart /\ "touch" \notin Faults

Looping  == {"next", "slocal", "rm"}
Handling == {"slocal", "rm"}

\* The lock file stands for the run that works on the folder; while a run is
\* about to create it, nobody does.
LockInv ==
  /\ \A p \in Procs : pc[p] \in Holding => lock
  /\ \A p, q \in Procs : pc[p] \in Starting /\ pc[q] \in Starting => p = q
  /\ \A p, q \in Procs : pc[p] = "touch" => pc[q] \notin Holding

\* Where a run hands a file to slocal or removes it, $i names one.
CursorInv ==
  \A p \in Procs : pc[p] \in Handling => cur[p] \in Nums

\* The file that a run hands to slocal or removes is there, and it is the one
\* that slocal has accepted when it comes to rm.
FileInv ==
  \A p \in Procs :
    /\ pc[p] \in Handling => tmp[cur[p]] \in Msgs
    /\ pc[p] = "rm" => copies[tmp[cur[p]]] > 0 /\ cur[p] \in tried[p]

\* A message is in at most one place.
PlaceInv ==
  /\ \A i, j \in DOMAIN spool : spool[i] = spool[j] => i = j
  /\ \A k, n \in Nums : tmp[k] = tmp[n] /\ tmp[k] # NoMsg => k = n
  /\ \A m \in Msgs : Waiting(m) => m \in arrived /\ ~Staged(m) /\ copies[m] = 0
  /\ \A m \in Msgs : Staged(m) => m \in arrived
  /\ \A m \in Msgs : m \notin arrived => copies[m] = 0

\* A message that is still in the folder, and not about to be removed from it,
\* has been accepted once per fault at most.
FaultInv ==
  \A m \in Msgs :
    /\ copies[m] <= 1 + faults
    /\ Staged(m) /\ copies[m] > faults => \E p \in Procs : pc[p] = "rm" /\ tmp[cur[p]] = m

\* EveryMessageTried, between TestFile and the end of a round included.
LoopInv ==
  \A p \in Procs : pc[p] \in Looping =>
    \A n \in Nums : tmp[n] # NoMsg =>
      \/ n \in tried[p]
      \/ \E k \in 1..3 : <<k, n>> \in work[p]
      \/ pc[p] = "slocal" /\ n = cur[p]

----------------------------------------------------------------------------
(* Types.                                                                  *)

\* Where `inc' puts the messages of the spool: behind the highest number.
LEMMA IncPlaces ==
  ASSUME TypeOK, NEW p \in Procs, Inc(p)
  PROVE  \E h \in 0..MaxNum :
           /\ h + Len(spool) <= MaxNum
           /\ \A n \in Nums : n > h => tmp[n] = NoMsg
           /\ \A n \in Nums : tmp'[n] = IF n \in (h + 1)..(h + Len(spool))
                                        THEN spool[n - h] ELSE tmp[n]
           /\ \A n \in (h + 1)..(h + Len(spool)) : n \in Nums /\ n - h \in 1..Len(spool)
           /\ \A i \in 1..Len(spool) : h + i \in (h + 1)..(h + Len(spool)) /\ (h + i) - h = i
<1>1. Len(spool) \in Nat /\ MaxNum \in Nat
  BY IncmailAssumption DEF TypeOK
<1>2. PICK h \in 0..MaxNum :
        /\ IsHighest(h)
        /\ h + Len(spool) <= MaxNum
        /\ tmp' = [n \in Nums |-> IF n \in (h + 1)..(h + Len(spool))
                                  THEN spool[n - h] ELSE tmp[n]]
  BY DEF Inc
<1>3. \A n \in (h + 1)..(h + Len(spool)) : n \in Nums /\ n - h \in 1..Len(spool)
  BY <1>1, <1>2 DEF Nums
<1>4. \A i \in 1..Len(spool) : h + i \in (h + 1)..(h + Len(spool)) /\ (h + i) - h = i
  BY <1>1, <1>2
<1> QED
  BY <1>1, <1>2, <1>3, <1>4 DEF IsHighest

\* The script starts with every variable of its type.
LEMMA InitType == Init => TypeOK
<1> SUFFICES ASSUME Init PROVE TypeOK
  OBVIOUS
<1>1. pc \in [Procs -> Commands] /\ lock \in BOOLEAN /\ faults \in Nat
  BY DEF Init, Commands
<1>2. spool \in Seq(Msgs) /\ tmp \in [Nums -> Msgs \cup {NoMsg}] /\ arrived \subseteq Msgs
  BY DEF Init
<1>3. copies \in [Msgs -> Nat] /\ cur \in [Procs -> 0..MaxNum]
  BY IncmailAssumption DEF Init
<1>4. work \in [Procs -> SUBSET ((1..3) \X Nums)] /\ tried \in [Procs -> SUBSET Nums]
  BY DEF Init
<1> QED
  BY <1>1, <1>2, <1>3, <1>4 DEF TypeOK

\* Every command, every arrival and every fault keeps the types.
LEMMA NextType == TypeOK /\ CursorInv /\ [Next]_vars => TypeOK'
<1> SUFFICES ASSUME TypeOK, CursorInv, [Next]_vars PROVE TypeOK'
  OBVIOUS
<1> USE IncmailAssumption DEF TypeOK, Commands, Starting, Holding, Goto, mail, loop
<1>1. ASSUME NEW p \in Procs, Launch(p) PROVE TypeOK'
  BY <1>1 DEF Launch
<1>2. ASSUME NEW p \in Procs, LockTest(p) PROVE TypeOK'
  BY <1>2 DEF LockTest
<1>3. ASSUME NEW p \in Procs, Touch(p) PROVE TypeOK'
  <2>1. /\ pc' \in [Procs -> Commands]
        /\ UNCHANGED <<spool, tmp, arrived, copies, work, cur, tried>>
    BY <1>3 DEF Touch
  <2>2. (lock' = TRUE /\ UNCHANGED faults) \/ (UNCHANGED lock /\ faults < MaxFaults /\ faults' = faults + 1)
    BY <1>3, Zenon DEF Touch, Fault
  <2>3. lock' \in BOOLEAN
    BY <2>2, Zenon
  <2>4. faults' \in Nat
    BY <2>2
  <2> QED
    BY <2>1, <2>3, <2>4
<1>4. ASSUME NEW p \in Procs, Inc(p) PROVE TypeOK'
  <2>1. tmp' \in [Nums -> Msgs \cup {NoMsg}]
    <3>1. PICK h \in 0..MaxNum :
            /\ \A n \in Nums : tmp'[n] = IF n \in (h + 1)..(h + Len(spool))
                                         THEN spool[n - h] ELSE tmp[n]
            /\ \A n \in (h + 1)..(h + Len(spool)) : n \in Nums /\ n - h \in 1..Len(spool)
      BY <1>4, IncPlaces
    <3>2. \A n \in 1..Len(spool) : spool[n] \in Msgs
      OBVIOUS
    <3>3. \A n \in Nums : tmp'[n] \in Msgs \cup {NoMsg}
      BY <3>1, <3>2
    <3>4. tmp' = [n \in Nums |-> tmp'[n]]
      BY <1>4 DEF Inc
    <3> QED
      BY <3>3, <3>4
  <2>2. spool' \in Seq(Msgs)
    BY <1>4 DEF Inc
  <2> QED
    BY <1>4, <2>1, <2>2 DEF Inc
<1>5. ASSUME NEW p \in Procs, IncFails(p) PROVE TypeOK'
  BY <1>5 DEF IncFails, Fault
<1>6. ASSUME NEW p \in Procs, Glob(p) PROVE TypeOK'
  BY <1>6 DEF Glob
<1>7. ASSUME NEW p \in Procs, TestFile(p) PROVE TypeOK'
  BY <1>7 DEF TestFile, Nums
<1>8. ASSUME NEW p \in Procs, Deliver(p) PROVE TypeOK'
  <2>1. cur[p] \in Nums /\ tmp[cur[p]] \in Msgs
    BY <1>8 DEF Deliver, CursorInv, Handling
  <2>2. copies' \in [Msgs -> Nat]
    BY <1>8, <2>1 DEF Deliver
  <2>3. tried' \in [Procs -> SUBSET Nums]
    BY <1>8, <2>1 DEF Deliver
  <2> QED
    BY <1>8, <2>2, <2>3 DEF Deliver
<1>9. ASSUME NEW p \in Procs, DeliverFails(p) PROVE TypeOK'
  BY <1>9 DEF DeliverFails, CursorInv, Handling
<1>10. ASSUME NEW p \in Procs, Remove(p) PROVE TypeOK'
  BY <1>10 DEF Remove
<1>11. ASSUME NEW p \in Procs, RemoveFails(p) PROVE TypeOK'
  BY <1>11 DEF RemoveFails, Fault
<1>12. ASSUME NEW p \in Procs, Unlock(p) PROVE TypeOK'
  <2>1. /\ pc' \in [Procs -> Commands]
        /\ UNCHANGED <<spool, tmp, arrived, copies, work, cur, tried>>
    BY <1>12 DEF Unlock
  <2>2. (lock' = FALSE /\ UNCHANGED faults) \/ (UNCHANGED lock /\ faults < MaxFaults /\ faults' = faults + 1)
    BY <1>12, Zenon DEF Unlock, Fault
  <2>3. lock' \in BOOLEAN
    BY <2>2, Zenon
  <2>4. faults' \in Nat
    BY <2>2
  <2> QED
    BY <2>1, <2>3, <2>4
<1>13. ASSUME NEW p \in Procs, Crash(p) PROVE TypeOK'
  BY <1>13 DEF Crash, Fault
<1>14. ASSUME NEW m \in Msgs, Arrive(m) PROVE TypeOK'
  BY <1>14 DEF Arrive
<1>15. CASE ClearStaleLock
  BY <1>15 DEF ClearStaleLock
<1>16. CASE UNCHANGED vars
  BY <1>16 DEF vars
<1> QED
  BY <1>1, <1>2, <1>3, <1>4, <1>5, <1>6, <1>7, <1>8, <1>9, <1>10, <1>11, <1>12, <1>13,
     <1>14, <1>15, <1>16 DEF Next, Step

\* Only TestFile leads to slocal, and only with a file of the list.
LEMMA CursorNext == TypeOK /\ CursorInv /\ [Next]_vars => CursorInv'
<1> SUFFICES ASSUME TypeOK, CursorInv, [Next]_vars PROVE CursorInv'
  OBVIOUS
<1> USE DEF TypeOK, CursorInv, Handling, Goto, mail, loop
<1>1. ASSUME NEW p \in Procs, TestFile(p) PROVE CursorInv'
  BY <1>1 DEF TestFile
<1>2. ASSUME NEW p \in Procs, Deliver(p) \/ DeliverFails(p) \/ Remove(p) \/ RemoveFails(p)
      PROVE  CursorInv'
  BY <1>2 DEF Deliver, DeliverFails, Remove, RemoveFails
<1>3. ASSUME NEW p \in Procs,
             \/ Launch(p) \/ LockTest(p) \/ Touch(p) \/ Inc(p) \/ IncFails(p) \/ Glob(p)
             \/ Unlock(p) \/ Crash(p)
      PROVE  CursorInv'
  BY <1>3 DEF Launch, LockTest, Touch, Inc, IncFails, Glob, Unlock, Crash
<1>4. CASE ClearStaleLock \/ UNCHANGED vars \/ \E m \in Msgs : Arrive(m)
  BY <1>4 DEF ClearStaleLock, vars, Arrive
<1> QED
  BY <1>1, <1>2, <1>3, <1>4 DEF Next, Step

\* Every variable keeps its type, and the list of files is never left with $i unset.
LEMMA TypesInductive == Spec => [](TypeOK /\ CursorInv)
<1>1. Init => TypeOK /\ CursorInv
  BY InitType DEF Init, CursorInv, Handling
<1> QED
  BY <1>1, NextType, CursorNext, PTL DEF Spec

\* Every variable keeps its type.
THEOREM TypeCorrect == Spec => []TypeOK
  BY TypesInductive, PTL

----------------------------------------------------------------------------
(* The lock.                                                               *)

\* A step that leaves the lock alone and takes no run further keeps runs apart.
LEMMA ApartIfUnchanged ==
  ASSUME TypeOK, LockInv, MutualExclusion, lock' = lock, NEW p \in Procs,
         pc' = [pc EXCEPT ![p] = "idle"] \/ UNCHANGED pc
  PROVE  LockInv' /\ MutualExclusion'
  BY DEF TypeOK, LockInv, MutualExclusion, Starting, Holding

\* A run that goes on with the folder keeps everybody else out.
LEMMA ApartIfHolding ==
  ASSUME TypeOK, LockInv, MutualExclusion, lock' = lock,
         NEW p \in Procs, pc[p] \in Holding,
         NEW c \in Holding \cup {"idle"}, pc' = [pc EXCEPT ![p] = c]
  PROVE  LockInv' /\ MutualExclusion'
  BY DEF TypeOK, LockInv, MutualExclusion, Starting, Holding

\* A lock that works lets one run at a time to the folder.
LEMMA LockNext ==
  LockWorks /\ TypeOK /\ LockInv /\ MutualExclusion /\ [Next]_vars
    => LockInv' /\ MutualExclusion'
<1> SUFFICES ASSUME LockWorks, TypeOK, LockInv, MutualExclusion, [Next]_vars
             PROVE  LockInv' /\ MutualExclusion'
  OBVIOUS
<1> USE DEF Goto
<1>1. ASSUME NEW p \in Procs, Launch(p) PROVE LockInv' /\ MutualExclusion'
  BY <1>1 DEF LockWorks, Launch, TypeOK, LockInv, MutualExclusion, Starting, Holding
<1>2. ASSUME NEW p \in Procs, LockTest(p) PROVE LockInv' /\ MutualExclusion'
  <2>1. CASE lock
    BY <1>2, <2>1, ApartIfUnchanged DEF LockTest
  <2>2. CASE ~lock
    <3>1. pc[p] = "check" /\ lock' = lock /\ pc' = [pc EXCEPT ![p] = "touch"]
      BY <1>2, <2>2 DEF LockTest
    <3>2. \A q \in Procs : pc[q] \notin Holding
      BY <2>2 DEF LockInv
    <3> QED
      BY <3>1, <3>2 DEF TypeOK, LockInv, MutualExclusion, Starting, Holding
  <2> QED
    BY <2>1, <2>2
<1>3. ASSUME NEW p \in Procs, Touch(p) PROVE LockInv' /\ MutualExclusion'
  BY <1>3 DEF LockWorks, Fault, Touch, TypeOK, LockInv, MutualExclusion, Starting, Holding
<1>4. ASSUME NEW p \in Procs,
             \/ Inc(p) \/ IncFails(p) \/ Glob(p) \/ TestFile(p) \/ Deliver(p) \/ DeliverFails(p)
             \/ Remove(p) \/ RemoveFails(p)
      PROVE  LockInv' /\ MutualExclusion'
  <2>1. /\ lock' = lock /\ pc[p] \in Holding
        /\ \E c \in Holding \cup {"idle"} : pc' = [pc EXCEPT ![p] = c]
    BY <1>4 DEF Inc, IncFails, Glob, TestFile, Deliver, DeliverFails, Remove, RemoveFails, Holding
  <2> QED
    BY <2>1, ApartIfHolding
<1>5. ASSUME NEW p \in Procs, Unlock(p) PROVE LockInv' /\ MutualExclusion'
  <2>1. pc[p] = "next" /\ pc' = [pc EXCEPT ![p] = "idle"]
    BY <1>5 DEF Unlock
  <2> QED
    BY <2>1 DEF TypeOK, LockInv, MutualExclusion, Starting, Holding
<1>6. ASSUME NEW p \in Procs, Crash(p) PROVE LockInv' /\ MutualExclusion'
  BY <1>6, ApartIfUnchanged DEF Crash
<1>7. CASE ClearStaleLock
  BY <1>7 DEF ClearStaleLock, TypeOK, LockInv, MutualExclusion
<1>8. CASE UNCHANGED vars \/ \E m \in Msgs : Arrive(m)
  BY <1>8 DEF vars, Arrive, LockInv, MutualExclusion
<1> QED
  BY <1>1, <1>2, <1>3, <1>4, <1>5, <1>6, <1>7, <1>8 DEF Next, Step

\* Two runs never work on the folder at the same time, however many there are
\* and however many of them die, provided that no run starts while another
\* is between its test of the lock file and its touch, and that no touch fails.
THEOREM LockKeepsApart ==
  ASSUME LockWorks
  PROVE  Spec => []MutualExclusion
<1>1. Init => LockInv /\ MutualExclusion
  BY DEF Init, LockInv, MutualExclusion, Starting, Holding
<1>2. TypeOK /\ LockInv /\ MutualExclusion /\ [Next]_vars => LockInv' /\ MutualExclusion'
  BY LockNext
<1> QED
  BY <1>1, <1>2, TypeCorrect, PTL DEF Spec

----------------------------------------------------------------------------
(* The mail.                                                               *)

\* The file that a run works on stays until that run removes it.
LEMMA FileNext ==
  TypeOK /\ CursorInv /\ MutualExclusion /\ FileInv /\ [Next]_vars => FileInv'
<1> SUFFICES ASSUME TypeOK, CursorInv, MutualExclusion, FileInv, [Next]_vars PROVE FileInv'
  OBVIOUS
<1> USE DEF TypeOK, FileInv, Handling, Goto, mail, loop
<1>1. ASSUME NEW p \in Procs, Launch(p) \/ LockTest(p) \/ Touch(p) \/ IncFails(p) PROVE FileInv'
  BY <1>1 DEF Launch, LockTest, Touch, IncFails
<1>2. ASSUME NEW p \in Procs, Glob(p) \/ Unlock(p) PROVE FileInv'
  BY <1>2 DEF Glob, Unlock
<1>3. ASSUME NEW p \in Procs, DeliverFails(p) \/ RemoveFails(p) \/ Crash(p) PROVE FileInv'
  BY <1>3 DEF DeliverFails, RemoveFails, Crash
<1>4. ASSUME NEW p \in Procs, Inc(p) \/ Remove(p) PROVE FileInv'
  <2>1. \A q \in Procs : q # p => pc[q] \notin Handling
    BY <1>4 DEF Inc, Remove, MutualExclusion, Holding
  <2>2. \A q \in Procs : pc'[q] \notin Handling
    BY <1>4, <2>1 DEF Inc, Remove
  <2> QED
    BY <2>2
<1>5. ASSUME NEW p \in Procs, TestFile(p) PROVE FileInv'
  <2>1. PICK w \in work[p] :
          /\ pc' = [pc EXCEPT ![p] = IF tmp[w[2]] # NoMsg THEN "slocal" ELSE "next"]
          /\ cur' = [cur EXCEPT ![p] = w[2]]
    BY <1>5 DEF TestFile
  <2>2. UNCHANGED <<tmp, copies, tried>>
    BY <1>5 DEF TestFile
  <2>3. w[2] \in Nums /\ (tmp[w[2]] # NoMsg => tmp[w[2]] \in Msgs)
    BY <2>1
  <2> QED
    BY <2>1, <2>2, <2>3 DEF Nums
<1>6. ASSUME NEW p \in Procs, Deliver(p) PROVE FileInv'
  <2>1. cur[p] \in Nums /\ tmp[cur[p]] \in Msgs /\ pc[p] = "slocal"
    BY <1>6 DEF Deliver, CursorInv
  <2>2. \A m \in Msgs : copies[m] > 0 => copies'[m] > 0
    BY <1>6, <2>1 DEF Deliver
  <2>3. copies'[tmp[cur[p]]] > 0
    BY <1>6, <2>1 DEF Deliver
  <2>4. /\ pc' = [pc EXCEPT ![p] = "rm"] /\ tried' = [tried EXCEPT ![p] = @ \cup {cur[p]}]
        /\ UNCHANGED <<tmp, cur>>
    BY <1>6 DEF Deliver
  <2>5. ASSUME NEW q \in Procs, q # p, pc'[q] \in Handling
        PROVE  /\ tmp'[cur'[q]] \in Msgs
               /\ pc'[q] = "rm" => copies'[tmp'[cur'[q]]] > 0 /\ cur'[q] \in tried'[q]
    BY <2>2, <2>4, <2>5
  <2>6. /\ tmp'[cur'[p]] \in Msgs /\ copies'[tmp'[cur'[p]]] > 0 /\ cur'[p] \in tried'[p]
    BY <2>1, <2>3, <2>4
  <2> QED
    BY <2>5, <2>6
<1>7. CASE ClearStaleLock \/ UNCHANGED vars \/ \E m \in Msgs : Arrive(m)
  BY <1>7 DEF ClearStaleLock, vars, Arrive
<1> QED
  BY <1>1, <1>2, <1>3, <1>4, <1>5, <1>6, <1>7 DEF Next, Step

\* `inc' moves every message of the spool to the folder and leaves the others there.
LEMMA IncMoves ==
  ASSUME TypeOK, NEW p \in Procs, Inc(p), NEW m \in Msgs
  PROVE  /\ ~Waiting(m)'
         /\ Staged(m)' <=> Staged(m) \/ Waiting(m)
<1>1. PICK h \in 0..MaxNum :
        /\ h + Len(spool) <= MaxNum
        /\ \A n \in Nums : n > h => tmp[n] = NoMsg
        /\ \A n \in Nums : tmp'[n] = IF n \in (h + 1)..(h + Len(spool))
                                     THEN spool[n - h] ELSE tmp[n]
        /\ \A n \in (h + 1)..(h + Len(spool)) : n \in Nums /\ n - h \in 1..Len(spool)
        /\ \A i \in 1..Len(spool) : h + i \in (h + 1)..(h + Len(spool)) /\ (h + i) - h = i
  BY IncPlaces
<1>2. DOMAIN spool = 1..Len(spool) /\ m # NoMsg
  BY IncmailAssumption DEF TypeOK
<1>3. ~Waiting(m)'
  BY DEF Inc, Waiting
<1>4. ASSUME NEW i \in DOMAIN spool, spool[i] = m PROVE Staged(m)'
  <2>1. h + i \in (h + 1)..(h + Len(spool)) /\ (h + i) - h = i
    BY <1>1, <1>2
  <2>2. tmp'[h + i] = m
    BY <1>1, <1>4, <2>1
  <2> QED
    BY <1>1, <2>1, <2>2 DEF Staged
<1>5. ASSUME NEW n \in Nums, tmp[n] = m PROVE Staged(m)'
  <2>1. n \notin (h + 1)..(h + Len(spool))
    BY <1>1, <1>2, <1>5 DEF TypeOK, Nums
  <2> QED
    BY <1>1, <1>5, <2>1 DEF Staged
<1>6. ASSUME NEW n \in Nums, tmp'[n] = m PROVE Staged(m) \/ Waiting(m)
  BY <1>1, <1>2, <1>6 DEF Staged, Waiting
<1> QED
  BY <1>3, <1>4, <1>5, <1>6 DEF Staged, Waiting

\* A new message is the only one that an arrival puts into the spool.
LEMMA ArriveAdds ==
  ASSUME TypeOK, NEW m \in Msgs, Arrive(m)
  PROVE  /\ Len(spool') = Len(spool) + 1 /\ spool'[Len(spool) + 1] = m
         /\ DOMAIN spool = 1..Len(spool) /\ DOMAIN spool' = 1..(Len(spool) + 1)
         /\ \A i \in DOMAIN spool : spool'[i] = spool[i]
         /\ \A x \in Msgs : Waiting(x)' <=> Waiting(x) \/ x = m
<1>1. /\ Len(spool') = Len(spool) + 1 /\ spool'[Len(spool) + 1] = m
      /\ DOMAIN spool = 1..Len(spool) /\ DOMAIN spool' = 1..(Len(spool) + 1)
      /\ \A i \in DOMAIN spool : spool'[i] = spool[i]
  BY DEF TypeOK, Arrive
<1>2. Len(spool) \in Nat
  BY DEF TypeOK
<1>3. \A x \in Msgs : Waiting(x)' <=> Waiting(x) \/ x = m
  BY <1>1, <1>2 DEF Waiting
<1> QED
  BY <1>1, <1>3

\* Where spool and folder stay, so does every message.
LEMMA PlacesStay ==
  ASSUME UNCHANGED <<spool, tmp>>, NEW m
  PROVE  (Waiting(m)' <=> Waiting(m)) /\ (Staged(m)' <=> Staged(m))
  BY DEF Waiting, Staged

\* The steps that move no message and deliver none.
Idles(p) ==
  \/ Launch(p) \/ LockTest(p) \/ Touch(p) \/ IncFails(p) \/ Glob(p) \/ TestFile(p)
  \/ DeliverFails(p) \/ RemoveFails(p) \/ Unlock(p) \/ Crash(p)

\* They leave the mail alone.
LEMMA IdlesKeepMail ==
  (\E p \in Procs : Idles(p)) \/ ClearStaleLock \/ UNCHANGED vars => UNCHANGED mail
  BY DEF Idles, Launch, LockTest, Touch, IncFails, Glob, TestFile, DeliverFails, RemoveFails,
         Unlock, Crash, ClearStaleLock, vars

\* No step loses a message.
LEMMA MailNext == TypeOK /\ CursorInv /\ FileInv /\ NoMailLost /\ [Next]_vars => NoMailLost'
<1> SUFFICES ASSUME TypeOK, CursorInv, FileInv, NoMailLost, [Next]_vars PROVE NoMailLost'
  OBVIOUS
<1>1. CASE UNCHANGED mail
  BY <1>1, PlacesStay DEF mail, NoMailLost
<1>2. ASSUME NEW p \in Procs, Inc(p) PROVE NoMailLost'
  BY <1>2, IncMoves DEF Inc, NoMailLost, TypeOK
<1>3. ASSUME NEW p \in Procs, Deliver(p) PROVE NoMailLost'
  <2>1. cur[p] \in Nums /\ tmp[cur[p]] \in Msgs
    BY <1>3 DEF Deliver, Goto, CursorInv, FileInv, Handling
  <2>2. \A m \in Msgs : copies[m] > 0 => copies'[m] > 0
    BY <1>3, <2>1 DEF Deliver, TypeOK
  <2>3. arrived' = arrived /\ UNCHANGED <<spool, tmp>>
    BY <1>3 DEF Deliver
  <2> QED
    BY <2>2, <2>3, PlacesStay DEF NoMailLost, TypeOK
<1>4. ASSUME NEW p \in Procs, Remove(p) PROVE NoMailLost'
  <2>1. copies[tmp[cur[p]]] > 0
    BY <1>4 DEF Remove, Goto, FileInv
  <2>2. tmp' = [tmp EXCEPT ![cur[p]] = NoMsg] /\ UNCHANGED <<spool, arrived, copies>>
    BY <1>4 DEF Remove
  <2>3. ASSUME NEW m \in arrived PROVE Waiting(m)' \/ Staged(m)' \/ copies'[m] > 0
    BY <2>1, <2>2, <2>3 DEF NoMailLost, Waiting, Staged, TypeOK
  <2> QED
    BY <2>2, <2>3 DEF NoMailLost
<1>5. ASSUME NEW m \in Msgs, Arrive(m) PROVE NoMailLost'
  <2>1. UNCHANGED <<tmp, copies>> /\ arrived' = arrived \cup {m}
    BY <1>5 DEF Arrive
  <2>2. \A x \in Msgs : Staged(x)' <=> Staged(x)
    BY <2>1 DEF Staged
  <2> QED
    BY <1>5, <2>1, <2>2, ArriveAdds DEF NoMailLost, TypeOK
<1> QED
  BY <1>1, <1>2, <1>3, <1>4, <1>5, IdlesKeepMail DEF Next, Step, Idles

\* A message that reached the spool stays in the spool or in the folder until
\* slocal has accepted it, whatever fails but the touch of the lock.
THEOREM MailIsKept ==
  ASSUME LockWorks
  PROVE  Spec => []NoMailLost
<1>1. Init => CursorInv /\ FileInv /\ NoMailLost
  BY DEF Init, CursorInv, FileInv, Handling, NoMailLost
<1>2. TypeOK /\ CursorInv /\ MutualExclusion /\ FileInv /\ NoMailLost /\ [Next]_vars
        => FileInv' /\ NoMailLost'
  BY FileNext, MailNext
<1> QED
  BY <1>1, <1>2, TypesInductive, LockKeepsApart, PTL DEF Spec

----------------------------------------------------------------------------
(* Deliveries.                                                             *)

\* No step puts a message into a second place or delivers one from the spool.
LEMMA PlaceNext == TypeOK /\ CursorInv /\ FileInv /\ PlaceInv /\ [Next]_vars => PlaceInv'
<1> SUFFICES ASSUME TypeOK, CursorInv, FileInv, PlaceInv, [Next]_vars PROVE PlaceInv'
  OBVIOUS
<1>1. CASE UNCHANGED mail
  BY <1>1, PlacesStay DEF mail, PlaceInv
<1>2. ASSUME NEW p \in Procs, Inc(p) PROVE PlaceInv'
  <2>1. UNCHANGED <<arrived, copies>> /\ spool' = << >>
    BY <1>2 DEF Inc
  <2>2. ASSUME NEW k \in Nums, NEW n \in Nums, tmp'[k] = tmp'[n], tmp'[k] # NoMsg
        PROVE  k = n
    <3>1. PICK h \in 0..MaxNum :
            /\ \A j \in Nums : j > h => tmp[j] = NoMsg
            /\ \A j \in Nums : tmp'[j] = IF j \in (h + 1)..(h + Len(spool))
                                         THEN spool[j - h] ELSE tmp[j]
            /\ \A j \in (h + 1)..(h + Len(spool)) : j \in Nums /\ j - h \in 1..Len(spool)
      BY <1>2, IncPlaces
    <3>2. DOMAIN spool = 1..Len(spool) /\ \A i \in DOMAIN spool : spool[i] \in Msgs
      BY DEF TypeOK
    <3>3. \A i \in DOMAIN spool, j \in Nums : spool[i] # tmp[j]
      BY <3>2 DEF PlaceInv, Waiting, Staged
    <3>4. CASE k \in (h + 1)..(h + Len(spool)) /\ n \in (h + 1)..(h + Len(spool))
      <4>1. k - h = n - h
        BY <2>2, <3>1, <3>2, <3>4 DEF PlaceInv
      <4> QED
        BY <4>1 DEF Nums
    <3>5. CASE k \notin (h + 1)..(h + Len(spool)) /\ n \notin (h + 1)..(h + Len(spool))
      BY <2>2, <3>1, <3>5 DEF PlaceInv
    <3> QED
      BY <2>2, <3>1, <3>2, <3>3, <3>4, <3>5
  <2>3. \A m \in Msgs : ~Waiting(m)' /\ (Staged(m)' => m \in arrived)
    BY <1>2, IncMoves DEF PlaceInv
  <2> QED
    BY <2>1, <2>2, <2>3 DEF PlaceInv
<1>3. ASSUME NEW p \in Procs, Deliver(p) PROVE PlaceInv'
  <2>1. cur[p] \in Nums /\ tmp[cur[p]] \in Msgs
    BY <1>3 DEF Deliver, Goto, CursorInv, FileInv, Handling
  <2>2. Staged(tmp[cur[p]])
    BY <2>1 DEF Staged
  <2>3. copies' = [copies EXCEPT ![tmp[cur[p]]] = @ + 1] /\ UNCHANGED <<spool, tmp, arrived>>
    BY <1>3 DEF Deliver
  <2>4. \A m \in Msgs : Waiting(m) \/ m \notin arrived => copies'[m] = 0
    BY <2>1, <2>2, <2>3 DEF PlaceInv, TypeOK
  <2> QED
    BY <2>3, <2>4, PlacesStay DEF PlaceInv
<1>4. ASSUME NEW p \in Procs, Remove(p) PROVE PlaceInv'
  <2>1. tmp' = [tmp EXCEPT ![cur[p]] = NoMsg] /\ UNCHANGED <<spool, arrived, copies>>
    BY <1>4 DEF Remove
  <2>2. \A n \in Nums : tmp'[n] = tmp[n] \/ tmp'[n] = NoMsg
    BY <2>1 DEF TypeOK
  <2>3. \A m \in Msgs : (Staged(m)' => Staged(m)) /\ (Waiting(m)' <=> Waiting(m))
    BY <2>1, <2>2, IncmailAssumption DEF Staged, Waiting
  <2> QED
    BY <2>1, <2>2, <2>3 DEF PlaceInv
<1>5. ASSUME NEW m \in Msgs, Arrive(m) PROVE PlaceInv'
  <2>1. /\ UNCHANGED <<tmp, copies>> /\ arrived' = arrived \cup {m}
        /\ m \notin arrived
    BY <1>5 DEF Arrive
  <2>2. \A x \in Msgs : Staged(x)' <=> Staged(x)
    BY <2>1 DEF Staged
  <2>3. \A i \in DOMAIN spool : spool[i] # m
    BY <2>1 DEF PlaceInv, Waiting
  <2>4. \A i, j \in DOMAIN spool' : spool'[i] = spool'[j] => i = j
    <3>1. DOMAIN spool' = (DOMAIN spool) \cup {Len(spool) + 1}
      <4>1. Len(spool) \in Nat
        BY DEF TypeOK
      <4>2. DOMAIN spool = 1..Len(spool) /\ DOMAIN spool' = 1..(Len(spool) + 1)
        BY <1>5, ArriveAdds
      <4>3. 1..(Len(spool) + 1) = (1..Len(spool)) \cup {Len(spool) + 1}
        BY <4>1
      <4> QED
        BY <4>2, <4>3
    <3>2. spool'[Len(spool) + 1] = m /\ \A i \in DOMAIN spool : spool'[i] = spool[i]
      BY <1>5, ArriveAdds
    <3> QED
      BY <2>3, <3>1, <3>2 DEF PlaceInv
  <2>5. \A x \in Msgs : Waiting(x)' => x \in arrived' /\ ~Staged(x)' /\ copies'[x] = 0
    BY <1>5, <2>1, <2>2, ArriveAdds DEF PlaceInv
  <2> QED
    BY <2>1, <2>2, <2>4, <2>5 DEF PlaceInv
<1> QED
  BY <1>1, <1>2, <1>3, <1>4, <1>5, IdlesKeepMail DEF Next, Step, Idles

\* Where the mail stays, a second delivery becomes possible only by the fault
\* that takes a run away from its rm, or makes the rm fail.
LEMMA FaultIfIdle ==
  ASSUME TypeOK, FaultInv, UNCHANGED mail, UNCHANGED faults \/ faults' = faults + 1,
         UNCHANGED faults => \A p \in Procs : pc[p] = "rm" => pc'[p] = "rm" /\ cur'[p] = cur[p]
  PROVE  FaultInv'
<1>1. UNCHANGED <<spool, tmp, copies>> /\ faults \in Nat /\ copies \in [Msgs -> Nat]
  BY DEF mail, TypeOK
<1>2. CASE UNCHANGED faults
  BY <1>1, <1>2, PlacesStay DEF FaultInv
<1>3. CASE faults' = faults + 1
  BY <1>1, <1>3, PlacesStay DEF FaultInv
<1> QED
  BY <1>2, <1>3

\* No step delivers a message more often than the faults account for.
LEMMA FaultNext ==
  TypeOK /\ CursorInv /\ MutualExclusion /\ FileInv /\ PlaceInv /\ FaultInv /\ [Next]_vars
    => FaultInv'
<1> SUFFICES ASSUME TypeOK, CursorInv, MutualExclusion, FileInv, PlaceInv, FaultInv, [Next]_vars
             PROVE  FaultInv'
  OBVIOUS
<1> USE DEF Goto, Fault
<1>1. ASSUME NEW p \in Procs,
             \/ Launch(p) \/ LockTest(p) \/ Touch(p) \/ Glob(p) \/ TestFile(p) \/ DeliverFails(p)
             \/ Unlock(p)
      PROVE  FaultInv'
  <2>1. /\ UNCHANGED mail /\ (UNCHANGED faults \/ faults' = faults + 1)
        /\ \A q \in Procs : pc[q] = "rm" => pc'[q] = "rm" /\ cur'[q] = cur[q]
    BY <1>1 DEF Launch, LockTest, Touch, Glob, TestFile, DeliverFails, Unlock, loop, mail, TypeOK
  <2> QED
    BY <2>1, FaultIfIdle
<1>2. ASSUME NEW p \in Procs, IncFails(p) PROVE FaultInv'
  <2>1. /\ UNCHANGED mail /\ (UNCHANGED faults \/ faults' = faults + 1)
        /\ \A q \in Procs : pc[q] = "rm" => pc'[q] = "rm" /\ cur'[q] = cur[q]
    BY <1>2 DEF IncFails, loop, mail, TypeOK
  <2> QED
    BY <2>1, FaultIfIdle
<1>3. ASSUME NEW p \in Procs, RemoveFails(p) \/ Crash(p) PROVE FaultInv'
  <2>1. UNCHANGED mail /\ faults' = faults + 1 /\ faults' # faults
    BY <1>3 DEF RemoveFails, Crash, TypeOK
  <2> QED
    BY <2>1, FaultIfIdle
<1>4. ASSUME NEW p \in Procs, Inc(p) PROVE FaultInv'
  <2>1. UNCHANGED <<copies, faults>>
    BY <1>4 DEF Inc
  <2>2. \A q \in Procs : pc[q] # "rm"
    BY <1>4 DEF Inc, MutualExclusion, Holding
  <2>3. \A m \in Msgs : Staged(m)' => copies[m] <= faults
    <3> SUFFICES ASSUME NEW m \in Msgs, Staged(m)' PROVE copies[m] <= faults
      OBVIOUS
    <3>1. Staged(m) \/ Waiting(m)
      BY <1>4, IncMoves
    <3>2. CASE Staged(m)
      <4>1. copies[m] \in Nat /\ faults \in Nat /\ ~(copies[m] > faults)
        BY <2>2, <3>2 DEF FaultInv, TypeOK
      <4> QED
        BY <4>1
    <3>3. CASE Waiting(m)
      BY <3>3 DEF PlaceInv, TypeOK
    <3> QED
      BY <3>1, <3>2, <3>3
  <2> QED
    BY <2>1, <2>3 DEF FaultInv, TypeOK
<1>5. ASSUME NEW p \in Procs, Deliver(p) PROVE FaultInv'
  <2> DEFINE d == tmp[cur[p]]
  <2>1. cur[p] \in Nums /\ d \in Msgs /\ pc[p] = "slocal"
    BY <1>5 DEF Deliver, CursorInv, FileInv, Handling
  <2>2. /\ copies' = [copies EXCEPT ![d] = @ + 1] /\ UNCHANGED <<spool, tmp, cur, faults>>
        /\ pc' = [pc EXCEPT ![p] = "rm"]
    BY <1>5 DEF Deliver
  <2>3. Staged(d) /\ \A q \in Procs : pc[q] # "rm"
    BY <1>5, <2>1 DEF Deliver, MutualExclusion, Holding, Staged
  <2>4. copies[d] <= faults
    <3>1. ~(copies[d] > faults)
      BY <2>1, <2>3 DEF FaultInv
    <3>2. copies[d] \in Nat /\ faults \in Nat
      BY <2>1 DEF TypeOK
    <3> QED
      BY <3>1, <3>2
  <2>5. pc'[p] = "rm" /\ tmp'[cur'[p]] = d
    BY <2>2 DEF TypeOK
  <2>6. \A m \in Msgs : copies'[m] = IF m = d THEN copies[d] + 1 ELSE copies[m]
    BY <2>1, <2>2 DEF TypeOK
  <2>7. ASSUME NEW m \in Msgs, m # d, Staged(m)' PROVE copies'[m] <= faults'
    BY <2>2, <2>3, <2>6, <2>7, PlacesStay DEF FaultInv, TypeOK
  <2>8. \A m \in Msgs : copies'[m] <= 1 + faults'
    BY <2>2, <2>4, <2>6 DEF FaultInv, TypeOK
  <2>9. \A m \in Msgs : copies'[m] > faults' => m = d \/ ~Staged(m)'
    BY <2>2, <2>6, <2>7 DEF TypeOK
  <2> HIDE DEF d
  <2> QED
    BY <2>5, <2>8, <2>9 DEF FaultInv
<1>6. ASSUME NEW p \in Procs, Remove(p) PROVE FaultInv'
  <2>1. /\ cur[p] \in Nums /\ tmp' = [tmp EXCEPT ![cur[p]] = NoMsg]
        /\ UNCHANGED <<spool, copies, faults>>
    BY <1>6 DEF Remove, CursorInv, Handling
  <2>2. \A q \in Procs : pc[q] = "rm" => q = p
    BY <1>6 DEF Remove, MutualExclusion, Holding
  <2>3. ASSUME NEW m \in Msgs, Staged(m)' PROVE Staged(m) /\ m # tmp[cur[p]]
    <3>1. PICK n \in Nums : tmp'[n] = m
      BY <2>3 DEF Staged
    <3>2. n # cur[p] /\ tmp[n] = m
      BY <2>1, <3>1, IncmailAssumption DEF TypeOK
    <3> QED
      BY <2>1, <3>1, <3>2, IncmailAssumption DEF PlaceInv, Staged
  <2>4. \A m \in Msgs : Staged(m)' => ~(copies[m] > faults)
    BY <2>2, <2>3 DEF FaultInv
  <2> QED
    BY <2>1, <2>4 DEF FaultInv
<1>7. ASSUME NEW m \in Msgs, Arrive(m) PROVE FaultInv'
  <2>1. UNCHANGED <<pc, tmp, cur, copies, faults>>
    BY <1>7 DEF Arrive, loop
  <2> QED
    BY <2>1 DEF FaultInv, Staged
<1>8. CASE ClearStaleLock \/ UNCHANGED vars
  BY <1>8, FaultIfIdle DEF ClearStaleLock, vars, loop, mail
<1> QED
  BY <1>1, <1>2, <1>3, <1>4, <1>5, <1>6, <1>7, <1>8 DEF Next, Step

\* slocal accepts a message as often as there are faults, and once more.
THEOREM FaultsExplainDuplicates ==
  ASSUME LockWorks
  PROVE  Spec => []DuplicatesNeedFaults
<1>1. Init => CursorInv /\ FileInv /\ PlaceInv /\ FaultInv
  BY IncmailAssumption
  DEF Init, CursorInv, FileInv, PlaceInv, FaultInv, Handling, Waiting, Staged
<1>2. TypeOK /\ CursorInv /\ MutualExclusion /\ FileInv /\ PlaceInv /\ FaultInv /\ [Next]_vars
        => FileInv' /\ PlaceInv' /\ FaultInv'
  BY FileNext, PlaceNext, FaultNext
<1>3. FaultInv => DuplicatesNeedFaults
  BY DEF FaultInv, DuplicatesNeedFaults
<1> QED
  BY <1>1, <1>2, <1>3, TypesInductive, LockKeepsApart, PTL DEF Spec

----------------------------------------------------------------------------
(* The mail drop.                                                          *)

\* Where each message is, all at once: what Custody sees of the script.
Where == [m \in Msgs |-> Place(m)]

\* Every step of the script is a step of the mail drop, or none at all.
LEMMA CustodyStep ==
  TypeOK /\ CursorInv /\ MutualExclusion /\ FileInv /\ PlaceInv /\ [Next]_vars
    => [C!Next]_<<Where, copies>>
<1> SUFFICES ASSUME TypeOK, CursorInv, FileInv, PlaceInv, [Next]_vars
             PROVE  [C!Next]_<<Where, copies>>
  OBVIOUS
<1>1. CASE UNCHANGED mail
  <2>1. \A m \in Msgs : Place(m)' = Place(m)
    BY <1>1, PlacesStay DEF mail, Place
  <2> QED
    BY <1>1, <2>1 DEF mail, Where
<1>2. ASSUME NEW p \in Procs, Inc(p) PROVE C!Fetch
  <2>1. UNCHANGED <<arrived, copies>> /\ spool # << >>
    BY <1>2 DEF Inc
  <2>2. \A m \in Msgs : Place(m)' = IF Place(m) = "spool" THEN "folder" ELSE Place(m)
    BY <1>2, <2>1, IncMoves DEF Place, PlaceInv
  <2>3. Waiting(spool[1]) /\ spool[1] \in Msgs
    BY <2>1 DEF Waiting, TypeOK
  <2>4. \E m \in Msgs : Place(m) = "spool"
    BY <2>3 DEF Place, PlaceInv
  <2> QED
    BY <2>1, <2>2, <2>4 DEF C!Fetch
<1>3. ASSUME NEW p \in Procs, Deliver(p) PROVE \E m \in Msgs : C!Deliver(m)
  <2> DEFINE d == tmp[cur[p]]
  <2>1. cur[p] \in Nums /\ d \in Msgs
    BY <1>3 DEF Deliver, Goto, CursorInv, FileInv, Handling
  <2>2. copies' = [copies EXCEPT ![d] = @ + 1] /\ UNCHANGED <<spool, tmp, arrived>>
    BY <1>3 DEF Deliver
  <2>3. Place(d) = "folder"
    BY <2>1 DEF Place, PlaceInv, Staged
  <2>4. \A m \in Msgs : Place(m)' = Place(m)
    BY <2>2, PlacesStay DEF Place
  <2>5. C!Deliver(d)
    BY <2>1, <2>2, <2>3, <2>4 DEF C!Deliver
  <2> QED
    BY <2>1, <2>5
<1>4. ASSUME NEW p \in Procs, Remove(p) PROVE \E m \in Msgs : C!Release(m)
  <2>1. PICK d \in Msgs : cur[p] \in Nums /\ tmp[cur[p]] = d /\ copies[d] > 0
    BY <1>4 DEF Remove, Goto, CursorInv, FileInv, Handling
  <2>2. tmp' = [tmp EXCEPT ![cur[p]] = NoMsg] /\ UNCHANGED <<spool, arrived, copies>>
    BY <1>4 DEF Remove
  <2>3. Staged(d) /\ d \in arrived /\ ~Waiting(d)
    BY <2>1 DEF PlaceInv, Staged
  <2>4. ~Staged(d)'
    BY <2>1, <2>2, IncmailAssumption DEF PlaceInv, Staged, TypeOK
  <2>5. ASSUME NEW m \in Msgs, m # d PROVE Staged(m)' <=> Staged(m)
    BY <2>1, <2>2, <2>5, IncmailAssumption DEF Staged, TypeOK
  <2>6. \A m \in Msgs : Waiting(m)' <=> Waiting(m)
    BY <2>2 DEF Waiting
  <2>7. \A m \in Msgs : Place(m)' = IF m = d THEN "gone" ELSE Place(m)
    BY <2>2, <2>3, <2>4, <2>5, <2>6 DEF Place
  <2>8. C!Release(d)
    BY <2>1, <2>2, <2>3, <2>7 DEF C!Release, Place
  <2> QED
    BY <2>1, <2>8
<1>5. ASSUME NEW m \in Msgs, Arrive(m) PROVE C!Arrive(m)
  <2>1. /\ UNCHANGED <<tmp, copies>> /\ arrived' = arrived \cup {m}
        /\ m \notin arrived
    BY <1>5 DEF Arrive
  <2>2. \A x \in Msgs : (Staged(x)' <=> Staged(x)) /\ (Waiting(x)' <=> Waiting(x) \/ x = m)
    BY <1>5, <2>1, ArriveAdds DEF Staged
  <2>3. \A x \in Msgs : Place(x)' = IF x = m THEN "spool" ELSE Place(x)
    BY <2>1, <2>2 DEF Place
  <2> QED
    BY <2>1, <2>3 DEF C!Arrive, Place
<1> QED
  BY <1>1, <1>2, <1>3, <1>4, <1>5, IdlesKeepMail DEF Next, Step, Idles, C!Next

\* The script implements the mail drop, for any number of runs, messages and
\* faults: what the lock, the && and the order of the loop are there for.
THEOREM KeepsItsCustody ==
  ASSUME LockWorks
  PROVE  Spec => KeepsCustody
<1>1. Init => CursorInv /\ FileInv /\ PlaceInv
  BY IncmailAssumption
  DEF Init, CursorInv, FileInv, PlaceInv, Handling, Waiting, Staged
<1>2. TypeOK /\ CursorInv /\ MutualExclusion /\ FileInv /\ PlaceInv /\ [Next]_vars
        => FileInv' /\ PlaceInv'
  BY FileNext, PlaceNext
<1>3. Init => C!Init
  BY DEF Init, C!Init, Place
<1>4. TypeOK /\ CursorInv /\ MutualExclusion /\ FileInv /\ PlaceInv /\ [Next]_vars
        => [C!Next]_<<Where, copies>>
  BY CustodyStep
<1> QED
  BY <1>1, <1>2, <1>3, <1>4, TypesInductive, LockKeepsApart, PTL
  DEF Spec, KeepsCustody, C!Spec, Where

----------------------------------------------------------------------------
(* The loop over the folder.                                               *)

\* Every number has a pattern that lists it.
LEMMA PatternForEach ==
  ASSUME NEW n \in Nums
  PROVE  \E k \in 1..3 : k \in Patterns(n)
  BY IncmailAssumption DEF Patterns, Nums

\* A step of one run that adds nothing to the folder does not disturb the loop
\* of another; its own is to be shown.
LEMMA LoopOfOthers ==
  ASSUME LoopInv, NEW p \in Procs, \A n \in Nums : tmp'[n] = tmp[n] \/ tmp'[n] = NoMsg,
         \A q \in Procs : q # p => /\ pc'[q] = pc[q] /\ cur'[q] = cur[q]
                                   /\ work'[q] = work[q] /\ tried'[q] = tried[q],
         pc'[p] \in Looping =>
           \A n \in Nums : tmp'[n] # NoMsg =>
             \/ n \in tried'[p]
             \/ \E k \in 1..3 : <<k, n>> \in work'[p]
             \/ pc'[p] = "slocal" /\ n = cur'[p]
  PROVE  LoopInv'
<1> SUFFICES ASSUME NEW q \in Procs, pc'[q] \in Looping, NEW n \in Nums, tmp'[n] # NoMsg
             PROVE  \/ n \in tried'[q]
                    \/ \E k \in 1..3 : <<k, n>> \in work'[q]
                    \/ pc'[q] = "slocal" /\ n = cur'[q]
  BY DEF LoopInv
<1>1. CASE q = p
  BY <1>1
<1>2. CASE q # p
  <2>1. tmp[n] # NoMsg /\ pc[q] \in Looping
    BY <1>2
  <2> QED
    BY <1>2, <2>1 DEF LoopInv
<1> QED
  BY <1>1, <1>2

\* No file gets into the folder, or off the list of a run, without being
\* tried in that run.
LEMMA LoopNext ==
  TypeOK /\ CursorInv /\ MutualExclusion /\ LoopInv /\ [Next]_vars => LoopInv'
<1> SUFFICES ASSUME TypeOK, CursorInv, MutualExclusion, LoopInv, [Next]_vars PROVE LoopInv'
  OBVIOUS
<1> USE DEF Goto
<1>1. ASSUME NEW p \in Procs,
             \/ Launch(p) \/ LockTest(p) \/ Touch(p) \/ IncFails(p) \/ Unlock(p) \/ Crash(p)
      PROVE  LoopInv'
  <2>1. /\ UNCHANGED <<tmp, work, cur, tried>> /\ pc'[p] \notin Looping
        /\ \A q \in Procs : q # p => pc'[q] = pc[q]
    BY <1>1 DEF Launch, LockTest, Touch, IncFails, Unlock, Crash, mail, loop, TypeOK, Looping
  <2> QED
    BY <2>1 DEF LoopInv
<1>2. ASSUME NEW p \in Procs, Inc(p) PROVE LoopInv'
  <2>1. \A q \in Procs : pc'[q] \notin Looping
    BY <1>2 DEF Inc, MutualExclusion, Holding, Looping, TypeOK
  <2> QED
    BY <2>1 DEF LoopInv
<1>3. ASSUME NEW p \in Procs, Glob(p) PROVE LoopInv'
  <2>1. /\ UNCHANGED <<tmp, cur>> /\ pc' = [pc EXCEPT ![p] = "next"]
        /\ tried' = [tried EXCEPT ![p] = {}]
        /\ work' = [work EXCEPT ![p] =
                      {w \in (1..3) \X Nums : tmp[w[2]] # NoMsg /\ w[1] \in Patterns(w[2])}]
    BY <1>3 DEF Glob, mail
  <2>2. ASSUME NEW n \in Nums, tmp[n] # NoMsg PROVE \E k \in 1..3 : <<k, n>> \in work'[p]
    <3>1. PICK k \in 1..3 : k \in Patterns(n)
      BY PatternForEach
    <3>2. <<k, n>> \in work'[p]
      BY <2>1, <2>2, <3>1 DEF TypeOK
    <3> QED
      BY <3>2
  <2> QED
    BY <2>1, <2>2, LoopOfOthers DEF TypeOK
<1>4. ASSUME NEW p \in Procs, TestFile(p) PROVE LoopInv'
  <2>1. PICK w \in work[p] :
          /\ pc[p] = "next"
          /\ pc' = [pc EXCEPT ![p] = IF tmp[w[2]] # NoMsg THEN "slocal" ELSE "next"]
          /\ cur' = [cur EXCEPT ![p] = w[2]]
          /\ work' = [work EXCEPT ![p] = @ \ {w}]
    BY <1>4 DEF TestFile
  <2>2. UNCHANGED <<tmp, tried>>
    BY <1>4 DEF TestFile, mail
  <2>3. ASSUME NEW n \in Nums, tmp[n] # NoMsg
        PROVE  \/ n \in tried[p]
               \/ \E k \in 1..3 : <<k, n>> \in work'[p]
               \/ pc'[p] = "slocal" /\ n = cur'[p]
    <3>1. CASE n \in tried[p]
      BY <3>1
    <3>2. CASE n = w[2]
      BY <2>1, <2>3, <3>2 DEF TypeOK, Nums
    <3>3. CASE n \notin tried[p] /\ n # w[2]
      <4>1. PICK k \in 1..3 : <<k, n>> \in work[p]
        BY <2>1, <2>3, <3>3 DEF LoopInv, Looping
      <4>2. <<k, n>> # w
        BY <3>3
      <4> QED
        BY <2>1, <4>1, <4>2 DEF TypeOK
    <3> QED
      BY <3>1, <3>2, <3>3
  <2> QED
    BY <2>1, <2>2, <2>3, LoopOfOthers DEF TypeOK
<1>5. ASSUME NEW p \in Procs, Deliver(p) \/ DeliverFails(p) PROVE LoopInv'
  <2>1. /\ UNCHANGED <<tmp, work, cur>> /\ pc[p] = "slocal"
        /\ tried' = [tried EXCEPT ![p] = @ \cup {cur[p]}]
        /\ \A q \in Procs : q # p => pc'[q] = pc[q]
    BY <1>5 DEF Deliver, DeliverFails, mail, TypeOK
  <2>2. cur[p] \in tried'[p] /\ \A n \in tried[p] : n \in tried'[p]
    BY <2>1 DEF TypeOK
  <2>3. \A n \in Nums : tmp[n] # NoMsg => n \in tried'[p] \/ \E k \in 1..3 : <<k, n>> \in work[p]
    BY <2>1, <2>2 DEF LoopInv, Looping
  <2> QED
    BY <2>1, <2>3, LoopOfOthers DEF TypeOK
<1>6. ASSUME NEW p \in Procs, Remove(p) \/ RemoveFails(p) PROVE LoopInv'
  <2>1. /\ UNCHANGED <<work, cur, tried>> /\ pc[p] = "rm"
        /\ tmp' = [tmp EXCEPT ![cur[p]] = NoMsg] \/ UNCHANGED tmp
        /\ \A q \in Procs : q # p => pc'[q] = pc[q]
    BY <1>6 DEF Remove, RemoveFails, mail, loop, TypeOK
  <2>2. \A n \in Nums : tmp'[n] = tmp[n] \/ tmp'[n] = NoMsg
    BY <2>1 DEF TypeOK
  <2>3. \A n \in Nums : tmp[n] # NoMsg => n \in tried[p] \/ \E k \in 1..3 : <<k, n>> \in work[p]
    BY <2>1 DEF LoopInv, Looping
  <2> QED
    BY <2>1, <2>2, <2>3, LoopOfOthers
<1>7. CASE ClearStaleLock \/ UNCHANGED vars \/ \E m \in Msgs : Arrive(m)
  BY <1>7 DEF ClearStaleLock, vars, mail, loop, Arrive, LoopInv
<1> QED
  BY <1>1, <1>2, <1>3, <1>4, <1>5, <1>6, <1>7 DEF Next, Step

\* Whatever the numbers of the files, none of them slips through the patterns,
\* and none that a crashed run has left behind is passed over by the next.
THEOREM LoopReachesAll ==
  ASSUME LockWorks
  PROVE  Spec => []EveryMessageTried
<1>1. Init => LoopInv
  BY DEF Init, LoopInv, Looping
<1>2. TypeOK /\ CursorInv /\ MutualExclusion /\ LoopInv /\ [Next]_vars => LoopInv'
  BY LoopNext
<1>3. LoopInv => EveryMessageTried
  BY DEF LoopInv, EveryMessageTried, Looping
<1> QED
  BY <1>1, <1>2, <1>3, TypesInductive, LockKeepsApart, PTL DEF Spec
=============================================================================
