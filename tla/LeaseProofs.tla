---------------------------- MODULE LeaseProofs ----------------------------
(***************************************************************************)
(* Proofs about Lease, for any number of machines and any timings that    *)
(* satisfy the assumptions.                                               *)
(***************************************************************************)
EXTENDS Lease, TLAPS

---------------------------------------------------------------------------
(* The inductive invariant.                                                *)

\* Steps that carry out what a read of the sector decided.
Pending == {"fill", "restart", "drop"} \cup Renewing

\* A process that writes the store, or will without reading the sector again.
Live(m) == \/ pc[m] \in Pending \cup {"taken", "write"}
           \/ pc[m] = "open" /\ age[m] < Trust

\* The sector holds the record of an opener that has not settled yet.
Settling(b) == pc[b] = "settle" /\ Ours(b)

\* An owner's confirmation is younger than its hold on the sector by no more
\* than the time it took to read the clock.
Timers ==
    \A m \in Machines :
        /\ pc[m] = "taken" => t[m] <= TakeMax /\ lost[m] <= t[m]
        /\ pc[m] \in Owning \ {"taken"} => lost[m] <= age[m] + TakeMax
        /\ pc[m] \in Pending => t[m] <= IoMax
        /\ pc[m] = "write" => t[m] <= WriteMax /\ lost[m] < TakeMax + Trust + t[m]

OneLive == \A m, n \in Machines : Live(m) /\ Live(n) => m = n

\* A record that is not settling is the record of the last process that could
\* write: every other one is quiet, but for its own machine's restart.
RecordGuards ==
    sector.kind = "record" /\ (\A b \in Machines : ~Settling(b)) =>
        \A n \in Machines : Ours(n) \/ ~Live(n) \/ (pc[n] = "restart" /\ SameBoot(n, sector))

\* A sector without a record has no owner.
NoRecordNoOwner ==
    sector.kind # "record" =>
        \A n \in Machines : pc[n] \notin Owning /\ (sector.kind = "absent" => ~Live(n))

\* Nobody becomes the owner between the read and the removal of a close.
DropAlone == \A m \in Machines : pc[m] = "drop" => Alone(m)

\* The last taker is the one that holds the sector, or could write.
TakerLive ==
    \A m \in Machines : pc[m] \in Owning /\ (Live(m) \/ Ours(m)) => taker = m

\* While an opener settles, everything decided before its claim has aged as
\* long as it has settled.
SettleOutlasts ==
    \A b, n \in Machines : Settling(b) /\ n # b =>
        /\ pc[n] \in Pending => t[n] >= t[b]
        /\ pc[n] \in Owning => lost[n] >= t[b]

\* What the environment and the timings must grant.
Margin == /\ TakeMax + Trust + WriteMax <= Settle /\ IoMax < Settle
          /\ ~Overlap /\ ~SettleCrash

IInv == /\ TypeOK /\ Timers /\ OneLive /\ RecordGuards /\ NoRecordNoOwner
        /\ DropAlone /\ TakerLive /\ SettleOutlasts

---------------------------------------------------------------------------
(* Types.                                                                  *)

\* The three values of the sector that are not a record (lease_read's absent and
\* unreadable states) are sectors.
LEMMA BlankType == Absent \in Sectors /\ Empty \in Sectors /\ Torn \in Sectors
BY DEF Sectors

\* None of them is taken for a record.
LEMMA BlankKinds == Absent.kind = "absent" /\ Empty.kind = "empty" /\ Torn.kind = "torn"
BY DEF Absent, Empty, Torn, Blank

\* The counter of any sector is a number: that of one without a record is 0.
LEMMA SectorCounter == ASSUME NEW s \in Sectors PROVE s.ctr \in Nat
BY LeaseAssumption DEF Sectors, Records, Absent, Empty, Torn, Blank

\* The record a process encodes is a record.
LEMMA MineType ==
  ASSUME TypeOK, NEW m \in Machines, pc[m] # "off" PROVE Mine(m) \in Sectors
<1>1. opens[m] \in 1 .. MaxOpens /\ ctr[m] \in 1 .. MaxCounter /\ boot[m] \in 0 .. MaxBoots
  BY LeaseAssumption DEF TypeOK, Counted
<1>2. Mine(m) \in Records
  BY <1>1 DEF Mine, Records
<1> QED
  BY <1>2 DEF Sectors

\* What gs_lease_take decides about a lease that is there keeps the types, and
\* the process that decides it has a counter.
LEMMA FoundType ==
  ASSUME TypeOK, NEW m \in Machines, NEW s \in Sectors, Found(m, s)
  PROVE  /\ pc' \in [Machines -> States] /\ t' \in [Machines -> 0 .. Dead]
         /\ ctr' \in [Machines -> 0 .. MaxCounter] /\ seen' \in [Machines -> Sectors]
         /\ pc'[m] # "off" /\ ctr'[m] > 0
         /\ \A n \in Machines \ {m} : pc'[n] = pc[n] /\ ctr'[n] = ctr[n]
<1>1. Raw(s) \in Sectors
  BY BlankType DEF Raw
<1>2. s.ctr \in Nat
  BY SectorCounter
<1> QED
  BY <1>1, <1>2, LeaseAssumption DEF Found, Goto, TypeOK, States, Opening

\* Every step of the protocol keeps the types.
LEMMA TypeStep == TypeOK /\ [Next]_vars => TypeOK'
<1> SUFFICES ASSUME TypeOK, [Next]_vars PROVE TypeOK'
  OBVIOUS
<1> USE LeaseAssumption, BlankType DEF TypeOK, Counted, States, Owning, Opening, Renewing
<1>1. CASE Tick
  BY <1>1 DEF Tick, Later
<1>2. ASSUME NEW m \in Machines, TakeRead(m) PROVE TypeOK'
  BY <1>2, FoundType DEF TakeRead, Goto
<1>3. ASSUME NEW m \in Machines, TakeCreate(m) PROVE TypeOK'
  BY <1>3, FoundType DEF TakeCreate, Goto
<1>4. ASSUME NEW m \in Machines, TakeWrite(m) PROVE TypeOK'
  BY <1>4, MineType DEF TakeWrite, Taken, Goto
<1>5. ASSUME NEW m \in Machines, WatchRefuse(m) PROVE TypeOK'
  BY <1>5 DEF WatchRefuse, Leave, Goto
<1>6. ASSUME NEW m \in Machines, Reread(m) PROVE TypeOK'
  <2>1. seen[m].ctr \in Nat
    BY SectorCounter
  <2> QED
    BY <1>6, <2>1 DEF Reread, Goto
<1>7. ASSUME NEW m \in Machines, ClaimWrite(m) PROVE TypeOK'
  BY <1>7, MineType DEF ClaimWrite, Goto
<1>8. ASSUME NEW m \in Machines, Settled(m) PROVE TypeOK'
  BY <1>8 DEF Settled, Taken, Leave, Goto
<1>9. ASSUME NEW m \in Machines, Confirm(m) PROVE TypeOK'
  BY <1>9 DEF Confirm, Goto
<1>10. ASSUME NEW m \in Machines, Keep(m) PROVE TypeOK'
  BY <1>10 DEF Keep, RenewRead, Goto
<1>11. ASSUME NEW m \in Machines, StoreWrite(m) PROVE TypeOK'
  BY <1>11 DEF StoreWrite, RenewRead, Goto
<1>12. ASSUME NEW m \in Machines, WriteLands(m) PROVE TypeOK'
  BY <1>12 DEF WriteLands, Goto
<1>13. ASSUME NEW m \in Machines, RenewWrite(m) PROVE TypeOK'
  BY <1>13, MineType DEF RenewWrite, RenewDone, Goto
<1>14. ASSUME NEW m \in Machines, RenewCreate(m) PROVE TypeOK'
  BY <1>14 DEF RenewCreate, Goto
<1>15. ASSUME NEW m \in Machines, RenewFails(m) PROVE TypeOK'
  <2>1. Mine(m) \in Sectors
    BY <1>15, MineType DEF RenewFails
  <2>2. sector' \in Sectors /\ lost' \in [Machines -> 0 .. Dead]
    BY <1>15, <2>1 DEF RenewFails
  <2>3. /\ pc' \in [Machines -> States] /\ t' \in [Machines -> 0 .. Dead]
        /\ \A n \in Machines : pc'[n] = "off" <=> pc[n] = "off"
    BY <1>15 DEF RenewFails, Goto
  <2>4. UNCHANGED <<opens, boot, ctr, seen, age, goal, taker>>
    BY <1>15 DEF RenewFails
  <2> QED
    BY <2>2, <2>3, <2>4
<1>16. ASSUME NEW m \in Machines, Close(m) PROVE TypeOK'
  BY <1>16 DEF Close, Leave, Goto
<1>17. ASSUME NEW m \in Machines, Drop(m) PROVE TypeOK'
  BY <1>17 DEF Drop, Leave, Goto
<1>18. ASSUME NEW m \in Machines, FencedExit(m) PROVE TypeOK'
  BY <1>18 DEF FencedExit, Leave, Goto
<1>19. ASSUME NEW m \in Machines, Crash(m) PROVE TypeOK'
  BY <1>19 DEF Crash, Leave, Goto
<1>20. ASSUME NEW m \in Machines, Reboot(m) PROVE TypeOK'
  BY <1>20 DEF Reboot, Leave, Goto
<1>21. CASE UNCHANGED vars
  BY <1>21 DEF vars
<1> QED
  BY <1>1, <1>2, <1>3, <1>4, <1>5, <1>6, <1>7, <1>8, <1>9, <1>10, <1>11, <1>12, <1>13, <1>14, <1>15, <1>16, <1>17, <1>18, <1>19, <1>20, <1>21 DEF Next, TakeStep, OwnerStep, EndStep

---------------------------------------------------------------------------
(* One lemma per conjunct of the invariant, one step per action.            *)

\* fence_check: a write starts on a confirmation younger than trust_ms, or right
\* after a renewal, and lands within WriteMax.
LEMMA TimersStep ==
  ASSUME TypeOK, Timers, [Next]_vars PROVE Timers'
<1> USE LeaseAssumption DEF TypeOK, Timers, States, Owning, Opening, Renewing, Pending
<1>1. CASE Tick
  BY <1>1 DEF Tick, Later, InTime, Timed
<1>2. ASSUME NEW m \in Machines, TakeRead(m) PROVE Timers'
  BY <1>2 DEF TakeRead, Found, Goto
<1>3. ASSUME NEW m \in Machines, TakeCreate(m) PROVE Timers'
  BY <1>3 DEF TakeCreate, Found, Goto
<1>4. ASSUME NEW m \in Machines, TakeWrite(m) PROVE Timers'
  BY <1>4 DEF TakeWrite, Mine, Taken, Goto
<1>5. ASSUME NEW m \in Machines, WatchRefuse(m) PROVE Timers'
  BY <1>5 DEF WatchRefuse, Leave, Goto
<1>6. ASSUME NEW m \in Machines, Reread(m) PROVE Timers'
  BY <1>6 DEF Reread, Goto
<1>7. ASSUME NEW m \in Machines, ClaimWrite(m) PROVE Timers'
  BY <1>7 DEF ClaimWrite, Mine, Goto
<1>8. ASSUME NEW m \in Machines, Settled(m) PROVE Timers'
  BY <1>8 DEF Settled, Taken, Leave, Goto
<1>9. ASSUME NEW m \in Machines, Confirm(m) PROVE Timers'
  BY <1>9 DEF Confirm, Goto
<1>10. ASSUME NEW m \in Machines, Keep(m) PROVE Timers'
  BY <1>10 DEF Keep, RenewRead, Goto
<1>11. ASSUME NEW m \in Machines, StoreWrite(m) PROVE Timers'
  BY <1>11 DEF StoreWrite, RenewRead, Goto
<1>12. ASSUME NEW m \in Machines, WriteLands(m) PROVE Timers'
  BY <1>12 DEF WriteLands, Goto
<1>13. ASSUME NEW m \in Machines, RenewWrite(m) PROVE Timers'
  BY <1>13 DEF RenewWrite, Mine, RenewDone, Goto
<1>14. ASSUME NEW m \in Machines, RenewCreate(m) PROVE Timers'
  BY <1>14 DEF RenewCreate, Goto
<1>15. ASSUME NEW m \in Machines, RenewFails(m) PROVE Timers'
  BY <1>15 DEF RenewFails, Mine, Goto, Sectors
<1>16. ASSUME NEW m \in Machines, Close(m) PROVE Timers'
  BY <1>16 DEF Close, Leave, Goto
<1>17. ASSUME NEW m \in Machines, Drop(m) PROVE Timers'
  BY <1>17 DEF Drop, Leave, Goto
<1>18. ASSUME NEW m \in Machines, FencedExit(m) PROVE Timers'
  BY <1>18 DEF FencedExit, Leave, Goto
<1>19. ASSUME NEW m \in Machines, Crash(m) PROVE Timers'
  BY <1>19 DEF Crash, Leave, Goto
<1>20. ASSUME NEW m \in Machines, Reboot(m) PROVE Timers'
  BY <1>20 DEF Reboot, Leave, Goto
<1>21. CASE UNCHANGED vars
  BY <1>21 DEF vars
<1> QED
  BY <1>1, <1>2, <1>3, <1>4, <1>5, <1>6, <1>7, <1>8, <1>9, <1>10, <1>11, <1>12, <1>13, <1>14, <1>15, <1>16, <1>17, <1>18, <1>19, <1>20, <1>21 DEF Next, TakeStep, OwnerStep, EndStep

\* No step gives a second process the means to write.
LEMMA OneLiveStep ==
  ASSUME Margin, IInv, [Next]_vars PROVE OneLive'
<1> USE LeaseAssumption, BlankKinds DEF Margin, IInv, TypeOK, States, Owning, Opening, Renewing, Pending, Timers, OneLive, RecordGuards, NoRecordNoOwner, SettleOutlasts, Live, Settling
<1>1. CASE Tick
  BY <1>1 DEF Tick, Later, InTime, Timed
<1>2. ASSUME NEW m \in Machines, TakeRead(m) PROVE OneLive'
  BY <1>2 DEF TakeRead, Found, Goto, Ours, SameBoot
<1>3. ASSUME NEW m \in Machines, TakeCreate(m) PROVE OneLive'
  BY <1>3 DEF TakeCreate, Found, Goto, Ours, SameBoot
<1>4. ASSUME NEW m \in Machines, TakeWrite(m) PROVE OneLive'
  BY <1>4 DEF TakeWrite, Mine, Taken, Goto, Ours, SameBoot
<1>5. ASSUME NEW m \in Machines, WatchRefuse(m) PROVE OneLive'
  BY <1>5 DEF WatchRefuse, Leave, Goto, Ours, SameBoot
<1>6. ASSUME NEW m \in Machines, Reread(m) PROVE OneLive'
  BY <1>6 DEF Reread, Goto, Ours, SameBoot
<1>7. ASSUME NEW m \in Machines, ClaimWrite(m) PROVE OneLive'
  BY <1>7 DEF ClaimWrite, Mine, Goto, Ours, SameBoot
<1>8. ASSUME NEW m \in Machines, Settled(m) PROVE OneLive'
  BY <1>8 DEF Settled, Taken, Leave, Goto, Ours, SameBoot
<1>9. ASSUME NEW m \in Machines, Confirm(m) PROVE OneLive'
  BY <1>9 DEF Confirm, Goto, Ours, SameBoot
<1>10. ASSUME NEW m \in Machines, Keep(m) PROVE OneLive'
  BY <1>10 DEF Keep, RenewRead, Goto, Ours, SameBoot
<1>11. ASSUME NEW m \in Machines, StoreWrite(m) PROVE OneLive'
  BY <1>11 DEF StoreWrite, RenewRead, Goto, Ours, SameBoot
<1>12. ASSUME NEW m \in Machines, WriteLands(m) PROVE OneLive'
  BY <1>12 DEF WriteLands, Goto, Ours, SameBoot
<1>13. ASSUME NEW m \in Machines, RenewWrite(m) PROVE OneLive'
  BY <1>13 DEF RenewWrite, Mine, RenewDone, Goto, Ours, SameBoot
<1>14. ASSUME NEW m \in Machines, RenewCreate(m) PROVE OneLive'
  BY <1>14 DEF RenewCreate, Goto, Ours, SameBoot
<1>15. ASSUME NEW m \in Machines, RenewFails(m) PROVE OneLive'
  BY <1>15 DEF RenewFails, Mine, Goto, Ours, SameBoot
<1>16. ASSUME NEW m \in Machines, Close(m) PROVE OneLive'
  BY <1>16 DEF Close, Leave, Goto, Ours, SameBoot, Alone
<1>17. ASSUME NEW m \in Machines, Drop(m) PROVE OneLive'
  BY <1>17 DEF Drop, Leave, Goto, Ours, SameBoot
<1>18. ASSUME NEW m \in Machines, FencedExit(m) PROVE OneLive'
  BY <1>18 DEF FencedExit, Leave, Goto, Ours, SameBoot
<1>19. ASSUME NEW m \in Machines, Crash(m) PROVE OneLive'
  BY <1>19 DEF Crash, Leave, Goto, Ours, SameBoot
<1>20. ASSUME NEW m \in Machines, Reboot(m) PROVE OneLive'
  BY <1>20 DEF Reboot, Leave, Goto, Ours, SameBoot, Alone
<1>21. CASE UNCHANGED vars
  BY <1>21 DEF vars, Ours, SameBoot, Alone
<1> QED
  BY <1>1, <1>2, <1>3, <1>4, <1>5, <1>6, <1>7, <1>8, <1>9, <1>10, <1>11, <1>12, <1>13, <1>14, <1>15, <1>16, <1>17, <1>18, <1>19, <1>20, <1>21 DEF Next, TakeStep, OwnerStep, EndStep

\* A record that settled silences everybody but the process that wrote it.
LEMMA RecordGuardsStep ==
  ASSUME Margin, IInv, [Next]_vars PROVE RecordGuards'
<1> USE LeaseAssumption, BlankKinds DEF Margin, IInv, TypeOK, States, Owning, Opening, Renewing, Pending, Timers, OneLive, RecordGuards, NoRecordNoOwner, SettleOutlasts, Live, Settling
<1>1. CASE Tick
  BY <1>1 DEF Tick, Later, InTime, Timed, Ours, SameBoot
<1>2. ASSUME NEW m \in Machines, TakeRead(m) PROVE RecordGuards'
  BY <1>2 DEF TakeRead, Found, Goto, Ours, SameBoot
<1>3. ASSUME NEW m \in Machines, TakeCreate(m) PROVE RecordGuards'
  BY <1>3 DEF TakeCreate, Found, Goto, Ours, SameBoot
<1>4. ASSUME NEW m \in Machines, TakeWrite(m) PROVE RecordGuards'
  BY <1>4 DEF TakeWrite, Mine, Taken, Goto, Ours, SameBoot
<1>5. ASSUME NEW m \in Machines, WatchRefuse(m) PROVE RecordGuards'
  BY <1>5 DEF WatchRefuse, Leave, Goto, Ours, SameBoot
<1>6. ASSUME NEW m \in Machines, Reread(m) PROVE RecordGuards'
  BY <1>6 DEF Reread, Goto, Ours, SameBoot
<1>7. ASSUME NEW m \in Machines, ClaimWrite(m) PROVE RecordGuards'
  BY <1>7 DEF ClaimWrite, Mine, Goto, Ours, SameBoot
<1>8. ASSUME NEW m \in Machines, Settled(m) PROVE RecordGuards'
  BY <1>8 DEF Settled, Taken, Leave, Goto, Ours, SameBoot
<1>9. ASSUME NEW m \in Machines, Confirm(m) PROVE RecordGuards'
  BY <1>9 DEF Confirm, Goto, Ours, SameBoot
<1>10. ASSUME NEW m \in Machines, Keep(m) PROVE RecordGuards'
  BY <1>10 DEF Keep, RenewRead, Goto, Ours, SameBoot
<1>11. ASSUME NEW m \in Machines, StoreWrite(m) PROVE RecordGuards'
  BY <1>11 DEF StoreWrite, RenewRead, Goto, Ours, SameBoot
<1>12. ASSUME NEW m \in Machines, WriteLands(m) PROVE RecordGuards'
  BY <1>12 DEF WriteLands, Goto, Ours, SameBoot
<1>13. ASSUME NEW m \in Machines, RenewWrite(m) PROVE RecordGuards'
  BY <1>13 DEF RenewWrite, Mine, RenewDone, Goto, Ours, SameBoot
<1>14. ASSUME NEW m \in Machines, RenewCreate(m) PROVE RecordGuards'
  BY <1>14 DEF RenewCreate, Goto, Ours, SameBoot
<1>15. ASSUME NEW m \in Machines, RenewFails(m) PROVE RecordGuards'
  BY <1>15 DEF RenewFails, Mine, Goto, Ours, SameBoot
<1>16. ASSUME NEW m \in Machines, Close(m) PROVE RecordGuards'
  BY <1>16 DEF Close, Leave, Goto, Ours, SameBoot, Alone
<1>17. ASSUME NEW m \in Machines, Drop(m) PROVE RecordGuards'
  BY <1>17 DEF Drop, Leave, Goto, Ours, SameBoot
<1>18. ASSUME NEW m \in Machines, FencedExit(m) PROVE RecordGuards'
  BY <1>18 DEF FencedExit, Leave, Goto, Ours, SameBoot
<1>19. ASSUME NEW m \in Machines, Crash(m) PROVE RecordGuards'
  BY <1>19 DEF Crash, Leave, Goto, Ours, SameBoot
<1>20. ASSUME NEW m \in Machines, Reboot(m) PROVE RecordGuards'
  BY <1>20 DEF Reboot, Leave, Goto, Ours, SameBoot, Alone
<1>21. CASE UNCHANGED vars
  BY <1>21 DEF vars, Ours, SameBoot, Alone
<1> QED
  BY <1>1, <1>2, <1>3, <1>4, <1>5, <1>6, <1>7, <1>8, <1>9, <1>10, <1>11, <1>12, <1>13, <1>14, <1>15, <1>16, <1>17, <1>18, <1>19, <1>20, <1>21 DEF Next, TakeStep, OwnerStep, EndStep

\* The lease is absent or unreadable only while nobody owns the database.
LEMMA NoRecordNoOwnerStep ==
  ASSUME Margin, IInv, [Next]_vars PROVE NoRecordNoOwner'
<1> USE LeaseAssumption, BlankKinds DEF Margin, IInv, TypeOK, States, Owning, Opening, Renewing, Pending, Timers, OneLive, NoRecordNoOwner, DropAlone, Live
<1>1. CASE Tick
  BY <1>1 DEF Tick, Later, InTime, Timed
<1>2. ASSUME NEW m \in Machines, TakeRead(m) PROVE NoRecordNoOwner'
  BY <1>2 DEF TakeRead, Found, Goto, Ours, SameBoot
<1>3. ASSUME NEW m \in Machines, TakeCreate(m) PROVE NoRecordNoOwner'
  BY <1>3 DEF TakeCreate, Found, Goto, Ours, SameBoot
<1>4. ASSUME NEW m \in Machines, TakeWrite(m) PROVE NoRecordNoOwner'
  BY <1>4 DEF TakeWrite, Mine, Taken, Goto, Ours, SameBoot
<1>5. ASSUME NEW m \in Machines, WatchRefuse(m) PROVE NoRecordNoOwner'
  BY <1>5 DEF WatchRefuse, Leave, Goto, Ours, SameBoot
<1>6. ASSUME NEW m \in Machines, Reread(m) PROVE NoRecordNoOwner'
  BY <1>6 DEF Reread, Goto, Ours, SameBoot
<1>7. ASSUME NEW m \in Machines, ClaimWrite(m) PROVE NoRecordNoOwner'
  BY <1>7 DEF ClaimWrite, Mine, Goto, Ours, SameBoot
<1>8. ASSUME NEW m \in Machines, Settled(m) PROVE NoRecordNoOwner'
  BY <1>8 DEF Settled, Taken, Leave, Goto, Ours, SameBoot
<1>9. ASSUME NEW m \in Machines, Confirm(m) PROVE NoRecordNoOwner'
  BY <1>9 DEF Confirm, Goto, Ours, SameBoot
<1>10. ASSUME NEW m \in Machines, Keep(m) PROVE NoRecordNoOwner'
  BY <1>10 DEF Keep, RenewRead, Goto, Ours, SameBoot
<1>11. ASSUME NEW m \in Machines, StoreWrite(m) PROVE NoRecordNoOwner'
  BY <1>11 DEF StoreWrite, RenewRead, Goto, Ours, SameBoot
<1>12. ASSUME NEW m \in Machines, WriteLands(m) PROVE NoRecordNoOwner'
  BY <1>12 DEF WriteLands, Goto, Ours, SameBoot
<1>13. ASSUME NEW m \in Machines, RenewWrite(m) PROVE NoRecordNoOwner'
  BY <1>13 DEF RenewWrite, Mine, RenewDone, Goto, Ours, SameBoot
<1>14. ASSUME NEW m \in Machines, RenewCreate(m) PROVE NoRecordNoOwner'
  BY <1>14 DEF RenewCreate, Goto, Ours, SameBoot
<1>15. ASSUME NEW m \in Machines, RenewFails(m) PROVE NoRecordNoOwner'
  BY <1>15 DEF RenewFails, Mine, Goto, Ours, SameBoot
<1>16. ASSUME NEW m \in Machines, Close(m) PROVE NoRecordNoOwner'
  BY <1>16 DEF Close, Leave, Goto, Ours, Alone
<1>17. ASSUME NEW m \in Machines, Drop(m) PROVE NoRecordNoOwner'
  BY <1>17 DEF Drop, Leave, Goto, Ours, Alone
<1>18. ASSUME NEW m \in Machines, FencedExit(m) PROVE NoRecordNoOwner'
  BY <1>18 DEF FencedExit, Leave, Goto, Ours, SameBoot
<1>19. ASSUME NEW m \in Machines, Crash(m) PROVE NoRecordNoOwner'
  BY <1>19 DEF Crash, Leave, Goto, Ours, SameBoot
<1>20. ASSUME NEW m \in Machines, Reboot(m) PROVE NoRecordNoOwner'
  BY <1>20 DEF Reboot, Leave, Goto, Ours, Alone
<1>21. CASE UNCHANGED vars
  BY <1>21 DEF vars, Ours, SameBoot, Alone
<1> QED
  BY <1>1, <1>2, <1>3, <1>4, <1>5, <1>6, <1>7, <1>8, <1>9, <1>10, <1>11, <1>12, <1>13, <1>14, <1>15, <1>16, <1>17, <1>18, <1>19, <1>20, <1>21 DEF Next, TakeStep, OwnerStep, EndStep

\* gs_lease_close removes the lease before another owner can exist.
LEMMA DropAloneStep ==
  ASSUME Margin, IInv, [Next]_vars PROVE DropAlone'
<1> USE LeaseAssumption, BlankKinds DEF Margin, IInv, TypeOK, States, Owning, Opening, Renewing, Pending, Timers, OneLive, DropAlone, SettleOutlasts, Live, Settling, Alone
<1>1. CASE Tick
  BY <1>1 DEF Tick, Later, InTime, Timed
<1>2. ASSUME NEW m \in Machines, TakeRead(m) PROVE DropAlone'
  BY <1>2 DEF TakeRead, Found, Goto, Ours, SameBoot
<1>3. ASSUME NEW m \in Machines, TakeCreate(m) PROVE DropAlone'
  BY <1>3 DEF TakeCreate, Found, Goto, Ours, SameBoot
<1>4. ASSUME NEW m \in Machines, TakeWrite(m) PROVE DropAlone'
  BY <1>4 DEF TakeWrite, Mine, Taken, Goto, Ours, SameBoot
<1>5. ASSUME NEW m \in Machines, WatchRefuse(m) PROVE DropAlone'
  BY <1>5 DEF WatchRefuse, Leave, Goto, Ours, SameBoot
<1>6. ASSUME NEW m \in Machines, Reread(m) PROVE DropAlone'
  BY <1>6 DEF Reread, Goto, Ours, SameBoot
<1>7. ASSUME NEW m \in Machines, ClaimWrite(m) PROVE DropAlone'
  BY <1>7 DEF ClaimWrite, Mine, Goto, Ours, SameBoot
<1>8. ASSUME NEW m \in Machines, Settled(m) PROVE DropAlone'
  BY <1>8 DEF Settled, Taken, Leave, Goto, Ours, SameBoot
<1>9. ASSUME NEW m \in Machines, Confirm(m) PROVE DropAlone'
  BY <1>9 DEF Confirm, Goto, Ours, SameBoot
<1>10. ASSUME NEW m \in Machines, Keep(m) PROVE DropAlone'
  BY <1>10 DEF Keep, RenewRead, Goto, Ours, SameBoot
<1>11. ASSUME NEW m \in Machines, StoreWrite(m) PROVE DropAlone'
  BY <1>11 DEF StoreWrite, RenewRead, Goto, Ours, SameBoot
<1>12. ASSUME NEW m \in Machines, WriteLands(m) PROVE DropAlone'
  BY <1>12 DEF WriteLands, Goto, Ours, SameBoot
<1>13. ASSUME NEW m \in Machines, RenewWrite(m) PROVE DropAlone'
  BY <1>13 DEF RenewWrite, Mine, RenewDone, Goto, Ours, SameBoot
<1>14. ASSUME NEW m \in Machines, RenewCreate(m) PROVE DropAlone'
  BY <1>14 DEF RenewCreate, Goto, Ours, SameBoot
<1>15. ASSUME NEW m \in Machines, RenewFails(m) PROVE DropAlone'
  BY <1>15 DEF RenewFails, Mine, Goto, Ours, SameBoot
<1>16. ASSUME NEW m \in Machines, Close(m) PROVE DropAlone'
  BY <1>16 DEF Close, Leave, Goto, Ours, SameBoot, Alone
<1>17. ASSUME NEW m \in Machines, Drop(m) PROVE DropAlone'
  BY <1>17 DEF Drop, Leave, Goto, Ours, SameBoot
<1>18. ASSUME NEW m \in Machines, FencedExit(m) PROVE DropAlone'
  BY <1>18 DEF FencedExit, Leave, Goto, Ours, SameBoot
<1>19. ASSUME NEW m \in Machines, Crash(m) PROVE DropAlone'
  BY <1>19 DEF Crash, Leave, Goto, Ours, SameBoot
<1>20. ASSUME NEW m \in Machines, Reboot(m) PROVE DropAlone'
  BY <1>20 DEF Reboot, Leave, Goto, Ours, SameBoot, Alone
<1>21. CASE UNCHANGED vars
  BY <1>21 DEF vars, Ours, SameBoot, Alone
<1> QED
  BY <1>1, <1>2, <1>3, <1>4, <1>5, <1>6, <1>7, <1>8, <1>9, <1>10, <1>11, <1>12, <1>13, <1>14, <1>15, <1>16, <1>17, <1>18, <1>19, <1>20, <1>21 DEF Next, TakeStep, OwnerStep, EndStep

\* Only the last process to take the lease can write or holds the sector.
LEMMA TakerLiveStep ==
  ASSUME Margin, IInv, [Next]_vars PROVE TakerLive'
<1> USE LeaseAssumption, BlankKinds DEF Margin, IInv, TypeOK, States, Owning, Opening, Renewing, Pending, Timers, OneLive, TakerLive, NoRecordNoOwner, RecordGuards, SettleOutlasts, Live, Settling
<1>1. CASE Tick
  BY <1>1 DEF Tick, Later, InTime, Timed, Ours
<1>2. ASSUME NEW m \in Machines, TakeRead(m) PROVE TakerLive'
  BY <1>2 DEF TakeRead, Found, Goto, Ours, SameBoot
<1>3. ASSUME NEW m \in Machines, TakeCreate(m) PROVE TakerLive'
  BY <1>3 DEF TakeCreate, Found, Goto, Ours, SameBoot
<1>4. ASSUME NEW m \in Machines, TakeWrite(m) PROVE TakerLive'
  BY <1>4 DEF TakeWrite, Mine, Taken, Goto, Ours, SameBoot
<1>5. ASSUME NEW m \in Machines, WatchRefuse(m) PROVE TakerLive'
  BY <1>5 DEF WatchRefuse, Leave, Goto, Ours, SameBoot
<1>6. ASSUME NEW m \in Machines, Reread(m) PROVE TakerLive'
  BY <1>6 DEF Reread, Goto, Ours, SameBoot
<1>7. ASSUME NEW m \in Machines, ClaimWrite(m) PROVE TakerLive'
  BY <1>7 DEF ClaimWrite, Mine, Goto, Ours, SameBoot
<1>8. ASSUME NEW m \in Machines, Settled(m) PROVE TakerLive'
  BY <1>8 DEF Settled, Taken, Leave, Goto, Ours, SameBoot
<1>9. ASSUME NEW m \in Machines, Confirm(m) PROVE TakerLive'
  BY <1>9 DEF Confirm, Goto, Ours, SameBoot
<1>10. ASSUME NEW m \in Machines, Keep(m) PROVE TakerLive'
  BY <1>10 DEF Keep, RenewRead, Goto, Ours, SameBoot
<1>11. ASSUME NEW m \in Machines, StoreWrite(m) PROVE TakerLive'
  BY <1>11 DEF StoreWrite, RenewRead, Goto, Ours, SameBoot
<1>12. ASSUME NEW m \in Machines, WriteLands(m) PROVE TakerLive'
  BY <1>12 DEF WriteLands, Goto, Ours, SameBoot
<1>13. ASSUME NEW m \in Machines, RenewWrite(m) PROVE TakerLive'
  BY <1>13 DEF RenewWrite, Mine, RenewDone, Goto, Ours, SameBoot
<1>14. ASSUME NEW m \in Machines, RenewCreate(m) PROVE TakerLive'
  BY <1>14 DEF RenewCreate, Goto, Ours, SameBoot
<1>15. ASSUME NEW m \in Machines, RenewFails(m) PROVE TakerLive'
  BY <1>15 DEF RenewFails, Mine, Goto, Ours, SameBoot
<1>16. ASSUME NEW m \in Machines, Close(m) PROVE TakerLive'
  BY <1>16 DEF Close, Leave, Goto, Ours, SameBoot, Alone
<1>17. ASSUME NEW m \in Machines, Drop(m) PROVE TakerLive'
  BY <1>17 DEF Drop, Leave, Goto, Ours, SameBoot
<1>18. ASSUME NEW m \in Machines, FencedExit(m) PROVE TakerLive'
  BY <1>18 DEF FencedExit, Leave, Goto, Ours, SameBoot
<1>19. ASSUME NEW m \in Machines, Crash(m) PROVE TakerLive'
  BY <1>19 DEF Crash, Leave, Goto, Ours, SameBoot
<1>20. ASSUME NEW m \in Machines, Reboot(m) PROVE TakerLive'
  BY <1>20 DEF Reboot, Leave, Goto, Ours, SameBoot, Alone
<1>21. CASE UNCHANGED vars
  BY <1>21 DEF vars, Ours, SameBoot, Alone
<1> QED
  BY <1>1, <1>2, <1>3, <1>4, <1>5, <1>6, <1>7, <1>8, <1>9, <1>10, <1>11, <1>12, <1>13, <1>14, <1>15, <1>16, <1>17, <1>18, <1>19, <1>20, <1>21 DEF Next, TakeStep, OwnerStep, EndStep

\* gs_lease_take's settling is measured on the same clock as what it waits out.
LEMMA SettleOutlastsStep ==
  ASSUME Margin, IInv, [Next]_vars PROVE SettleOutlasts'
<1> USE LeaseAssumption, BlankKinds DEF Margin, IInv, TypeOK, States, Owning, Opening, Renewing, Pending, Timers, OneLive, SettleOutlasts, Live, Settling
<1>1. CASE Tick
  BY <1>1 DEF Tick, Later, InTime, Timed, Ours
<1>2. ASSUME NEW m \in Machines, TakeRead(m) PROVE SettleOutlasts'
  BY <1>2 DEF TakeRead, Found, Goto, Ours, SameBoot
<1>3. ASSUME NEW m \in Machines, TakeCreate(m) PROVE SettleOutlasts'
  BY <1>3 DEF TakeCreate, Found, Goto, Ours, SameBoot
<1>4. ASSUME NEW m \in Machines, TakeWrite(m) PROVE SettleOutlasts'
  BY <1>4 DEF TakeWrite, Mine, Taken, Goto, Ours, SameBoot
<1>5. ASSUME NEW m \in Machines, WatchRefuse(m) PROVE SettleOutlasts'
  BY <1>5 DEF WatchRefuse, Leave, Goto, Ours, SameBoot
<1>6. ASSUME NEW m \in Machines, Reread(m) PROVE SettleOutlasts'
  BY <1>6 DEF Reread, Goto, Ours, SameBoot
<1>7. ASSUME NEW m \in Machines, ClaimWrite(m) PROVE SettleOutlasts'
  BY <1>7 DEF ClaimWrite, Mine, Goto, Ours, SameBoot
<1>8. ASSUME NEW m \in Machines, Settled(m) PROVE SettleOutlasts'
  BY <1>8 DEF Settled, Taken, Leave, Goto, Ours, SameBoot
<1>9. ASSUME NEW m \in Machines, Confirm(m) PROVE SettleOutlasts'
  BY <1>9 DEF Confirm, Goto, Ours, SameBoot
<1>10. ASSUME NEW m \in Machines, Keep(m) PROVE SettleOutlasts'
  BY <1>10 DEF Keep, RenewRead, Goto, Ours, SameBoot
<1>11. ASSUME NEW m \in Machines, StoreWrite(m) PROVE SettleOutlasts'
  BY <1>11 DEF StoreWrite, RenewRead, Goto, Ours, SameBoot
<1>12. ASSUME NEW m \in Machines, WriteLands(m) PROVE SettleOutlasts'
  BY <1>12 DEF WriteLands, Goto, Ours, SameBoot
<1>13. ASSUME NEW m \in Machines, RenewWrite(m) PROVE SettleOutlasts'
  BY <1>13 DEF RenewWrite, Mine, RenewDone, Goto, Ours, SameBoot
<1>14. ASSUME NEW m \in Machines, RenewCreate(m) PROVE SettleOutlasts'
  BY <1>14 DEF RenewCreate, Goto, Ours, SameBoot
<1>15. ASSUME NEW m \in Machines, RenewFails(m) PROVE SettleOutlasts'
  BY <1>15 DEF RenewFails, Mine, Goto, Ours, SameBoot
<1>16. ASSUME NEW m \in Machines, Close(m) PROVE SettleOutlasts'
  BY <1>16 DEF Close, Leave, Goto, Ours, SameBoot, Alone
<1>17. ASSUME NEW m \in Machines, Drop(m) PROVE SettleOutlasts'
  BY <1>17 DEF Drop, Leave, Goto, Ours, SameBoot
<1>18. ASSUME NEW m \in Machines, FencedExit(m) PROVE SettleOutlasts'
  BY <1>18 DEF FencedExit, Leave, Goto, Ours, SameBoot
<1>19. ASSUME NEW m \in Machines, Crash(m) PROVE SettleOutlasts'
  BY <1>19 DEF Crash, Leave, Goto, Ours, SameBoot
<1>20. ASSUME NEW m \in Machines, Reboot(m) PROVE SettleOutlasts'
  BY <1>20 DEF Reboot, Leave, Goto, Ours, SameBoot, Alone
<1>21. CASE UNCHANGED vars
  BY <1>21 DEF vars, Ours, SameBoot, Alone
<1> QED
  BY <1>1, <1>2, <1>3, <1>4, <1>5, <1>6, <1>7, <1>8, <1>9, <1>10, <1>11, <1>12, <1>13, <1>14, <1>15, <1>16, <1>17, <1>18, <1>19, <1>20, <1>21 DEF Next, TakeStep, OwnerStep, EndStep

---------------------------------------------------------------------------
(* Theorems.                                                               *)

\* The variables keep their types: gs_lease_take, renew and gs_lease_close never
\* leave a process, a counter or the sector outside its domain.
THEOREM TypeCorrect == Spec => []TypeOK
<1>1. Init => TypeOK
  BY LeaseAssumption, BlankType DEF Init, TypeOK, Counted, States
<1> QED
  BY <1>1, TypeStep, PTL DEF Spec

\* For every environment, pauses, crashes, removed and torn leases included, the
\* fence bounds how long an owner that lost the lease goes on writing: trust_ms,
\* the time of one write (fence_check), and what gs_lease_take lost between the
\* access that took the lease and the clock reading that confirmed it.  Timers
\* saturate at dead_ms, so it says something where that sum is at most dead_ms.
THEOREM StaleWindowHolds == Spec => []StaleWindow
<1>1. Init => TypeOK /\ Timers
  <2> SUFFICES ASSUME Init PROVE TypeOK /\ Timers
    OBVIOUS
  <2>1. TypeOK
    BY LeaseAssumption, BlankType DEF Init, TypeOK, Counted, States
  <2>2. Timers
    BY DEF Init, Timers, Owning, Renewing, Pending
  <2> QED
    BY <2>1, <2>2
<1>2. TypeOK /\ Timers /\ [Next]_vars => (TypeOK /\ Timers)'
  BY TypeStep, TimersStep
<1>3. TypeOK /\ Timers => StaleWindow
  BY LeaseAssumption DEF TypeOK, Timers, StaleWindow
<1> QED
  BY <1>1, <1>2, <1>3, PTL DEF Spec

\* The invariant holds of every behaviour with the margin.
LEMMA Invariance == Margin => (Spec => []IInv)
<1> SUFFICES ASSUME Margin PROVE Spec => []IInv
  OBVIOUS
<1>1. Init => IInv
  <2> SUFFICES ASSUME Init PROVE IInv
    OBVIOUS
  <2>1. TypeOK
    BY LeaseAssumption, BlankType DEF Init, TypeOK, Counted, States
  <2>2. Timers /\ OneLive /\ RecordGuards /\ NoRecordNoOwner /\ DropAlone /\ TakerLive /\ SettleOutlasts
    BY BlankKinds DEF Init, Timers, OneLive, RecordGuards, NoRecordNoOwner, DropAlone, TakerLive,
                      SettleOutlasts, Live, Settling, Owning, Renewing, Pending
  <2> QED
    BY <2>1, <2>2 DEF IInv
<1>2. IInv /\ [Next]_vars => IInv'
  <2> SUFFICES ASSUME IInv, [Next]_vars PROVE IInv'
    OBVIOUS
  <2>1. TypeOK' /\ Timers'
    BY TypeStep, TimersStep DEF IInv
  <2>2. OneLive' /\ RecordGuards' /\ NoRecordNoOwner'
    BY OneLiveStep, RecordGuardsStep, NoRecordNoOwnerStep
  <2>3. DropAlone' /\ TakerLive' /\ SettleOutlasts'
    BY DropAloneStep, TakerLiveStep, SettleOutlastsStep
  <2> QED
    BY <2>1, <2>2, <2>3 DEF IInv
<1> QED
  BY <1>1, <1>2, PTL DEF Spec

\* One owner per database, for any number of machines: when settle_ms covers the
\* confirmation of a lease just taken, trust_ms and one write, a replaced owner is
\* gone before its successor lets the lease go, and no opener dies between its
\* claim and its settling read, no two machines are ever in a position to write at
\* once.  lease_stall.cfg, lease_shipped.cfg and lease_restart.cfg show that each of
\* the first and the last condition is needed.
THEOREM OneWriterHolds == Margin => (Spec => []OneWriter)
<1> SUFFICES ASSUME Margin PROVE Spec => []OneWriter
  OBVIOUS
<1>1. IInv => OneWriter
  BY DEF IInv, OneLive, OneWriter, Armed, Live
<1> QED
  BY <1>1, Invariance, PTL

\* Under the same margin an owner that was replaced never lands another write,
\* so what it holds in memory of the files never reaches them (renew, fence).
THEOREM TakenNeverWritesHolds == Margin => (Spec => []TakenNeverWrites)
<1> SUFFICES ASSUME Margin PROVE Spec => []TakenNeverWrites
  OBVIOUS
<1>1. IInv => TakenNeverWrites
  BY DEF IInv, TakerLive, TakenNeverWrites, Live, Owning
<1> QED
  BY <1>1, Invariance, PTL
=============================================================================
