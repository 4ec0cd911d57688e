-------------------------- MODULE ChatOutboxProofs --------------------------
(***************************************************************************)
(* Proofs about ChatOutbox, for any number of rows and any panels.         *)
(***************************************************************************)
EXTENDS ChatOutbox, TLAPS

USE RowsAssumption, FlagAssumption, BoundAssumption

-----------------------------------------------------------------------------
(* What the writes do to the table.                                        *)

\* An UPDATE gives the rows it hits the new status and leaves the others.
LEMMA UpdateEffect ==
  ASSUME TypeOK, NEW rs \in SUBSET Rows, NEW st \in Statuses,
         NEW wait \in SUBSET Rows, Update(rs, st, wait)
  PROVE  /\ db' \in [Rows -> Statuses] /\ waiting' \subseteq Rows
         /\ \A r \in Rows : db'[r] = IF r \in rs /\ Present(r) THEN st ELSE db[r]
  BY DEF Update, TypeOK, Present

\* A DELETE takes its row away and leaves the others.
LEMMA RemoveEffect ==
  ASSUME TypeOK, NEW x \in Rows, Remove(x)
  PROVE  /\ db' \in [Rows -> Statuses] /\ waiting' \subseteq Rows
         /\ db'[x] = "gone"
         /\ \A r \in Rows \ {x} : db'[r] = db[r]
  BY DEF Remove, TypeOK, Statuses

\* No row is listed that is not in the table.
LEMMA ListedRows ==
  /\ \A status : Listed(status) \subseteq Rows
  /\ Eligible \subseteq Rows
  /\ \A r \in Eligible : db[r] \in {"queued", "failed", "sending"}
  /\ \A r \in Listed("sending") : db[r] = "sending"
  BY DEF Listed, Eligible

-----------------------------------------------------------------------------
(* Types.                                                                  *)

\* drainOnce() and the load keep the types of the drains, and what a panel
\* holds.
LEMMA BeginType ==
  ASSUME TypeOK, NEW p \in Panels, NEW on,
         DrainOnce(p, on) \/ Load(p)
  PROVE  /\ drain' \in [Panels -> Drain]
         /\ \A q \in Panels : drain'[q].pc \in Holding
              => drain'[q] = drain[q]
<1>1. ASSUME NEW young \in SUBSET Eligible
      PROVE  Begin(young) \in Drain /\ Begin(young).pc \notin Holding
  <2>1. Listed("sending") \subseteq Rows /\ young \subseteq Rows
    BY ListedRows
  <2> QED BY <2>1 DEF Begin, Drain, DrainPc, Holding, Flying, Settling
<1>2. [Begin({}) EXCEPT !.pc = "load"] \in Drain
  <2>1. Begin({}) \in Drain
    BY <1>1
  <2> QED BY <2>1 DEF Drain, DrainPc
<1>3. ASSUME NEW d \in Drain, d.pc \notin Holding, drain' = [drain EXCEPT ![p] = d]
      PROVE  /\ drain' \in [Panels -> Drain]
             /\ \A q \in Panels : drain'[q].pc \in Holding => drain'[q] = drain[q]
  BY <1>3 DEF TypeOK
<1>4. [Begin({}) EXCEPT !.pc = "load"].pc = "load"
  BY DEF Begin
<1>5. CASE UNCHANGED drain
  BY <1>5 DEF TypeOK
<1> QED BY <1>1, <1>2, <1>3, <1>4, <1>5
        DEF DrainOnce, Load, Holding, Flying, Settling

\* A step of a panel keeps every variable in its type.
LEMMA PanelType == TypeOK /\ PanelNext => TypeOK'
<1> SUFFICES ASSUME TypeOK, PanelNext PROVE TypeOK'
  OBVIOUS
<1>1. ASSUME NEW p \in Panels, Mount(p) PROVE TypeOK'
  <2>1. PICK on \in BOOLEAN : /\ ready' = [ready EXCEPT ![p] = on]
                              /\ DrainOnce(p, on) \/ Load(p)
    BY <1>1 DEF Mount
  <2> QED BY <1>1, <2>1, BeginType DEF Mount, TypeOK
<1>2. ASSUME NEW p \in Panels, Unmount(p) PROVE TypeOK'
  BY <1>2 DEF Unmount, TypeOK
<1>3. ASSUME NEW p \in Panels, Availability(p) PROVE TypeOK'
  <2>1. ready' \in [Panels -> BOOLEAN]
    BY <1>3, Zenon DEF Availability, TypeOK
  <2>2. DrainOnce(p, ready'[p])
    BY <1>3 DEF Availability
  <2> QED BY <1>3, <2>1, <2>2, BeginType DEF Availability, TypeOK
<1>4. ASSUME NEW p \in Panels, Request(p) PROVE TypeOK'
  <2>1. DrainOnce(p, TRUE)
    BY <1>4 DEF Request
  <2> QED BY <1>4, <2>1, BeginType DEF Request, TypeOK
<1>5. ASSUME NEW p \in Panels, AskedDrain(p) PROVE TypeOK'
  <2>1. DrainOnce(p, ready[p])
    BY <1>5 DEF AskedDrain
  <2> QED BY <1>5, <2>1, BeginType DEF AskedDrain, TypeOK
<1>6. ASSUME NEW p \in Panels, NEW r \in Rows, Queue(p, r) PROVE TypeOK'
  <2>1. asked' \in [Panels -> BOOLEAN]
    BY <1>6, Zenon DEF Queue, TypeOK
  <2> QED BY <1>6, <2>1 DEF Queue, TypeOK, Statuses
<1>7. ASSUME NEW p \in Panels, NEW r \in Rows, Retry(p, r) PROVE TypeOK'
  <2>1. db' \in [Rows -> Statuses] /\ waiting' \subseteq Rows
    <3>1. Update({r}, "queued", {}) /\ {r} \in SUBSET Rows /\ {} \in SUBSET Rows
      BY <1>7 DEF Retry
    <3> QED BY <3>1, UpdateEffect DEF Statuses
  <2> QED BY <1>7, <2>1 DEF Retry, TypeOK
<1>8. ASSUME NEW p \in Panels, NEW r \in Rows, Cancel(p, r) PROVE TypeOK'
  BY <1>8, RemoveEffect DEF Cancel, TypeOK
<1>9. CASE Reload
  <2>1. NoDrain \in Drain /\ NoDrain.pc \notin Holding
    BY DEF NoDrain, Drain, DrainPc, Holding, Flying, Settling
  <2> QED BY <1>9, <2>1 DEF Reload, Fault, TypeOK
<1> QED BY <1>1, <1>2, <1>3, <1>4, <1>5, <1>6, <1>7, <1>8, <1>9 DEF PanelNext

\* Where a drain may go from where it is.
LEMMA DrainMoves ==
  ASSUME TypeOK, NEW p \in Panels,
         \/ EndDrain(p) \/ NextRow(p)
         \/ \E pc \in DrainPc : /\ Goto(p, pc)
                                /\ pc \in Holding => drain[p].pc \in Holding
  PROVE  /\ drain' \in [Panels -> Drain]
         /\ \A q \in Panels : drain'[q].pc \in Holding
              => drain[q].pc \in Holding /\ drain'[q].row = drain[q].row
<1>1. NoDrain \in Drain /\ NoDrain.pc \notin Holding
  BY DEF NoDrain, Drain, DrainPc, Holding, Flying, Settling
<1>2. CASE EndDrain(p)
  BY <1>1, <1>2 DEF EndDrain, TypeOK
<1>3. CASE NextRow(p)
  <2> DEFINE d == [drain[p] EXCEPT !.pc = "loop", !.row = None]
  <2>1. drain' = [drain EXCEPT ![p] = d]
    BY <1>3 DEF NextRow, TypeOK
  <2>2. d \in Drain /\ d.pc \notin Holding
    <3>1. drain[p] \in Drain
      BY DEF TypeOK
    <3> QED BY <3>1 DEF Drain, DrainPc, Holding, Flying, Settling
  <2> HIDE DEF d
  <2> QED BY <2>1, <2>2 DEF TypeOK
<1>4. ASSUME NEW pc \in DrainPc, Goto(p, pc), pc \in Holding => drain[p].pc \in Holding
      PROVE  /\ drain' \in [Panels -> Drain]
             /\ \A q \in Panels : drain'[q].pc \in Holding
                  => drain[q].pc \in Holding /\ drain'[q].row = drain[q].row
  BY <1>4 DEF Goto, TypeOK, Drain
<1> QED BY <1>2, <1>3, <1>4

\* A drain changes its place by one of three ways, except where it begins the
\* loop or takes a row.
LEMMA DrainTypeByMove ==
  ASSUME TypeOK, NEW p \in Panels,
         \/ EndDrain(p) \/ NextRow(p)
         \/ \E pc \in DrainPc : /\ Goto(p, pc)
                                /\ pc \in Holding => drain[p].pc \in Holding,
         UnchangedPanels, db' \in [Rows -> Statuses], waiting' \subseteq Rows,
         acked' \subseteq Rows, ended' \subseteq Rows, faults' \in 0..MaxFaults
  PROVE  TypeOK'
  BY DrainMoves DEF UnchangedPanels, TypeOK

\* A step of a drain keeps every variable in its type.
LEMMA DrainType == TypeOK /\ DrainNext => TypeOK'
<1> SUFFICES ASSUME TypeOK, NEW p \in Panels,
                    \/ Recover(p) \/ RecoverFails(p) \/ Drained(p)
                    \/ \E r \in Rows : PickRow(p, r) \/ Quarantine(p, r)
                    \/ Transmit(p) \/ MarkFails(p) \/ Sent(p) \/ SendFails(p)
                    \/ Removed(p) \/ RemoveFails(p) \/ Blocked(p) \/ BlockFails(p)
                    \/ FailureRecorded(p) \/ RecordFails(p)
             PROVE  TypeOK'
  BY DEF DrainNext
<1> DEFINE Row == drain[p].row
<1>a. drain[p] \in Drain /\ drain[p].stuck \subseteq Rows /\ drain[p].todo \subseteq Rows
  BY DEF TypeOK, Drain
<1>b. drain[p].pc \in Holding => Row \in Rows \ Legacy
  BY DEF TypeOK
<1>c. /\ {"send", "remove", "block", "fail", "turn"} \subseteq DrainPc \cap Holding
      /\ {"queued", "blocked", "sending", "failed"} \subseteq Statuses
  BY DEF DrainPc, Holding, Flying, Settling, Statuses
<1>d. Fault => faults' \in 0..MaxFaults
  BY DEF Fault, TypeOK
<1>e. UnchangedTable => db' \in [Rows -> Statuses] /\ waiting' \subseteq Rows
  BY DEF UnchangedTable, TypeOK
<1>f. acked \subseteq Rows /\ ended \subseteq Rows /\ faults \in 0..MaxFaults
  BY DEF TypeOK
<1> HIDE DEF Row
<1>1. CASE Recover(p)
  <2>1. db' \in [Rows -> Statuses] /\ waiting' \subseteq Rows
    <3>1. Update(drain[p].stuck, "queued", {}) /\ {} \in SUBSET Rows
      BY <1>1 DEF Recover
    <3> QED BY <1>a, <1>c, <3>1, UpdateEffect
  <2>2. /\ drain' \in [Panels -> Drain]
        /\ \A q \in Panels : drain'[q].pc \in Holding => drain'[q] = drain[q]
    BY <1>1, <1>a DEF Recover, TypeOK, NoDrain, Drain, DrainPc, Holding, Flying, Settling
  <2> QED BY <1>1, <2>1, <2>2 DEF Recover, UnchangedPanels, TypeOK
<1>2. CASE RecoverFails(p)
  <2>1. PICK written \in SUBSET drain[p].stuck : Update(written, "queued", {})
    BY <1>2 DEF RecoverFails
  <2>2. db' \in [Rows -> Statuses] /\ waiting' \subseteq Rows
    BY <1>a, <1>c, <2>1, UpdateEffect
  <2> QED BY <1>2, <1>d, <1>f, <2>2, DrainTypeByMove DEF RecoverFails
<1>3. CASE Drained(p)
  BY <1>3, <1>e, <1>f, DrainTypeByMove DEF Drained
<1>4. ASSUME NEW r \in Rows, PickRow(p, r) PROVE TypeOK'
  <2>1. /\ drain' \in [Panels -> Drain]
        /\ drain'[p].row = r /\ r \in Rows \ Legacy
        /\ \A q \in Panels \ {p} : drain'[q] = drain[q]
    BY <1>4, <1>a DEF PickRow, TypeOK, Drain, DrainPc
  <2> QED BY <1>4, <2>1 DEF PickRow, UnchangedTable, UnchangedPanels, TypeOK
<1>5. ASSUME NEW r \in Rows, Quarantine(p, r) PROVE TypeOK'
  <2>1. db' \in [Rows -> Statuses] /\ waiting' \subseteq Rows /\ faults' \in 0..MaxFaults
    BY <1>5, <1>c, <1>d, <1>e, <1>f, UpdateEffect DEF Quarantine
  <2>2. /\ drain' \in [Panels -> Drain]
        /\ \A q \in Panels : drain'[q].pc = drain[q].pc /\ drain'[q].row = drain[q].row
    BY <1>5, <1>a DEF Quarantine, TypeOK, Drain
  <2> QED BY <1>5, <2>1, <2>2 DEF Quarantine, UnchangedPanels, TypeOK
<1>6. CASE Transmit(p)
  <2>1. Row \in Rows /\ Update({Row}, "sending", {}) /\ Goto(p, "send")
    BY <1>6, <1>b, <1>c DEF Transmit, Row
  <2>2. db' \in [Rows -> Statuses] /\ waiting' \subseteq Rows
    BY <1>c, <2>1, UpdateEffect
  <2>3. drain[p].pc \in Holding
    BY <1>6, <1>c DEF Transmit
  <2> QED BY <1>6, <1>c, <1>f, <2>1, <2>2, <2>3, DrainTypeByMove DEF Transmit
<1>7. CASE MarkFails(p)
  BY <1>7, <1>d, <1>e, <1>f, DrainTypeByMove DEF MarkFails
<1>8. CASE Sent(p)
  <2>1. Row \in Rows /\ drain[p].pc \in Holding /\ Goto(p, "remove")
    BY <1>8, <1>b, <1>c DEF Sent
  <2>2. acked' \subseteq Rows /\ ended' \subseteq Rows
    BY <1>8, <1>f, <2>1 DEF Sent, Row
  <2> QED BY <1>8, <1>c, <1>e, <1>f, <2>1, <2>2, DrainTypeByMove DEF Sent
<1>9. CASE SendFails(p)
  <2>1. drain[p].pc \in Holding /\ Goto(p, "fail")
    BY <1>9, <1>c DEF SendFails
  <2> QED BY <1>9, <1>c, <1>e, <1>f, <2>1, DrainTypeByMove DEF SendFails
<1>10. CASE Removed(p)
  <2>1. Row \in Rows /\ Remove(Row)
    BY <1>10, <1>b, <1>c DEF Removed, Row
  <2>2. db' \in [Rows -> Statuses] /\ waiting' \subseteq Rows
    BY <2>1, RemoveEffect
  <2> QED BY <1>10, <1>f, <2>2, DrainTypeByMove DEF Removed
<1>11. CASE RemoveFails(p)
  <2>1. drain[p].pc \in Holding /\ Goto(p, "block")
    BY <1>11, <1>c DEF RemoveFails
  <2> QED BY <1>11, <1>c, <1>d, <1>e, <1>f, <2>1, DrainTypeByMove DEF RemoveFails
<1>12. CASE Blocked(p)
  <2>1. Row \in Rows /\ Update({Row}, "blocked", {})
    BY <1>12, <1>b, <1>c DEF Blocked, Row
  <2>2. db' \in [Rows -> Statuses] /\ waiting' \subseteq Rows
    BY <1>c, <2>1, UpdateEffect
  <2> QED BY <1>12, <1>f, <2>2, DrainTypeByMove DEF Blocked
<1>13. CASE BlockFails(p)
  <2>1. acked' \subseteq Rows
    BY <1>13, <1>f DEF BlockFails
  <2> QED BY <1>13, <1>d, <1>e, <1>f, <2>1, DrainTypeByMove DEF BlockFails
<1>14. CASE FailureRecorded(p)
  <2>1. Row \in Rows
    BY <1>14, <1>b, <1>c DEF FailureRecorded, Row
  <2>2. \E st \in Statuses, wait \in SUBSET Rows : Update({Row}, st, wait)
    BY <1>14, <1>c, <2>1 DEF FailureRecorded, Row
  <2>3. db' \in [Rows -> Statuses] /\ waiting' \subseteq Rows
    BY <2>1, <2>2, UpdateEffect
  <2> QED BY <1>14, <1>f, <2>3, DrainTypeByMove DEF FailureRecorded
<1>15. CASE RecordFails(p)
  BY <1>15, <1>d, <1>e, <1>f, DrainTypeByMove DEF RecordFails
<1> QED BY <1>1, <1>2, <1>3, <1>4, <1>5, <1>6, <1>7, <1>8, <1>9, <1>10, <1>11, <1>12,
           <1>13, <1>14, <1>15

\* The initial state has the types.
LEMMA InitType == Init => TypeOK
<1> SUFFICES ASSUME Init PROVE TypeOK
  OBVIOUS
<1>1. NoDrain \in Drain /\ NoDrain.pc \notin Holding
  BY DEF NoDrain, Drain, DrainPc, Holding, Flying, Settling
<1> QED BY <1>1 DEF Init, TypeOK, Statuses

\* Every step keeps them.
LEMMA TypeStep == TypeOK /\ [Next]_vars => TypeOK'
<1>1. TypeOK /\ UNCHANGED vars => TypeOK'
  BY DEF vars, TypeOK
<1>2. TypeOK /\ TimeNext => TypeOK'
  BY DEF TimeNext, BackoffOver, TypeOK
<1> QED BY <1>1, <1>2, PanelType, DrainType DEF Next

\* Every variable keeps its type; in particular no row of an older version
\* ever waits to be sent or is sent, whatever panels, faults and the user do
\* (quarantineLegacyMultipartOutboxRow()).
THEOREM TypeCorrect == Spec => []TypeOK
  BY InitType, TypeStep, PTL DEF Spec

-----------------------------------------------------------------------------
(* How a step changes the drains.                                          *)

\* A step of p's drain.
StepOf(p) ==
  \/ Recover(p) \/ RecoverFails(p) \/ Drained(p)
  \/ \E r \in Rows : PickRow(p, r) \/ Quarantine(p, r)
  \/ Transmit(p) \/ MarkFails(p) \/ Sent(p) \/ SendFails(p)
  \/ Removed(p) \/ RemoveFails(p) \/ Blocked(p) \/ BlockFails(p)
  \/ FailureRecorded(p) \/ RecordFails(p)

\* drainOnce() or the load has begun in p, and picks eligible rows.
Begun(p) ==
  /\ drain[p].pc = "off"
  /\ \A q \in Panels \ {p} : drain'[q] = drain[q]
  /\ drain'[p].pc \in {"load", "recover", "loop"}
  /\ drain'[p].stuck = Listed("sending")
  /\ drain'[p].pc = "loop" => drain'[p].stuck = {}
  /\ drain'[p].todo \subseteq Eligible

\* drainOnce() and the load begin, or leave the drains as they are.
LEMMA BeginsOrNot ==
  ASSUME TypeOK, NEW p \in Panels, NEW on, DrainOnce(p, on) \/ Load(p),
         drain[p].pc = "off" \/ DrainOnce(p, on)
  PROVE  UNCHANGED drain \/ Begun(p)
<1>1. ASSUME NEW young \in SUBSET Eligible, drain[p].pc = "off",
             drain' = [drain EXCEPT ![p] = Begin(young)]
      PROVE  Begun(p)
  BY <1>1 DEF Begin, Begun, TypeOK
<1>2. ASSUME drain[p].pc = "off", Listed("sending") # {},
             drain' = [drain EXCEPT ![p] = [Begin({}) EXCEPT !.pc = "load"]]
      PROVE  Begun(p)
  BY <1>2 DEF Begin, Begun, TypeOK
<1> QED BY <1>1, <1>2 DEF DrainOnce, Load

\* A step of a panel leaves the drains as they are, begins one, or is the
\* reload, which ends them all.
LEMMA PanelFrame ==
  ASSUME TypeOK, ~Overlap, PanelNext
  PROVE  \/ UNCHANGED drain
         \/ \E p \in Panels : Begun(p)
         \/ Reload
<1>1. ASSUME NEW p \in Panels, Availability(p) \/ Request(p) \/ AskedDrain(p)
      PROVE  UNCHANGED drain \/ Begun(p)
  <2>1. PICK on : DrainOnce(p, on)
    BY <1>1 DEF Availability, Request, AskedDrain
  <2> QED BY <2>1, BeginsOrNot
<1>2. ASSUME NEW p \in Panels, Mount(p)
      PROVE  UNCHANGED drain \/ Begun(p)
  <2>1. PICK on \in BOOLEAN : DrainOnce(p, on) \/ Load(p)
    BY <1>2 DEF Mount
  <2>2. drain[p].pc = "off"
    BY <1>2 DEF Mount, Busy
  <2> QED BY <2>1, <2>2, BeginsOrNot
<1> QED BY <1>1, <1>2 DEF PanelNext, Unmount, Queue, Retry, Cancel

\* A step of p's drain is about the rows the drain has: it takes none up but
\* its next one to be sent, and writes only those it resets or has in hand.
DrainFrame(p) ==
  LET d == drain[p]
      e == drain'[p]
  IN  /\ d.pc # "off"
      /\ \A q \in Panels \ {p} : drain'[q] = drain[q]
      /\ e.pc = "off" => e = NoDrain
      /\ e.pc \notin {"load", "recover"}
      /\ e.stuck = {} \/ (e.stuck = d.stuck /\ d.pc \notin {"load", "recover"})
      /\ e.todo \subseteq d.todo
      /\ e.pc \in Holding =>
           \/ /\ d.pc \in Holding /\ e.row = d.row /\ e.todo = d.todo
              /\ d.pc \in {"remove", "block"} => e.pc = "block"
           \/ e.pc = "turn" /\ e.row \in d.todo /\ e.row \notin e.todo

\* Every step of a drain is of this kind.
LEMMA EveryDrainFrame ==
  ASSUME TypeOK, NEW p \in Panels, StepOf(p)
  PROVE  DrainFrame(p)
<1> USE DEF DrainFrame, Holding, Flying, Settling
<1>a. drain[p] \in Drain
  BY DEF TypeOK
<1>1. ASSUME drain[p].pc # "off", EndDrain(p)
      PROVE  DrainFrame(p)
  BY <1>1 DEF EndDrain, NoDrain, TypeOK
<1>2. ASSUME drain[p].pc \notin {"off", "load", "recover"}, NextRow(p)
      PROVE  DrainFrame(p)
  BY <1>a, <1>2 DEF NextRow, TypeOK, Drain
<1>3. ASSUME NEW pc \in {"send", "remove", "block", "fail"}, Goto(p, pc),
             drain[p].pc \in Holding,
             drain[p].pc \in {"remove", "block"} => pc = "block"
      PROVE  DrainFrame(p)
  BY <1>a, <1>3 DEF Goto, TypeOK, Drain
<1>4. CASE Recover(p)
  BY <1>a, <1>4 DEF Recover, TypeOK, Drain, NoDrain
<1>5. ASSUME NEW r \in Rows, PickRow(p, r) \/ Quarantine(p, r)
      PROVE  DrainFrame(p)
  BY <1>a, <1>5 DEF PickRow, Quarantine, Oldest, TypeOK, Drain
<1>6. CASE RecoverFails(p) \/ Drained(p) \/ MarkFails(p)
  BY <1>1, <1>6 DEF RecoverFails, Drained, MarkFails
<1>7. CASE Removed(p) \/ Blocked(p) \/ BlockFails(p) \/ FailureRecorded(p) \/ RecordFails(p)
  BY <1>2, <1>7 DEF Removed, Blocked, BlockFails, FailureRecorded, RecordFails
<1>8. CASE Transmit(p) \/ Sent(p) \/ SendFails(p) \/ RemoveFails(p)
  BY <1>3, <1>8 DEF Transmit, Sent, SendFails, RemoveFails
<1> QED BY <1>4, <1>5, <1>6, <1>7, <1>8 DEF StepOf

-----------------------------------------------------------------------------
(* Nothing is lost.                                                        *)

\* An UPDATE deletes nothing.
LEMMA UpdateKeeps ==
  ASSUME TypeOK, NEW rs \in SUBSET Rows, NEW st \in Statuses \ {"gone"},
         NEW wait \in SUBSET Rows, Update(rs, st, wait)
  PROVE  \A r \in Rows : db'[r] = "gone" => db[r] = "gone"
  BY UpdateEffect

\* What a panel does deletes only what the user cancels.
LEMMA PanelKeeps ==
  ASSUME TypeOK, Delivered, NothingLost, PanelNext
  PROVE  Delivered' /\ NothingLost'
<1> USE DEF Delivered, NothingLost
<1>1. ASSUME NEW p \in Panels, NEW on, DrainOnce(p, on) \/ Load(p),
             UNCHANGED <<db, ended>>
      PROVE  Delivered' /\ NothingLost'
  BY <1>1, BeginType DEF Holding, Flying, Settling
<1>2. ASSUME NEW p \in Panels, Mount(p) \/ Availability(p) \/ Request(p) \/ AskedDrain(p)
      PROVE  Delivered' /\ NothingLost'
  BY <1>1, <1>2 DEF Mount, Availability, Request, AskedDrain
<1>3. ASSUME NEW p \in Panels, NEW r \in Rows, Retry(p, r)
      PROVE  Delivered' /\ NothingLost'
  <2>1. /\ Update({r}, "queued", {}) /\ "queued" \in Statuses \ {"gone"}
        /\ {r} \in SUBSET Rows /\ {} \in SUBSET Rows
    BY <1>3 DEF Retry, Statuses
  <2>2. \A s \in Rows : db'[s] = "gone" => db[s] = "gone"
    BY <2>1, UpdateKeeps
  <2> QED BY <1>3, <2>2 DEF Retry
<1>4. ASSUME NEW p \in Panels, NEW r \in Rows, Cancel(p, r)
      PROVE  Delivered' /\ NothingLost'
  BY <1>4, RemoveEffect DEF Cancel
<1>5. ASSUME NEW p \in Panels, NEW r \in Rows, Unmount(p) \/ Queue(p, r)
      PROVE  Delivered' /\ NothingLost'
  BY <1>5 DEF Unmount, Queue, TypeOK
<1>6. ASSUME NEW p \in Panels, Unmount(p)
      PROVE  Delivered' /\ NothingLost'
  BY <1>6 DEF Unmount
<1>7. CASE Reload
  BY <1>7 DEF Reload, NoDrain
<1> QED BY <1>2, <1>3, <1>4, <1>5, <1>6, <1>7 DEF PanelNext

\* What a drain does deletes only what it has delivered.
LEMMA DrainKeeps ==
  ASSUME TypeOK, Delivered, NothingLost, NEW p \in Panels, StepOf(p)
  PROVE  Delivered' /\ NothingLost'
<1> DEFINE Row == drain[p].row
<1>a. drain[p].pc \in Holding => Row \in Rows
  BY DEF TypeOK
<1>b. drain[p].stuck \subseteq Rows /\ {"queued", "sending", "blocked", "failed"} \subseteq Statuses \ {"gone"}
  BY DEF TypeOK, Drain, Statuses
<1>1. ASSUME UNCHANGED ended, drain'[p].pc \in {"remove", "block"} => drain[p].pc \in {"remove", "block"}
      PROVE  Delivered'
  BY <1>1, EveryDrainFrame DEF DrainFrame, Delivered, Holding, Flying, Settling
<1>2. UNCHANGED db /\ ended \subseteq ended' => NothingLost'
  BY DEF NothingLost
<1>3. ASSUME NEW rs \in SUBSET Rows, NEW wait \in SUBSET Rows,
             NEW st \in {"queued", "sending", "blocked", "failed"},
             Update(rs, st, wait), UNCHANGED ended
      PROVE  NothingLost'
  BY <1>3, <1>b, UpdateKeeps DEF NothingLost
<1> HIDE DEF Row
<1>4. CASE Recover(p) \/ RecoverFails(p)
  <2>1. PICK rs \in SUBSET drain[p].stuck : Update(rs, "queued", {})
    BY <1>4 DEF Recover, RecoverFails
  <2>2. NothingLost'
    BY <1>3, <1>4, <1>b, <2>1 DEF Recover, RecoverFails
  <2>3. drain'[p].pc \notin {"remove", "block"}
    BY <1>4, EveryDrainFrame
       DEF Recover, RecoverFails, DrainFrame, Holding, Flying, Settling
  <2> QED BY <1>1, <1>4, <2>2, <2>3 DEF Recover, RecoverFails
<1>5. CASE Drained(p) \/ MarkFails(p)
  BY <1>1, <1>2, <1>5 DEF Drained, MarkFails, EndDrain, NoDrain, TypeOK, UnchangedTable
<1>6. ASSUME NEW r \in Rows, PickRow(p, r)
      PROVE  Delivered' /\ NothingLost'
  BY <1>1, <1>2, <1>6 DEF PickRow, TypeOK, Drain, UnchangedTable
<1>7. ASSUME NEW r \in Rows, Quarantine(p, r)
      PROVE  Delivered' /\ NothingLost'
  <2>1. NothingLost'
    BY <1>2, <1>3, <1>7 DEF Quarantine, UnchangedTable
  <2>2. drain'[p].pc = drain[p].pc
    BY <1>7 DEF Quarantine, TypeOK, Drain
  <2> QED BY <1>1, <1>7, <2>1, <2>2 DEF Quarantine
<1>8. CASE Transmit(p)
  <2>1. Row \in Rows /\ Update({Row}, "sending", {})
    BY <1>8, <1>a DEF Transmit, Holding, Row
  <2>2. NothingLost'
    BY <1>3, <1>8, <2>1 DEF Transmit
  <2> QED BY <1>1, <1>8, <2>2 DEF Transmit, Goto, TypeOK, Drain
<1>9. CASE Sent(p)
  <2>1. NothingLost'
    BY <1>2, <1>9 DEF Sent, UnchangedTable
  <2>2. /\ drain'[p].row = drain[p].row
        /\ \A q \in Panels \ {p} : drain'[q] = drain[q]
    BY <1>9, EveryDrainFrame DEF DrainFrame, Sent, Goto, TypeOK, Drain
  <2> QED BY <1>9, <2>1, <2>2 DEF Sent, Delivered
<1>10. CASE SendFails(p)
  BY <1>1, <1>2, <1>10 DEF SendFails, Goto, TypeOK, Drain, UnchangedTable
<1>11. CASE RemoveFails(p)
  BY <1>1, <1>2, <1>11 DEF RemoveFails, Goto, TypeOK, Drain, UnchangedTable
<1>12. ASSUME NextRow(p)
       PROVE  drain'[p].pc = "loop"
  BY <1>12 DEF NextRow, TypeOK, Drain
<1>13. CASE Removed(p)
  <2>1. Row \in Rows /\ Remove(Row) /\ Row \in ended
    BY <1>13, <1>a DEF Removed, Holding, Flying, Settling, Delivered, Row
  <2>2. NothingLost'
    BY <1>13, <2>1, RemoveEffect DEF NothingLost, Removed
  <2> QED BY <1>1, <1>12, <1>13, <2>2 DEF Removed
<1>14. CASE Blocked(p) \/ FailureRecorded(p)
  <2>1. Row \in Rows
    BY <1>14, <1>a DEF Blocked, FailureRecorded, Holding, Flying, Settling
  <2>2. \E st \in {"blocked", "failed"}, wait \in SUBSET Rows : Update({Row}, st, wait)
    BY <1>14, <2>1 DEF Blocked, FailureRecorded, Row
  <2>3. NothingLost'
    BY <1>3, <1>14, <2>1, <2>2 DEF Blocked, FailureRecorded
  <2> QED BY <1>1, <1>12, <1>14, <2>3 DEF Blocked, FailureRecorded
<1>15. CASE BlockFails(p) \/ RecordFails(p)
  BY <1>1, <1>2, <1>12, <1>15 DEF BlockFails, RecordFails, UnchangedTable
<1> QED BY <1>4, <1>5, <1>6, <1>7, <1>8, <1>9, <1>10, <1>11, <1>13, <1>14, <1>15 DEF StepOf

\* A row leaves the table only when it was delivered or cancelled, whatever
\* writes are rejected, panels mounted and reloads made
\* (finalizeSuccessfulOutboxSend(), recordOutboxSendFailure()).
THEOREM NothingLostCorrect == Spec => []NothingLost
<1>1. Init => Delivered /\ NothingLost
  BY DEF Init, Delivered, NothingLost, NoDrain
<1>2. TypeOK /\ Delivered /\ NothingLost /\ [Next]_vars => (Delivered /\ NothingLost)'
  <2> SUFFICES ASSUME TypeOK, Delivered, NothingLost, [Next]_vars
               PROVE  (Delivered /\ NothingLost)'
    OBVIOUS
  <2>1. CASE UNCHANGED vars
    BY <2>1 DEF vars, Delivered, NothingLost
  <2>2. CASE TimeNext
    BY <2>2 DEF TimeNext, BackoffOver, Delivered, NothingLost
  <2>3. CASE DrainNext
    BY <2>3, DrainKeeps DEF DrainNext, StepOf
  <2> QED BY <2>1, <2>2, <2>3, PanelKeeps DEF Next
<1> QED BY <1>1, <1>2, TypeCorrect, PTL DEF Spec

-----------------------------------------------------------------------------
(* A message goes out once, when no panel is mounted while another drains. *)

\* A panel that is not busy has nothing in its drain.
LEMMA IdleHasNothing ==
  ASSUME TypeOK, Shape, NEW p \in Panels, ~Busy(p)
  PROVE  drain[p] = NoDrain /\ drain[p].todo = {} /\ drain[p].stuck = {}
<1>1. drain[p] = NoDrain
  BY DEF Shape, Busy
<1> QED BY <1>1 DEF NoDrain

\* Only a mount makes a panel busy.
LEMMA BusyStep ==
  ASSUME TypeOK, ~Overlap, [Next]_vars, NEW p \in Panels, Busy(p)'
  PROVE  Busy(p) \/ Mount(p)
<1> USE DEF Busy
<1>1. CASE UNCHANGED vars
  BY <1>1 DEF vars
<1>2. CASE TimeNext
  BY <1>2 DEF TimeNext, BackoffOver
<1>3. CASE DrainNext
  <2>1. PICK q \in Panels : StepOf(q)
    BY <1>3 DEF DrainNext, StepOf
  <2>2. UnchangedPanels
    BY <2>1 DEF StepOf, Recover, RecoverFails, Drained, PickRow, Quarantine, Transmit,
                MarkFails, Sent, SendFails, Removed, RemoveFails, Blocked, BlockFails,
                FailureRecorded, RecordFails
  <2> QED BY <2>1, <2>2, EveryDrainFrame DEF DrainFrame, UnchangedPanels
<1>4. ASSUME NEW q \in Panels, Mount(q)
      PROVE  Busy(p) \/ Mount(p)
  <2>1. CASE p = q
    BY <1>4, <2>1
  <2>2. CASE p # q
    <3>1. PICK on \in BOOLEAN : DrainOnce(q, on) \/ Load(q)
      BY <1>4 DEF Mount
    <3>2. drain[q].pc = "off"
      BY <1>4 DEF Mount
    <3>3. drain'[p] = drain[p]
      BY <2>2, <3>1, <3>2, BeginsOrNot DEF Begun
    <3> QED BY <1>4, <2>2, <3>3 DEF Mount, TypeOK
  <2> QED BY <2>1, <2>2
<1>5. ASSUME NEW q \in Panels, Availability(q) \/ Request(q) \/ AskedDrain(q)
      PROVE  Busy(p)
  <2>1. Busy(q)
    BY <1>5 DEF Availability, Request, AskedDrain
  <2> QED BY <1>5, <2>1 DEF Availability, Request, AskedDrain, DrainOnce, TypeOK
<1>6. ASSUME NEW q \in Panels, NEW r \in Rows, Queue(q, r) \/ Retry(q, r) \/ Cancel(q, r)
      PROVE  Busy(p)
  BY <1>6 DEF Queue, Retry, Cancel, TypeOK
<1>7. ASSUME NEW q \in Panels, Unmount(q)
      PROVE  Busy(p)
  BY <1>7 DEF Unmount, TypeOK
<1>8. ASSUME Reload
      PROVE  Busy(p)
  BY <1>8 DEF Reload, NoDrain, TypeOK
<1> QED BY <1>1, <1>2, <1>3, <1>4, <1>5, <1>6, <1>7, <1>8 DEF Next, PanelNext

\* At most one panel stays busy.
LEMMA AloneStep ==
  ASSUME TypeOK, ~Overlap, Alone, [Next]_vars
  PROVE  Alone'
<1>1. ASSUME NEW p \in Panels, NEW q \in Panels, Mount(p)
      PROVE  ~Busy(q)
  BY <1>1 DEF Mount
<1>2. ASSUME NEW p \in Panels, NEW q \in Panels, Mount(p), Mount(q)
      PROVE  p = q
  BY <1>2 DEF Mount
<1> QED BY <1>1, <1>2, BusyStep DEF Alone

\* Drains keep their shape.
LEMMA ShapeStep ==
  ASSUME TypeOK, ~Overlap, Shape, [Next]_vars
  PROVE  Shape'
<1> USE DEF Shape
<1>1. CASE UNCHANGED drain
  BY <1>1
<1>2. ASSUME NEW p \in Panels, Begun(p)
      PROVE  Shape'
  BY <1>2 DEF Begun, Holding, Flying, Settling
<1>3. CASE Reload
  BY <1>3 DEF Reload, NoDrain, Holding, Flying, Settling
<1>4. ASSUME NEW p \in Panels, StepOf(p)
      PROVE  Shape'
  BY <1>4, EveryDrainFrame DEF DrainFrame
<1>5. CASE TimeNext \/ UNCHANGED vars
  BY <1>1, <1>5 DEF TimeNext, BackoffOver, vars
<1>6. CASE DrainNext
  BY <1>4, <1>6 DEF DrainNext, StepOf
<1> QED BY <1>1, <1>2, <1>3, <1>5, <1>6, PanelFrame DEF Next

\* No row becomes unknown.
LEMMA KnownRows ==
  ASSUME TypeOK, [Next]_vars, NEW r \in Rows, db[r] # "new"
  PROVE  db'[r] # "new"
<1> DEFINE Writes(rs, st) == \E wait \in SUBSET Rows : Update(rs, st, wait)
<1>1. ASSUME NEW rs \in SUBSET Rows, NEW st \in {"queued", "sending", "blocked", "failed"},
             Writes(rs, st)
      PROVE  db'[r] # "new"
  <2>1. st \in Statuses
    BY DEF Statuses
  <2> QED BY <1>1, <2>1, UpdateEffect
<1>2. ASSUME NEW s \in Rows, Remove(s)
      PROVE  db'[r] # "new"
  BY <1>2, RemoveEffect
<1> HIDE DEF Writes
<1>3. CASE PanelNext
  <2>1. ASSUME NEW p \in Panels, NEW s \in Rows, Retry(p, s)
        PROVE  db'[r] # "new"
    <3>1. Writes({s}, "queued")
      BY <2>1 DEF Retry, Writes
    <3> QED BY <1>1, <3>1
  <2>2. ASSUME NEW p \in Panels, NEW s \in Rows, Queue(p, s)
        PROVE  db'[r] # "new"
    BY <2>2 DEF Queue, TypeOK
  <2>3. ASSUME NEW p \in Panels, NEW s \in Rows, Cancel(p, s)
        PROVE  db'[r] # "new"
    BY <1>2, <2>3 DEF Cancel
  <2> QED BY <1>3, <2>1, <2>2, <2>3
          DEF PanelNext, Mount, Unmount, Availability, Request, AskedDrain, Reload
<1>4. CASE DrainNext
  <2>1. PICK p \in Panels : StepOf(p)
    BY <1>4 DEF DrainNext, StepOf
  <2>2. /\ drain[p].stuck \subseteq Rows
        /\ drain[p].pc \in Holding => drain[p].row \in Rows
    BY DEF TypeOK, Drain
  <2>3. CASE Recover(p) \/ RecoverFails(p)
    <3>1. PICK rs \in SUBSET Rows : Writes(rs, "queued")
      BY <2>2, <2>3 DEF Recover, RecoverFails, Writes
    <3> QED BY <1>1, <3>1
  <2>4. ASSUME NEW s \in Rows, Quarantine(p, s)
        PROVE  db'[r] # "new"
    <3>1. Writes({s}, "blocked") \/ UNCHANGED db
      BY <2>4 DEF Quarantine, Writes, UnchangedTable
    <3> QED BY <1>1, <3>1
  <2>5. CASE Transmit(p) \/ Blocked(p) \/ FailureRecorded(p)
    <3>1. PICK s \in Rows, st \in {"sending", "blocked", "failed"} : Writes({s}, st)
      BY <2>2, <2>5 DEF Transmit, Blocked, FailureRecorded, Writes, Holding, Flying, Settling
    <3> QED BY <1>1, <3>1
  <2>6. CASE Removed(p)
    BY <1>2, <2>2, <2>6 DEF Removed, Holding, Flying, Settling
  <2> QED BY <2>1, <2>3, <2>4, <2>5, <2>6
          DEF StepOf, Drained, PickRow, MarkFails, Sent, SendFails, RemoveFails,
              BlockFails, RecordFails, UnchangedTable
<1>5. CASE TimeNext \/ UNCHANGED vars
  BY <1>5 DEF TimeNext, BackoffOver, vars
<1> QED BY <1>3, <1>4, <1>5 DEF Next

\* Only rows of the table are taken up.
LEMMA KnownStep ==
  ASSUME TypeOK, ~Overlap, Known, [Next]_vars
  PROVE  Known'
<1>a. \A p \in Panels : /\ drain[p].todo \subseteq Rows
                        /\ drain[p].pc \in Holding => drain[p].row \in Rows
  BY DEF TypeOK, Drain
<1>1. CASE UNCHANGED drain
  BY <1>1, <1>a, KnownRows DEF Known
<1>2. ASSUME NEW p \in Panels, Begun(p)
      PROVE  Known'
  BY <1>2, <1>a, KnownRows, ListedRows DEF Known, Begun, Holding, Flying, Settling
<1>3. CASE Reload
  BY <1>3 DEF Reload, NoDrain, Known, Holding, Flying, Settling
<1>4. ASSUME NEW p \in Panels, StepOf(p)
      PROVE  Known'
  BY <1>4, <1>a, KnownRows, EveryDrainFrame DEF DrainFrame, Known
<1>5. CASE TimeNext \/ UNCHANGED vars
  BY <1>1, <1>5 DEF TimeNext, BackoffOver, vars
<1>6. CASE DrainNext
  BY <1>4, <1>6 DEF DrainNext, StepOf
<1> QED BY <1>1, <1>2, <1>3, <1>5, <1>6, PanelFrame DEF Next

\* A drain that is not deleting writes only rows it resets, is to send, or has
\* in hand.
LEMMA WritesOwn ==
  ASSUME TypeOK, NEW p \in Panels, StepOf(p), drain[p].pc \notin {"remove", "block"},
         NEW r \in Rows, r \notin drain[p].todo \cup drain[p].stuck,
         drain[p].pc \in Holding => drain[p].row # r
  PROVE  db'[r] = db[r]
<1>1. ASSUME NEW rs \in SUBSET Rows, r \notin rs, NEW st, NEW wait, Update(rs, st, wait)
      PROVE  db'[r] = db[r]
  BY <1>1 DEF Update
<1>2. CASE Recover(p) \/ RecoverFails(p)
  BY <1>1, <1>2 DEF Recover, RecoverFails, TypeOK, Drain
<1>3. ASSUME NEW s \in Rows, Quarantine(p, s)
      PROVE  db'[r] = db[r]
  BY <1>1, <1>3 DEF Quarantine, Oldest, UnchangedTable
<1>4. CASE Transmit(p) \/ FailureRecorded(p)
  <2>1. drain[p].row \in Rows \ {r}
    BY <1>4 DEF Transmit, FailureRecorded, TypeOK, Holding, Flying, Settling
  <2> QED BY <1>1, <1>4, <2>1 DEF Transmit, FailureRecorded
<1> QED BY <1>2, <1>3, <1>4
        DEF StepOf, Drained, PickRow, MarkFails, Sent, SendFails, Removed, RemoveFails,
            Blocked, BlockFails, RecordFails, UnchangedTable

\* When no drain is at work, a delivered row is deleted or blocked.
LEMMA SettledRows ==
  ASSUME Accounted, \A q \in Panels : drain[q].pc \notin {"remove", "block"},
         NEW r \in acked
  PROVE  db[r] \in {"gone", "blocked"}
  BY DEF Accounted

\* Steps of panels: a drain that begins does so alone, and takes up no row
\* that is blocked or deleted.
LEMMA AccountedByPanel ==
  ASSUME IInv, ~Overlap, PanelNext
  PROVE  Accounted'
<1> USE DEF IInv
<1>a. acked \subseteq Rows
  BY DEF TypeOK
<1>1. ASSUME NEW p \in Panels, UNCHANGED <<db, acked>>, UNCHANGED drain \/ Begun(p),
             Busy(p) \/ \A q \in Panels : ~Busy(q)
      PROVE  Accounted'
  <2>1. CASE UNCHANGED drain
    BY <1>1, <2>1 DEF Accounted
  <2>2. CASE Begun(p)
    <3>1. \A q \in Panels : drain[q].pc = "off"
      BY <1>1, <2>2 DEF Begun, Busy, Alone
    <3>2. \A r \in acked : db[r] \in {"gone", "blocked"}
      BY <3>1, SettledRows
    <3>3. \A r \in acked : r \notin drain'[p].todo \cup drain'[p].stuck
      BY <2>2, <3>2, ListedRows DEF Begun
    <3>4. \A q \in Panels : /\ drain'[q].pc \notin {"turn", "send", "fail"}
                            /\ q # p => drain'[q] = drain[q]
      BY <2>2, <3>1 DEF Begun
    <3> QED BY <1>1, <3>2, <3>3, <3>4 DEF Accounted
  <2> QED BY <1>1, <2>1, <2>2
<1>2. ASSUME NEW p \in Panels, Availability(p) \/ Request(p) \/ AskedDrain(p)
      PROVE  Accounted'
  <2>1. PICK on : DrainOnce(p, on)
    BY <1>2 DEF Availability, Request, AskedDrain
  <2>2. Busy(p)
    BY <1>2 DEF Availability, Request, AskedDrain, Busy
  <2> QED BY <1>1, <1>2, <2>1, <2>2, BeginsOrNot DEF Availability, Request, AskedDrain
<1>3. ASSUME NEW p \in Panels, Mount(p)
      PROVE  Accounted'
  <2>1. PICK on \in BOOLEAN : DrainOnce(p, on) \/ Load(p)
    BY <1>3 DEF Mount
  <2>2. \A q \in Panels : ~Busy(q)
    BY <1>3 DEF Mount
  <2>3. drain[p].pc = "off"
    BY <2>2 DEF Busy
  <2> QED BY <1>1, <1>3, <2>1, <2>2, <2>3, BeginsOrNot DEF Mount
<1>4. ASSUME NEW p \in Panels, NEW s \in Rows, Queue(p, s)
      PROVE  Accounted'
  <2>1. s \notin acked
    <3>1. db[s] = "new"
      BY <1>4 DEF Queue
    <3> QED BY <3>1 DEF Accounted, Known, Holding, Flying, Settling
  <2> QED BY <1>4, <2>1 DEF Queue, Accounted, TypeOK
<1>5. ASSUME NEW p \in Panels, NEW s \in Rows, Retry(p, s)
      PROVE  Accounted'
  <2>1. \A r \in Rows \ {s} : db'[r] = db[r]
    BY <1>5 DEF Retry, Update
  <2> QED BY <1>5, <1>a, <2>1 DEF Retry, Accounted
<1>6. ASSUME NEW p \in Panels, NEW s \in Rows, Cancel(p, s)
      PROVE  Accounted'
  BY <1>6, <1>a, RemoveEffect DEF Cancel, Accounted
<1>7. ASSUME NEW p \in Panels, Unmount(p)
      PROVE  Accounted'
  BY <1>7 DEF Unmount, Accounted
<1>8. CASE Reload
  BY <1>8 DEF Reload, NoDrain, Accounted
<1> QED BY <1>2, <1>3, <1>4, <1>5, <1>6, <1>7, <1>8 DEF PanelNext

\* Steps of a drain: the row it has sent is its own until it is deleted or
\* blocked.
LEMMA AccountedByDrain ==
  ASSUME IInv, NEW p \in Panels, StepOf(p)
  PROVE  Accounted'
<1> USE DEF IInv
<1>a. acked \subseteq Rows
  BY DEF TypeOK
<1>b. DrainFrame(p)
  BY EveryDrainFrame
<1>c. \A q \in Panels \ {p} : drain'[q] = drain[q] /\ drain[q] = NoDrain
  <2>1. \A q \in Panels \ {p} : ~Busy(q)
    BY <1>b DEF DrainFrame, Busy, Alone
  <2> QED BY <1>b, <2>1, IdleHasNothing DEF DrainFrame
<1>1. ASSUME NEW r \in acked
      PROVE  \A q \in Panels :
               /\ r \notin drain'[q].todo \cup drain'[q].stuck
               /\ drain'[q].pc \in {"turn", "send", "fail"} => drain'[q].row # r
  <2>1. /\ r \notin drain'[p].todo \cup drain'[p].stuck
        /\ drain'[p].pc \in {"turn", "send", "fail"} => drain'[p].row # r
    BY <1>b DEF DrainFrame, Accounted, Holding, Flying, Settling
  <2> QED BY <1>c, <2>1 DEF Accounted
<1>2. CASE drain[p].pc \notin {"remove", "block"}
  <2>1. \A q \in Panels : drain[q].pc \notin {"remove", "block"}
    BY <1>2, <1>c DEF NoDrain
  <2>2. \A r \in acked : db'[r] \in {"gone", "blocked"}
    <3> SUFFICES ASSUME NEW r \in acked PROVE db'[r] \in {"gone", "blocked"}
      OBVIOUS
    <3>1. db[r] \in {"gone", "blocked"}
      BY <2>1, SettledRows
    <3>2. /\ r \notin drain[p].todo \cup drain[p].stuck
          /\ drain[p].pc \in Holding => drain[p].row # r
      BY <1>2 DEF Accounted, Holding, Flying, Settling
    <3> QED BY <1>2, <1>a, <3>1, <3>2, WritesOwn
  <2>3. CASE acked' = acked
    BY <1>1, <2>2, <2>3 DEF Accounted
  <2>4. CASE Sent(p)
    <3>1. /\ drain'[p].pc = "remove" /\ drain'[p].row = drain[p].row
          /\ drain'[p].todo = drain[p].todo /\ drain'[p].stuck = drain[p].stuck
      BY <2>4 DEF Sent, Goto, TypeOK, Drain
    <3>2. drain[p].row \notin drain[p].todo /\ drain[p].stuck = {}
      BY <2>4 DEF Sent, Shape, Holding, Flying
    <3>3. \A q \in Panels :
            /\ drain[p].row \notin drain'[q].todo \cup drain'[q].stuck
            /\ drain'[q].pc \notin {"turn", "send", "fail"}
      BY <1>c, <3>1, <3>2 DEF NoDrain
    <3>4. acked' = acked \cup {drain[p].row}
      BY <2>4 DEF Sent
    <3> QED BY <1>1, <2>2, <3>1, <3>3, <3>4 DEF Accounted
  <2> QED BY <1>2, <2>3, <2>4
          DEF StepOf, Recover, RecoverFails, Drained, PickRow, Quarantine, Transmit,
              MarkFails, SendFails, Removed, RemoveFails, Blocked, BlockFails,
              FailureRecorded, RecordFails
<1>3. CASE drain[p].pc \in {"remove", "block"}
  <2> DEFINE x == drain[p].row
  <2>a. x \in Rows /\ db[x] # "new"
    BY <1>3 DEF TypeOK, Known, Holding, Flying, Settling
  <2>b. \A r \in acked : db[r] \in {"gone", "blocked"} \/ r = x
    BY <1>c DEF Accounted, NoDrain
  <2> HIDE DEF x
  <2>1. CASE Removed(p)
    <3>1. Remove(x) /\ acked' = acked
      BY <2>1 DEF Removed, x
    <3>2. \A r \in acked : db'[r] \in {"gone", "blocked"}
      BY <1>a, <2>a, <2>b, <3>1, RemoveEffect
    <3> QED BY <1>1, <3>1, <3>2 DEF Accounted
  <2>2. CASE RemoveFails(p)
    <3>1. /\ drain'[p].pc = "block" /\ drain'[p].row = x
          /\ UNCHANGED <<db, acked>>
      BY <2>2 DEF RemoveFails, Goto, UnchangedTable, TypeOK, Drain, x
    <3> QED BY <1>1, <2>b, <3>1 DEF Accounted
  <2>3. CASE Blocked(p)
    <3>1. Update({x}, "blocked", {}) /\ acked' = acked
      BY <2>3 DEF Blocked, x
    <3>2. \A r \in acked : db'[r] \in {"gone", "blocked"}
      BY <1>a, <2>a, <2>b, <3>1 DEF Update, Present, TypeOK, Statuses
    <3> QED BY <1>1, <3>1, <3>2 DEF Accounted
  <2>4. CASE BlockFails(p)
    <3>1. acked' = acked \ {x} /\ UNCHANGED db
      BY <2>4 DEF BlockFails, UnchangedTable, x
    <3> QED BY <1>1, <2>b, <3>1 DEF Accounted
  <2> QED BY <1>3, <2>1, <2>2, <2>3, <2>4
          DEF StepOf, Recover, RecoverFails, Drained, PickRow, Quarantine, Transmit,
              MarkFails, Sent, SendFails, FailureRecorded, RecordFails
<1> QED BY <1>2, <1>3

\* The inductive invariant holds at first, is kept, and says what is wanted.
LEMMA InitInvariant == Init => IInv
  BY InitType DEF Init, IInv, Shape, Known, Alone, Accounted, Busy, NoDrain, Holding,
     Flying, Settling

LEMMA InvariantStep == ~Overlap /\ IInv /\ [Next]_vars => IInv'
<1> SUFFICES ASSUME ~Overlap, IInv, [Next]_vars PROVE IInv'
  OBVIOUS
<1>1. Accounted'
  <2>1. CASE TimeNext \/ UNCHANGED vars
    BY <2>1 DEF TimeNext, BackoffOver, vars, IInv, Accounted
  <2>2. CASE DrainNext
    BY <2>2, AccountedByDrain DEF DrainNext, StepOf
  <2> QED BY <2>1, <2>2, AccountedByPanel DEF Next
<1> QED BY <1>1, TypeStep, ShapeStep, KnownStep, AloneStep DEF IInv

LEMMA InvariantImplies == IInv => SentOnce
<1> SUFFICES ASSUME IInv, NEW p \in Panels
             PROVE  /\ \A q \in Panels \ {p} : InFlight(p) \cap InFlight(q) = {}
                    /\ drain[p].pc = "send" => drain[p].row \notin acked
  BY DEF SentOnce
<1>1. ASSUME NEW q \in Panels \ {p} PROVE InFlight(p) \cap InFlight(q) = {}
  BY <1>1 DEF IInv, Alone, Busy, InFlight, Flying, Settling
<1> QED BY <1>1 DEF IInv, Accounted

\* A message goes out once, for any rejected writes, reloads and retries, as
\* long as no panel is mounted while the drain of an earlier one is under way
\* (drainOnce(), finalizeSuccessfulOutboxSend()).
THEOREM SentOnceCorrect == ASSUME ~Overlap PROVE Spec => []SentOnce
  BY InitInvariant, InvariantStep, InvariantImplies, PTL DEF Spec

-----------------------------------------------------------------------------
(* What a crash finds.                                                     *)

\* A row about to be reset is the drain's own, and that is not yet sending:
\* the reset of "sending" rows hits only what a crash or a rejected write left,
\* as long as no panel is mounted while the drain of an earlier one is under
\* way (the load on mount of useChatOutbox, recoverStuckSendingRows()).
THEOREM StuckInterrupted == ASSUME ~Overlap PROVE Spec => []StuckIsInterrupted
<1>1. IInv => StuckIsInterrupted
  <2> SUFFICES ASSUME IInv, NEW p \in Panels, NEW q \in Panels
               PROVE  drain[p].stuck \cap InFlight(q) = {}
    BY DEF StuckIsInterrupted
  <2>1. CASE p = q
    BY <2>1 DEF IInv, Shape, InFlight, Flying, Settling
  <2>2. CASE ~Busy(p)
    BY <2>2, IdleHasNothing DEF IInv
  <2>3. CASE ~Busy(q)
    BY <2>3, IdleHasNothing DEF IInv, NoDrain, InFlight, Flying, Settling
  <2> QED BY <2>1, <2>2, <2>3 DEF IInv, Alone
<1> QED BY <1>1, InitInvariant, InvariantStep, PTL DEF Spec

\* What a panel does leaves a row in flight marked, but for a cancel or a retry.
LEMMA MarkedByPanel ==
  ASSUME IInv, ~Overlap, FlightIsMarked, PanelNext
  PROVE  FlightIsMarked'
<1> USE DEF IInv, FlightIsMarked
<1>a. \A p \in Panels : drain'[p].pc \in Flying => drain'[p] = drain[p]
  BY PanelFrame DEF Begun, Reload, NoDrain, Flying, Settling
<1>b. \A p \in Panels : drain[p].pc \in Flying =>
        drain[p].row \in Rows /\ db[drain[p].row] # "new"
  BY DEF TypeOK, Known, Holding
<1>1. CASE UNCHANGED <<db, retries>>
  BY <1>1, <1>a
<1>2. ASSUME NEW p \in Panels, NEW r \in Rows, Queue(p, r)
      PROVE  FlightIsMarked'
  <2>1. db[r] = "new" /\ \A s \in Rows \ {r} : db'[s] = db[s]
    BY <1>2 DEF Queue, TypeOK
  <2>2. UNCHANGED retries
    BY <1>2 DEF Queue
  <2> QED BY <2>1, <2>2, <1>a, <1>b
<1>3. ASSUME NEW p \in Panels, NEW r \in Rows, Retry(p, r)
      PROVE  FlightIsMarked'
  <2>1. \A s \in Rows : db'[s] = IF s = r /\ Present(s) THEN "queued" ELSE db[s]
    <3>1. Update({r}, "queued", {}) /\ "queued" \in Statuses
      BY <1>3 DEF Retry, Statuses
    <3> QED BY <3>1, UpdateEffect
  <2>2. retries' > 0 /\ retries' > retries
    BY <1>3 DEF Retry, TypeOK
  <2> QED BY <2>1, <2>2, <1>a, <1>b
<1>4. ASSUME NEW p \in Panels, NEW r \in Rows, Cancel(p, r)
      PROVE  FlightIsMarked'
  <2>1. db'[r] = "gone" /\ \A s \in Rows \ {r} : db'[s] = db[s]
    BY <1>4, RemoveEffect DEF Cancel
  <2>2. UNCHANGED retries
    BY <1>4 DEF Cancel
  <2> QED BY <2>1, <2>2, <1>a, <1>b
<1> QED BY <1>1, <1>2, <1>3, <1>4
        DEF PanelNext, Mount, Unmount, Availability, Request, AskedDrain, Reload

\* A drain marks its row as it takes it into flight, and writes it again only
\* when it is done with it.
LEMMA MarkedByDrain ==
  ASSUME IInv, FlightIsMarked, NEW p \in Panels, StepOf(p)
  PROVE  FlightIsMarked'
<1> USE DEF IInv, FlightIsMarked
<1>a. DrainFrame(p)
  BY EveryDrainFrame
<1>b. \A q \in Panels \ {p} : drain'[q].pc \notin Flying
  <2>1. \A q \in Panels \ {p} : ~Busy(q)
    BY <1>a DEF DrainFrame, Busy, Alone
  <2> QED BY <1>a, <2>1, IdleHasNothing DEF DrainFrame, NoDrain, Flying, Settling
<1>1. CASE Transmit(p)
  <2>1. /\ drain[p].row \in Rows /\ db[drain[p].row] # "new"
        /\ drain'[p].row = drain[p].row
    BY <1>1 DEF Transmit, Goto, TypeOK, Known, Drain, Holding
  <2>2. Update({drain[p].row}, "sending", {}) /\ "sending" \in Statuses
    BY <1>1 DEF Transmit, Statuses
  <2>3. db'[drain[p].row] \in {"sending", "gone"}
    <3>1. ASSUME NEW x \in Rows, db[x] # "new", Update({x}, "sending", {})
          PROVE  db'[x] \in {"sending", "gone"}
      <4>1. db'[x] = IF x \in {x} /\ Present(x) THEN "sending" ELSE db[x]
        BY <2>2, <3>1, UpdateEffect
      <4> QED BY <3>1, <4>1 DEF Present
    <3> QED BY <2>1, <2>2, <3>1
  <2> QED BY <1>b, <2>1, <2>3
<1>2. CASE Sent(p) \/ SendFails(p) \/ RemoveFails(p)
  <2>1. UNCHANGED <<db, retries>>
    BY <1>2 DEF Sent, SendFails, RemoveFails, UnchangedTable, UnchangedPanels
  <2>2. drain[p].pc \in Flying /\ drain'[p].row = drain[p].row
    BY <1>2 DEF Sent, SendFails, RemoveFails, Goto, TypeOK, Drain, Flying, Settling
  <2> QED BY <1>b, <2>1, <2>2
<1>3. ASSUME EndDrain(p) \/ NextRow(p)
      PROVE  drain'[p].pc \notin Flying
  <2>1. drain[p] \in Drain
    BY DEF TypeOK
  <2>2. CASE EndDrain(p)
    BY <2>2 DEF EndDrain, NoDrain, TypeOK, Flying, Settling
  <2>3. CASE NextRow(p)
    BY <2>1, <2>3 DEF NextRow, TypeOK, Drain, Flying, Settling
  <2> QED BY <1>3, <2>2, <2>3
<1>4. CASE Recover(p) \/ \E r \in Rows : PickRow(p, r) \/ Quarantine(p, r)
  <2>1. drain'[p].pc \notin Flying
    <3>1. drain[p] \in Drain
      BY DEF TypeOK
    <3>2. CASE Recover(p)
      BY <3>1, <3>2 DEF Recover, NoDrain, TypeOK, Drain, Flying, Settling
    <3>3. ASSUME NEW r \in Rows, PickRow(p, r) \/ Quarantine(p, r)
          PROVE  drain'[p].pc \notin Flying
      BY <3>1, <3>3 DEF PickRow, Quarantine, TypeOK, Drain, Flying, Settling
    <3> QED BY <1>4, <3>2, <3>3
  <2> QED BY <1>b, <2>1
<1> QED BY <1>b, <1>1, <1>2, <1>3, <1>4
        DEF StepOf, RecoverFails, Drained, MarkFails, Removed, Blocked, BlockFails,
            FailureRecorded, RecordFails

\* A crash finds every row in flight marked, so that the next mount resets it
\* and nothing that was being sent stays behind, unless the user cancelled or
\* retried it; for any rejected writes and reloads, under the same condition.
THEOREM FlightMarked == ASSUME ~Overlap PROVE Spec => []FlightIsMarked
<1>1. Init => FlightIsMarked
  BY DEF Init, FlightIsMarked, NoDrain, Flying, Settling
<1>2. IInv /\ FlightIsMarked /\ [Next]_vars => FlightIsMarked'
  <2> SUFFICES ASSUME IInv, FlightIsMarked, [Next]_vars PROVE FlightIsMarked'
    OBVIOUS
  <2>1. CASE TimeNext \/ UNCHANGED vars
    BY <2>1 DEF TimeNext, BackoffOver, vars, FlightIsMarked
  <2>2. CASE DrainNext
    BY <2>2, MarkedByDrain DEF DrainNext, StepOf
  <2> QED BY <2>1, <2>2, MarkedByPanel DEF Next
<1> QED BY <1>1, <1>2, InitInvariant, InvariantStep, PTL DEF Spec
=============================================================================
