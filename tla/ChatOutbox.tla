----------------------------- MODULE ChatOutbox -----------------------------
(***************************************************************************)
(* The chat outbox of one protocol: rows of the table chat_outbox          *)
(* (src/main/index.ts, the chat:outbox handlers) that the hook of a chat   *)
(* panel (src/renderer/hooks/useChatOutbox.ts) drains into the radio.      *)
(*                                                                         *)
(* A panel is one mount of ChatPanel.  App gives it the protocol as key,   *)
(* so that a change of the protocol and back unmounts one panel and mounts *)
(* another; a drain that is under way goes on without its panel.  Every    *)
(* write to the database is an IPC call that may be rejected.  Requests    *)
(* are answered in the order in which they are sent, so that a write and   *)
(* what the hook does on its answer are one step.                          *)
(*                                                                         *)
(* What the panel shows (the hook's state "rows"), the payloads, the       *)
(* number of attempts, the age of a row and the length of a back-off are   *)
(* left out: after a failure a row has to wait, or not, when its attempts  *)
(* are used up, and of the eligible rows a drain leaves out any as too old.*)
(***************************************************************************)
EXTENDS Naturals, FiniteSets

CONSTANTS
  MaxRows,    \* bound on the messages that are queued
  Legacy,     \* rows of an older version, which must not be transmitted
  Panels,     \* mounts of the chat panel
  Paced,      \* Meshtastic: sends of all panels take turns
  Overlap,    \* may a panel be mounted while the one before still drains?
  MaxFaults,  \* bound on rejected writes and reloads of the renderer
  MaxRetries  \* bound on the user's retries

\* Rows by their ids, in the order in which they are created.
Rows == 1..MaxRows
None == 0

ASSUME RowsAssumption == MaxRows \in Nat /\ Legacy \subseteq Rows
ASSUME FlagAssumption == {Paced, Overlap} \subseteq BOOLEAN
ASSUME BoundAssumption == MaxFaults \in Nat /\ MaxRetries \in Nat

VARIABLES
  db,       \* the table: status of each row
  waiting,  \* the table: rows whose next_retry_at is not over
  panel,    \* where each panel is
  ready,    \* hook: isSendAvailable, of a gone panel its last value
  asked,    \* hook: the answer to queue() or retry() will call drainOnce()
  drain,    \* hook: where its drainOnce() or its load on mount is
  acked,    \* history: rows known to be delivered and not asked for again
  ended,    \* history: rows that were delivered or cancelled
  faults,   \* number of faults, to bound the model
  retries   \* number of retries, to bound the model

vars == <<db, waiting, panel, ready, asked, drain, acked, ended, faults, retries>>

Statuses == {"new", "queued", "sending", "failed", "blocked", "gone"}
DrainPc == {"off", "load", "recover", "loop", "turn", "send", "remove",
            "block", "fail"}

\* stuck are the listed rows to be reset, todo those still to be sent.
Drain == [pc : DrainPc, stuck : SUBSET Rows, todo : SUBSET Rows,
          row : Rows \cup {None}]
NoDrain == [pc |-> "off", stuck |-> {}, todo |-> {}, row |-> None]

\* The pcs at which a row is being sent, and those after its send is over.
Settling == {"remove", "block", "fail"}
Flying == {"send"} \cup Settling
Holding == {"turn"} \cup Flying

TypeOK ==
  /\ db \in [Rows -> Statuses]
  /\ waiting \subseteq Rows
  /\ panel \in [Panels -> {"new", "mounted", "left"}]
  /\ ready \in [Panels -> BOOLEAN]
  /\ asked \in [Panels -> BOOLEAN]
  /\ drain \in [Panels -> Drain]
  /\ \A p \in Panels : drain[p].pc \in Holding => drain[p].row \in Rows \ Legacy
  /\ acked \subseteq Rows /\ ended \subseteq Rows
  /\ faults \in 0..MaxFaults
  /\ retries \in 0..MaxRetries

Init ==
  /\ db = [r \in Rows |-> "new"]
  /\ waiting = {}
  /\ panel = [p \in Panels |-> "new"]
  /\ ready = [p \in Panels |-> FALSE]
  /\ asked = [p \in Panels |-> FALSE]
  /\ drain = [p \in Panels |-> NoDrain]
  /\ acked = {} /\ ended = {}
  /\ faults = 0
  /\ retries = 0

-----------------------------------------------------------------------------
(* The table.                                                              *)

Present(r) == db[r] \notin {"new", "gone"}

\* updateStatus of the rows rs: an UPDATE, without effect on a deleted row,
\* that leaves a next_retry_at only to the rows wait.
Update(rs, status, wait) ==
  LET hit == {r \in rs : Present(r)}
  IN  /\ db' = [r \in Rows |-> IF r \in hit THEN status ELSE db[r]]
      /\ waiting' = (waiting \ hit) \cup (wait \cap hit)

Remove(r) == db' = [db EXCEPT ![r] = "gone"] /\ UNCHANGED waiting

UnchangedTable == UNCHANGED <<db, waiting>>

\* A write is rejected.
Fault == faults < MaxFaults /\ faults' = faults + 1

\* isEligibleForDrain(), of rows as they are after recoverStuckSendingRows().
Listed(status) == {r \in Rows : db[r] = status}
Eligible ==
  (Listed("queued") \cup Listed("failed") \cup Listed("sending"))
    \ waiting

-----------------------------------------------------------------------------
(* Panels.                                                                 *)

\* A panel that can still start or go on with a drain.
Busy(p) == panel[p] = "mounted" \/ asked[p] \/ drain[p].pc # "off"

\* drainOnce() up to its first write: list, and pick what to send, which are
\* the eligible rows that are not more than a day old.
Begin(chosen) ==
  [pc    |-> IF Listed("sending") # {} THEN "recover" ELSE "loop",
   stuck |-> Listed("sending"),
   todo  |-> chosen,
   row   |-> None]

\* drainOnce() returns when it is under way or when there is no radio.
DrainOnce(p, on) ==
  IF on /\ drain[p].pc = "off"
  THEN \E young \in SUBSET Eligible : drain' = [drain EXCEPT ![p] = Begin(young)]
  ELSE UNCHANGED drain

\* The load of a panel without a radio: only the reset.
Load(p) ==
  IF Listed("sending") = {} THEN UNCHANGED drain
  ELSE drain' = [drain EXCEPT ![p] = [Begin({}) EXCEPT !.pc = "load"]]

\* The first effects of a panel: its load and, if the radio is there, its
\* drain, which list the same rows and reset the same ones.  Fresh panels are
\* all alike: one of them is taken.
Mount(p) ==
  /\ panel[p] = "new" /\ p = CHOOSE q \in Panels : panel[q] = "new"
  /\ \A q \in Panels : panel[q] # "mounted" /\ (Busy(q) => Overlap)
  /\ panel' = [panel EXCEPT ![p] = "mounted"]
  /\ \E on \in BOOLEAN :
       /\ ready' = [ready EXCEPT ![p] = on]
       /\ IF on THEN DrainOnce(p, on) ELSE Load(p)
  /\ UNCHANGED <<db, waiting, asked, acked, ended, faults, retries>>

\* The protocol is changed, or the tab closed: nothing stops the drain.
Unmount(p) ==
  /\ panel[p] = "mounted"
  /\ panel' = [panel EXCEPT ![p] = "left"]
  /\ UNCHANGED <<db, waiting, ready, asked, drain, acked, ended, faults,
                 retries>>

\* The renderer is reloaded or the program crashes: what is in flight is lost,
\* also the knowledge of what was delivered and is not yet deleted.
Reload ==
  /\ Fault
  /\ \E p \in Panels : Busy(p)
  /\ panel' = [p \in Panels |-> IF panel[p] = "mounted" THEN "left" ELSE panel[p]]
  /\ asked' = [p \in Panels |-> FALSE]
  /\ drain' = [p \in Panels |-> NoDrain]
  /\ acked' = acked \ {drain[p].row : p \in Panels}
  /\ UNCHANGED <<db, waiting, ready, ended, retries>>

\* The radio comes, which drains, or goes.
Availability(p) ==
  /\ panel[p] = "mounted"
  /\ ready' = [ready EXCEPT ![p] = ~@]
  /\ DrainOnce(p, ready'[p])
  /\ UNCHANGED <<db, waiting, panel, asked, acked, ended, faults, retries>>

\* requestChatOutboxDrain(): a reconnect, MQTT or an announce asks for it.
Request(p) ==
  /\ panel[p] = "mounted" /\ ready[p] /\ drain[p].pc = "off"
  /\ DrainOnce(p, TRUE)
  /\ UNCHANGED <<db, waiting, panel, ready, asked, acked, ended, faults,
                 retries>>

\* The user's message goes into the table.
Queue(p, r) ==
  /\ panel[p] = "mounted"
  /\ db[r] = "new" /\ \A s \in Listed("new") : r <= s
  /\ db' = [db EXCEPT ![r] = "queued"]
  /\ asked' = [asked EXCEPT ![p] = @ \/ ready[p]]
  /\ UNCHANGED <<waiting, panel, ready, drain, acked, ended, faults, retries>>

\* The user retries a row that is shown as failed or blocked, which is what
\* it stays for him when the write of a later status was rejected.
Retry(p, r) ==
  /\ panel[p] = "mounted" /\ retries < MaxRetries
  /\ db[r] \in {"failed", "blocked", "sending"}
  /\ retries' = retries + 1
  /\ Update({r}, "queued", {})
  /\ asked' = [asked EXCEPT ![p] = TRUE]
  /\ acked' = acked \ {r}
  /\ UNCHANGED <<panel, ready, drain, ended, faults>>

\* queue() and retry() go on, with or without their panel.
AskedDrain(p) ==
  /\ asked[p]
  /\ asked' = [asked EXCEPT ![p] = FALSE]
  /\ DrainOnce(p, ready[p])
  /\ UNCHANGED <<db, waiting, panel, ready, acked, ended, faults, retries>>

\* The user cancels a row, sent or not.
Cancel(p, r) ==
  /\ panel[p] = "mounted" /\ Present(r)
  /\ Remove(r)
  /\ ended' = ended \cup {r}
  /\ UNCHANGED <<panel, ready, asked, drain, acked, faults, retries>>

PanelNext ==
  \/ \E p \in Panels :
       \/ Mount(p) \/ Unmount(p) \/ Availability(p) \/ Request(p) \/ AskedDrain(p)
       \/ \E r \in Rows : Queue(p, r) \/ Retry(p, r) \/ Cancel(p, r)
  \/ Reload

-----------------------------------------------------------------------------
(* Time.                                                                   *)

BackoffOver(r) ==
  /\ r \in waiting
  /\ waiting' = waiting \ {r}
  /\ UNCHANGED <<db, panel, ready, asked, drain, acked, ended, faults, retries>>

TimeNext == \E r \in Rows : BackoffOver(r)

-----------------------------------------------------------------------------
(* drainOnce() after its list.                                             *)

UnchangedPanels == UNCHANGED <<panel, ready, asked, retries>>

Goto(p, pc) == drain' = [drain EXCEPT ![p].pc = pc]
EndDrain(p) == drain' = [drain EXCEPT ![p] = NoDrain]

\* Back to the loop, done with the row.
NextRow(p) == drain' = [drain EXCEPT ![p].pc = "loop", ![p].row = None]

\* recoverStuckSendingRows(), and the same of the load: the rows listed as
\* being sent are queued again.
Recover(p) ==
  /\ drain[p].pc \in {"load", "recover"}
  /\ Update(drain[p].stuck, "queued", {})
  /\ drain' = [drain EXCEPT ![p] =
       IF @.pc = "load" THEN NoDrain ELSE [@ EXCEPT !.pc = "loop", !.stuck = {}]]
  /\ UnchangedPanels /\ UNCHANGED <<acked, ended, faults>>

\* One of these writes is rejected: the drain is over.
RecoverFails(p) ==
  /\ drain[p].pc \in {"load", "recover"}
  /\ Fault
  /\ \E written \in SUBSET drain[p].stuck : Update(written, "queued", {})
  /\ EndDrain(p)
  /\ UnchangedPanels /\ UNCHANGED <<acked, ended>>

\* Nothing left, or no radio.
Drained(p) ==
  /\ drain[p].pc = "loop"
  /\ drain[p].todo = {} \/ ~ready[p]
  /\ EndDrain(p)
  /\ UnchangedTable /\ UnchangedPanels /\ UNCHANGED <<acked, ended, faults>>

\* The oldest of the rows to be sent.
Oldest(p, r) == r \in drain[p].todo /\ \A s \in drain[p].todo : r <= s

\* Mutant of PickRow: rows of an older version are not told apart.
PickAnyRow(p, r) ==
  /\ drain[p].pc = "loop" /\ ready[p]
  /\ Oldest(p, r)
  /\ drain' = [drain EXCEPT ![p].pc = "turn", ![p].todo = @ \ {r}, ![p].row = r]
  /\ UnchangedTable /\ UnchangedPanels /\ UNCHANGED <<acked, ended, faults>>

\* It waits for its turn.
PickRow(p, r) ==
  /\ drain[p].pc = "loop" /\ ready[p]
  /\ Oldest(p, r) /\ r \notin Legacy
  /\ drain' = [drain EXCEPT ![p].pc = "turn", ![p].todo = @ \ {r}, ![p].row = r]
  /\ UnchangedTable /\ UnchangedPanels /\ UNCHANGED <<acked, ended, faults>>

\* quarantineLegacyMultipartOutboxRow(): a rejected write is ignored.
Quarantine(p, r) ==
  /\ drain[p].pc = "loop" /\ ready[p]
  /\ Oldest(p, r) /\ r \in Legacy
  /\ drain' = [drain EXCEPT ![p].todo = @ \ {r}]
  /\ \/ Update({r}, "blocked", {}) /\ UNCHANGED faults
     \/ Fault /\ UnchangedTable
  /\ UnchangedPanels /\ UNCHANGED <<acked, ended>>

\* withMeshtasticTextSendPacing(): one send at a time, whoever drains.
MyTurn(p) == Paced => \A q \in Panels \ {p} : drain[q].pc \notin Flying

\* The row is marked and handed to the radio.
Transmit(p) ==
  /\ drain[p].pc = "turn" /\ MyTurn(p)
  /\ Update({drain[p].row}, "sending", {})
  /\ Goto(p, "send")
  /\ UnchangedPanels /\ UNCHANGED <<acked, ended, faults>>

\* It cannot be marked: the whole drain is over.
MarkFails(p) ==
  /\ drain[p].pc = "turn" /\ MyTurn(p)
  /\ Fault
  /\ EndDrain(p)
  /\ UnchangedTable /\ UnchangedPanels /\ UNCHANGED <<acked, ended>>

\* sendFn() resolves and, over Reticulum, the receipt has come.
Sent(p) ==
  /\ drain[p].pc = "send"
  /\ Goto(p, "remove")
  /\ acked' = acked \cup {drain[p].row}
  /\ ended' = ended \cup {drain[p].row}
  /\ UnchangedTable /\ UnchangedPanels /\ UNCHANGED faults

\* sendFn() rejects, or the receipt says failure or does not come in time.
SendFails(p) ==
  /\ drain[p].pc = "send"
  /\ Goto(p, "fail")
  /\ UnchangedTable /\ UnchangedPanels /\ UNCHANGED <<acked, ended, faults>>

\* finalizeSuccessfulOutboxSend().
Removed(p) ==
  /\ drain[p].pc = "remove"
  /\ Remove(drain[p].row)
  /\ NextRow(p)
  /\ UnchangedPanels /\ UNCHANGED <<acked, ended, faults>>

RemoveFails(p) ==
  /\ drain[p].pc = "remove"
  /\ Fault
  /\ Goto(p, "block")
  /\ UnchangedTable /\ UnchangedPanels /\ UNCHANGED <<acked, ended>>

\* Mutant of Blocked: the row that could not be deleted is left as it is.
BlockedNot(p) ==
  /\ drain[p].pc = "block"
  /\ NextRow(p)
  /\ UnchangedTable /\ UnchangedPanels /\ UNCHANGED <<acked, ended, faults>>

\* A row that could not be deleted is blocked instead.
Blocked(p) ==
  /\ drain[p].pc = "block"
  /\ Update({drain[p].row}, "blocked", {})
  /\ NextRow(p)
  /\ UnchangedPanels /\ UNCHANGED <<acked, ended, faults>>

\* That is rejected too: that it was delivered is known to nobody.
BlockFails(p) ==
  /\ drain[p].pc = "block"
  /\ Fault
  /\ NextRow(p)
  /\ acked' = acked \ {drain[p].row}
  /\ UnchangedTable /\ UnchangedPanels /\ UNCHANGED ended

\* Mutants of FailureRecorded: a row whose attempts are used up is deleted;
\* the loop is not gone on with.
FailureDropsRow(p) ==
  /\ drain[p].pc = "fail"
  /\ \/ Update({drain[p].row}, "failed", {drain[p].row})
     \/ Remove(drain[p].row)
  /\ NextRow(p)
  /\ UnchangedPanels /\ UNCHANGED <<acked, ended, faults>>
FailureRequeues(p) ==
  /\ drain[p].pc = "fail"
  /\ Update({drain[p].row}, "failed", {})
  /\ drain' = [drain EXCEPT ![p].pc = "loop", ![p].todo = @ \cup {drain[p].row},
                            ![p].row = None]
  /\ UnchangedPanels /\ UNCHANGED <<acked, ended, faults>>

\* recordOutboxSendFailure(): blocked for want of a key, else failed, with a
\* back-off unless the attempts are used up.
FailureRecorded(p) ==
  /\ drain[p].pc = "fail"
  /\ \/ Update({drain[p].row}, "blocked", {})
     \/ \E wait \in {{}, {drain[p].row}} : Update({drain[p].row}, "failed", wait)
  /\ NextRow(p)
  /\ UnchangedPanels /\ UNCHANGED <<acked, ended, faults>>

RecordFails(p) ==
  /\ drain[p].pc = "fail"
  /\ Fault
  /\ NextRow(p)
  /\ UnchangedTable /\ UnchangedPanels /\ UNCHANGED <<acked, ended>>

DrainNext ==
  \E p \in Panels :
    \/ Recover(p) \/ RecoverFails(p) \/ Drained(p)
    \/ \E r \in Rows : PickRow(p, r) \/ Quarantine(p, r)
    \/ Transmit(p) \/ MarkFails(p) \/ Sent(p) \/ SendFails(p)
    \/ Removed(p) \/ RemoveFails(p) \/ Blocked(p) \/ BlockFails(p)
    \/ FailureRecorded(p) \/ RecordFails(p)

Next == PanelNext \/ TimeNext \/ DrainNext

Spec == Init /\ [][Next]_vars

\* IPC calls are answered, and a send ends: with its transport, or when the
\* time for a receipt is over.
DrainStep(p) ==
  \/ Recover(p) \/ Drained(p) \/ Transmit(p) \/ Sent(p) \/ SendFails(p)
  \/ Removed(p) \/ Blocked(p) \/ FailureRecorded(p)
  \/ \E r \in Rows : PickRow(p, r) \/ Quarantine(p, r)

Fairness == \A p \in Panels : WF_vars(DrainStep(p)) /\ WF_vars(AskedDrain(p))

FairSpec == Spec /\ Fairness

-----------------------------------------------------------------------------
(* Properties.                                                             *)

\* The row that p is sending, or whose send is over and not yet recorded.
InFlight(p) == IF drain[p].pc \in Flying THEN {drain[p].row} ELSE {}

\* A message goes out once: a row is not sent by two drains at a time, and not
\* sent again after it was delivered, although writes are rejected and the
\* renderer is reloaded; unless the user asks for it, the delivery was unknown
\* when the renderer went, or neither the deletion nor the block could be
\* written (drainOnce(), finalizeSuccessfulOutboxSend()).  Over Reticulum a
\* message whose receipt does not come in time is not known to be delivered,
\* and is sent again whether it has arrived or not.
SentOnce ==
  \A p \in Panels :
    /\ \A q \in Panels \ {p} : InFlight(p) \cap InFlight(q) = {}
    /\ drain[p].pc = "send" => drain[p].row \notin acked

\* "Outgoing messages are queued in SQLite and retried until delivered"
\* (README): a row leaves the table only when it was delivered or cancelled.
NothingLost == \A r \in Rows : db[r] = "gone" => r \in ended

\* "Reset any 'sending' rows left from a prior crash to 'queued'" (the load on
\* mount of useChatOutbox): a row about to be reset is not being sent.
StuckIsInterrupted ==
  \A p, q \in Panels : drain[p].stuck \cap InFlight(q) = {}

\* The other half of it: a row whose send the crash interrupts is found marked
\* as being sent, and so is reset, unless the user has cancelled it or has put
\* it back into the queue himself (drainOnce() marks before it sends).
FlightIsMarked ==
  \A p \in Panels : drain[p].pc \in Flying =>
    \/ db[drain[p].row] \in {"sending", "gone"}
    \/ retries > 0 /\ db[drain[p].row] = "queued"

\* A drain ends, so that drainingRef does not shut the outbox for good: each
\* row is tried once in a drain, and a rejected write stops or skips it.
DrainEnds == \A p \in Panels : drain[p].pc # "off" ~> drain[p].pc = "off"

-----------------------------------------------------------------------------
(* The inductive invariant behind the safety properties.                   *)

\* What a drain has at its pc: nothing when it is off, rows to be reset only
\* before the loop, and a row in hand that is not to be taken up again.
Shape ==
  \A p \in Panels :
    /\ drain[p].pc = "off" => drain[p] = NoDrain
    /\ drain[p].pc \notin {"load", "recover"} => drain[p].stuck = {}
    /\ drain[p].pc \in Holding => drain[p].row \notin drain[p].todo

\* Only rows that were queued are sent.
Known ==
  \A p \in Panels :
    /\ \A r \in drain[p].todo : db[r] # "new"
    /\ drain[p].pc \in Holding => db[drain[p].row] # "new"

\* A delivered row has ended.
Delivered ==
  \A p \in Panels : drain[p].pc \in {"remove", "block"} => drain[p].row \in ended

\* One panel at a time can drain, when none is mounted while another does.
Alone == \A p, q \in Panels : Busy(p) /\ Busy(q) => p = q

\* A row known to be delivered is in no drain's hands but the one that is
\* deleting it, and is not eligible.
Accounted ==
  \A r \in acked :
    /\ \/ db[r] \in {"gone", "blocked"}
       \/ \E p \in Panels : drain[p].pc \in {"remove", "block"} /\ drain[p].row = r
    /\ \A p \in Panels :
         /\ r \notin drain[p].todo \cup drain[p].stuck
         /\ drain[p].pc \in {"turn", "send", "fail"} => drain[p].row # r

IInv == TypeOK /\ Shape /\ Known /\ Alone /\ Accounted
=============================================================================
