-------------------------- MODULE ConnectorSession --------------------------
(***************************************************************************)
(* One paired Connector, the WSS workers it may connect to, the control    *)
(* plane that queues its commands and the PostgreSQL rows they share.      *)
(*                                                                         *)
(* A worker keeps a private copy of the device's rows (PersistentConnector *)
(* Gateway) and writes back whole rows, most of them under the fence of    *)
(* the connection lease.  The Connector keeps its receipts, its result     *)
(* outbox and the last Gateway sequence on disk.  The model follows one    *)
(* device, one binding and one Arena task; session.start commands are      *)
(* numbered by the session generation in their idempotency key.  The task  *)
(* travels in a command (WSS transport), or is claimed and answered over   *)
(* the Arena MCP after a wake (MCP transport).                             *)
(*                                                                         *)
(* Sockets are numbered as they are dialled.  The number stands for the    *)
(* connection generation and for the fencing token of its claim.           *)
(***************************************************************************)
EXTENDS Naturals, Sequences, FiniteSets

CONSTANTS
    Workers,          \* WSS worker processes
    NoWorker,
    MaxSockets,       \* connections that the Connector dials
    MaxIncarnations,  \* starts of the Connector process
    MaxFaults,        \* crashes, drains, expiries, revocation, deadline
    MaxSequence       \* frames numbered by the Gateway

ASSUME ConnectorConstants ==
    /\ Workers # {} /\ IsFiniteSet(Workers) /\ NoWorker \notin Workers
    /\ MaxSockets \in Nat \ {0} /\ MaxIncarnations \in Nat \ {0}
    /\ MaxFaults \in Nat /\ MaxSequence \in Nat

Sockets == 1..MaxSockets
Starts == 0..(MaxIncarnations - 1)
Task == MaxIncarnations
Commands == Starts \union {Task}
NoSession == Task
NoSocket == 0

VARIABLES
    pairing,    \* the pairing that enrols the device
    db,         \* the shared rows of the device
    lease,      \* connector_device_connection_leases: claimant and liveness
    mem,        \* each worker's copy of the rows and its current socket
    boot,       \* each worker's process: up, down, or inside initialize
    sock,       \* the sockets and the handlers that serve them
    delivery,   \* each worker's _deliver_pending_serialized
    con,        \* the Connector process and its files
    arena,      \* Arena's side: the sink, the deadline and the transport
    faults,     \* faults so far
    overwritten \* a row read before the latest claim replaced a newer one

vars == <<pairing, db, lease, mem, boot, sock, delivery, con, arena,
          faults, overwritten>>

-----------------------------------------------------------------------------
(* The rows *)

\* The device, its binding, its commands and the inbox of the task's result.
NewRows ==
    [revoked |-> FALSE, started |-> 0, seq |-> 0, inventory |-> FALSE,
     bound |-> FALSE, generation |-> 0, session |-> NoSession,
     command |-> [c \in Commands |-> "none"], made |-> [c \in Starts |-> 0],
     target |-> NoSession, result |-> "none"]

PutDevice(rows, m) ==
    [rows EXCEPT !.revoked = m.revoked, !.started = m.started, !.seq = m.seq,
                 !.inventory = m.inventory]

PutBinding(rows, m) ==
    IF m.bound
    THEN [rows EXCEPT !.generation = m.generation, !.session = m.session]
    ELSE rows

PutCommand(rows, m, c) ==
    [rows EXCEPT !.command[c] = m.command[c]]

\* The inbox row of a result is inserted once; its acceptance is never undone.
PutResult(rows, result) ==
    [rows EXCEPT !.result = IF @ = "accepted" THEN @ ELSE result]

\* What a connection and what a starting worker read.
DeviceRuntimeState == db
GatewayState == [pc |-> "loaded", rows |-> db, live |-> lease.live]

\* Rows that another connection or process has changed since they were read.
DeviceChanged(rows) == rows.seq # db.seq \/ rows.started # db.started
BindingChanged(rows) ==
    \/ rows.started # db.started
    \/ rows.generation # db.generation
    \/ rows.session # db.session

\* save_outbound_sequence: under its lease, before the frame is sent.
SaveOutboundSequence(seq) == [db EXCEPT !.seq = seq]

\* Unacknowledged deliveries go back to the queue when a connection is claimed.
Requeued(rows) ==
    [rows EXCEPT !.command =
        [c \in Commands |-> IF @[c] = "delivered" THEN "queued" ELSE @[c]]]

-----------------------------------------------------------------------------
(* Sockets, leases and fences *)

Unused == [pc |-> "unused", worker |-> NoWorker, ready |-> "hello", up |-> <<>>,
           down |-> <<>>, rows |-> NewRows]

\* A released lease, or one that ran out after its worker died.
NoLease == [socket |-> NoSocket, live |-> FALSE]

\* is_device_connection_owner: the claim of this socket is the live one.
Owner(k) == lease.socket = k /\ lease.live

\* The fence of save_gateway_state: the live claim of a device not revoked.
Fenced(k) == Owner(k) /\ ~db.revoked

\* assert_active_connection: not revoked, this worker's socket, the live claim.
ActiveConnection(k) == mem[sock[k].worker].socket = k /\ Fenced(k)

\* The lease is released and the device row saved when the token is still the
\* row's; a revoked row is left alone.
ReleaseAndSave(w, k) ==
    /\ lease' = IF lease.socket = k THEN NoLease ELSE lease
    /\ db' = IF lease.socket = k /\ ~db.revoked THEN PutDevice(db, mem[w].rows) ELSE db

\* The Connector hears nothing more on this socket.
Leave(c) == [c EXCEPT !.socket = NoSocket, !.state = "off", !.acks = {},
                      !.resend = FALSE]

\* Close codes 4403 and 4409 end the Connector process, and with it its
\* sessions and the task that is running.
Exit(c) == [Leave(c) EXCEPT !.up = FALSE, !.sessions = {}, !.running = "no",
                            !.starting = NoSession]

-----------------------------------------------------------------------------
(* Pairing and binding, on the control plane *)

CreatePairing ==
    /\ pairing \in {"none", "expired"}
    /\ pairing' = "pending"
    /\ UNCHANGED <<db, lease, mem, boot, sock, delivery, con, arena,
                   faults, overwritten>>

ApprovePairing ==
    /\ pairing = "pending"
    /\ pairing' = "approved"
    /\ UNCHANGED <<db, lease, mem, boot, sock, delivery, con, arena,
                   faults, overwritten>>

ExpirePairing ==
    /\ pairing \in {"pending", "approved"}
    /\ pairing' = "expired"
    /\ UNCHANGED <<db, lease, mem, boot, sock, delivery, con, arena,
                   faults, overwritten>>

\* The device row is inserted and the pairing cannot be used again.
ExchangePairing ==
    /\ pairing = "approved"
    /\ pairing' = "consumed"
    /\ db' = NewRows
    /\ UNCHANGED <<lease, mem, boot, sock, delivery, con, arena,
                   faults, overwritten>>

\* A binding needs a runtime of the inventory; a second request returns the
\* first binding.
MayBind(rows) == ~rows.revoked /\ rows.inventory /\ ~rows.bound

CreateBinding ==
    /\ pairing = "consumed" /\ MayBind(db)
    /\ db' = [db EXCEPT !.bound = TRUE]
    /\ UNCHANGED <<pairing, lease, mem, boot, sock, delivery, con,
                   arena, faults, overwritten>>

Revoked(rows) == [rows EXCEPT !.revoked = TRUE]

\* The control plane writes its refreshed copy back without a fence; workers
\* notice at the next check of the device row.
RevokeDevice ==
    /\ pairing = "consumed" /\ ~db.revoked /\ faults < MaxFaults
    /\ faults' = faults + 1
    /\ db' = PutDevice(db, Revoked(db))
    /\ UNCHANGED <<pairing, lease, mem, boot, sock, delivery, con,
                   arena, overwritten>>

-----------------------------------------------------------------------------
(* A worker process crashes, drains and starts *)

Idle == [pc |-> "idle", socket |-> NoSocket, command |-> Task, seq |-> 0]
NoCopy == [rows |-> NewRows, socket |-> NoSocket]

\* The sockets of a dead worker are gone, and so is the Connector's end.
DropSockets(w) ==
    /\ sock' = [k \in Sockets |-> IF sock[k].worker = w THEN Unused ELSE sock[k]]
    /\ con' = IF con.socket # NoSocket /\ sock[con.socket].worker = w
              THEN Leave(con) ELSE con

WorkerCrash(w) ==
    /\ boot[w].pc = "up" /\ faults < MaxFaults
    /\ faults' = faults + 1
    /\ boot' = [boot EXCEPT ![w].pc = "down"]
    /\ mem' = [mem EXCEPT ![w] = NoCopy]
    /\ delivery' = [delivery EXCEPT ![w] = Idle]
    /\ DropSockets(w)
    /\ UNCHANGED <<pairing, db, lease, arena, overwritten>>

\* begin_drain: the current socket is closed, its lease released and the
\* device row saved under the same token.
WorkerDrain(w) ==
    /\ boot[w].pc = "up" /\ faults < MaxFaults /\ delivery[w].pc = "idle"
    /\ faults' = faults + 1
    /\ boot' = [boot EXCEPT ![w].pc = "down"]
    /\ mem' = [mem EXCEPT ![w] = NoCopy]
    /\ IF mem[w].socket = NoSocket THEN UNCHANGED <<lease, db>>
       ELSE ReleaseAndSave(w, mem[w].socket)
    /\ DropSockets(w)
    /\ UNCHANGED <<pairing, delivery, arena, overwritten>>

\* initialize, first half: the rows are read, and whether a lease is live.
InitializeLoad(w) ==
    /\ boot[w].pc = "down"
    /\ boot' = [boot EXCEPT ![w] = GatewayState]
    /\ UNCHANGED <<pairing, db, lease, mem, sock, delivery, con, arena,
                   faults, overwritten>>

\* initialize, second half: a device that had no live lease is written back
\* offline, with its deliveries queued again, without a fence.
InitializePersist(w) ==
    /\ boot[w].pc = "loaded"
    /\ boot' = [boot EXCEPT ![w] = [pc |-> "up", rows |-> NewRows, live |-> FALSE]]
    /\ LET rows == boot[w].rows
           recover == pairing = "consumed" /\ ~boot[w].live
           back == {c \in Commands : rows.command[c] = "delivered"}
       IN /\ db' = IF recover
                   THEN [PutDevice(db, rows) EXCEPT !.command =
                           [c \in Commands |-> IF c \in back THEN "queued" ELSE @[c]]]
                   ELSE db
          /\ overwritten' = (overwritten \/ (recover /\ DeviceChanged(rows)))
    /\ UNCHANGED <<pairing, lease, mem, sock, delivery, con, arena, faults>>

-----------------------------------------------------------------------------
(* Connections *)

\* authenticate_device and the read of _refresh_device_runtime_state.
Authenticate(k) ==
    /\ sock[k].pc = "dialled"
    /\ IF db.revoked
       THEN /\ sock' = [sock EXCEPT ![k] = Unused]
            /\ con' = IF con.socket = k THEN Exit(con) ELSE con
       ELSE /\ sock' = [sock EXCEPT ![k].pc = "loaded", ![k].rows = DeviceRuntimeState]
            /\ UNCHANGED con
    /\ UNCHANGED <<pairing, db, lease, mem, boot, delivery, arena,
                   faults, overwritten>>

\* The worker's current socket is closed with 4409 by the one that replaces it.
CloseReplaced(w) ==
    IF mem[w].socket # NoSocket /\ con.socket = mem[w].socket THEN Exit(con) ELSE con

\* connect_device: the worker's copy of the device is replaced by what was read
\* and the socket becomes the worker's current one, once no delivery holds the
\* send lock.  Then the lease is claimed, the sequence merged with the shared
\* one, and the device written under the new fence; a revoked device fails the
\* fence.
ConnectDevice(k) ==
    LET w == sock[k].worker
        read == sock[k].rows
        rows == [Requeued(read) EXCEPT !.seq = IF @ < db.seq THEN db.seq ELSE @]
    IN /\ sock[k].pc = "loaded" /\ delivery[w].pc = "idle"
       /\ IF db.revoked
          THEN /\ db' = Requeued(db)
               /\ lease' = NoLease
               /\ mem' = [mem EXCEPT ![w] = NoCopy]
               /\ sock' = [sock EXCEPT ![k] = Unused]
               /\ con' = IF con.socket = k THEN Leave(con) ELSE CloseReplaced(w)
               /\ UNCHANGED overwritten
          ELSE /\ db' = PutDevice(Requeued(db), rows)
               /\ lease' = [socket |-> k, live |-> TRUE]
               /\ mem' = [mem EXCEPT ![w] = [rows |-> rows, socket |-> k]]
               /\ sock' = [sock EXCEPT ![k].pc = "open", ![k].rows = NewRows]
               /\ con' = CloseReplaced(w)
               /\ overwritten' = (overwritten \/ BindingChanged(read))
       /\ UNCHANGED <<pairing, boot, delivery, arena, faults>>

\* The copy of a device without a socket is read again before it is used.
Forgotten(k, copy) == IF copy.socket = k THEN NoCopy ELSE copy

\* disconnect_device.
Disconnected(k) ==
    LET w == sock[k].worker IN
    /\ mem' = [mem EXCEPT ![w] = Forgotten(k, @)]
    /\ ReleaseAndSave(w, k)
    /\ sock' = [sock EXCEPT ![k] = Unused]

\* The handler of a socket that the Connector has left sees the disconnect.
SocketLost(k) ==
    /\ sock[k].pc = "open" /\ con.socket # k
    /\ Disconnected(k)
    /\ UNCHANGED <<pairing, boot, delivery, con, arena, faults, overwritten>>

\* The lease runs out under an open socket, whose heartbeats can then renew
\* it no more, or after the worker has died.
LeaseExpires ==
    /\ lease.live
    /\ \/ /\ sock[lease.socket].pc = "unused"
          /\ lease' = NoLease
          /\ UNCHANGED faults
       \/ /\ sock[lease.socket].pc # "unused" /\ faults < MaxFaults
          /\ lease' = [lease EXCEPT !.live = FALSE]
          /\ faults' = faults + 1
    /\ UNCHANGED <<pairing, db, mem, boot, sock, delivery, con, arena,
                   overwritten>>

-----------------------------------------------------------------------------
(* The messages of a connected socket *)

\* Nothing is heard on a socket that the Connector has left.
Tell(k, s, m) ==
    IF con.socket = k THEN [s EXCEPT ![k].down = Append(@, m)] ELSE s

Hear(k) == [sock EXCEPT ![k].up = <<>>]
CanTell(k) == con.socket = k => Len(sock[k].down) < 2

\* The handler finds its connection replaced or revoked, and closes it with
\* 4409 or 4403.
RejectMessage(k) ==
    /\ sock[k].pc = "open" /\ sock[k].up # <<>> /\ ~ActiveConnection(k)
    /\ Disconnected(k)
    /\ con' = IF con.socket = k THEN Exit(con) ELSE con
    /\ UNCHANGED <<pairing, boot, delivery, arena, faults, overwritten>>

\* Mutant: a result in the Gateway's inbox counts as accepted.
ResultInInbox(rows) == rows.result # "none"

\* _result_ready_for_transport_ack: Arena's sink has taken the result.
ResultReady(rows) == rows.result = "accepted"

\* The statuses of the wire that a command may take, by the one it has.
Open == {"queued", "delivered", "accepted"}
Transitions(status) ==
    CASE status \in Open -> {"accepted", "completed", "interrupted", "lost", "rejected"}
      [] status = "completed" -> {"completed"}
      [] status = "interrupted" -> {"interrupted"}
      [] status \in {"lost", "rejected"} -> {"lost", "rejected"}
      [] OTHER -> {}

\* Mutant: a replayed start counts whatever its generation.
NeverOlder(rows, c) == FALSE

\* lifecycle_is_older_than_restart: the start was made before the last restart.
OlderThanRestart(rows, c) == c \in Starts /\ rows.made[c] < rows.generation

\* The binding's session after an acknowledgement: a start that is not older
\* than the last restart sets it; a lost session clears it.
SessionAfter(rows, c, status) ==
    IF c \in Starts /\ status = "completed" /\ ~OlderThanRestart(rows, c) THEN c
    ELSE IF status \in {"interrupted", "lost"} /\ (c = Task \/ OlderThanRestart(rows, c))
         THEN NoSession
         ELSE rows.session

\* A message of the expected kind on the active connection.
Receives(k, kind) ==
    /\ sock[k].pc = "open" /\ sock[k].up # <<>> /\ Head(sock[k].up).type = kind
    /\ ActiveConnection(k) /\ CanTell(k)

\* The worker's copy and the shared rows after a transition: every message
\* writes the device row (observe_inbound_sequence), under the fence.
Transition(k, rows, shared) ==
    /\ mem' = [mem EXCEPT ![sock[k].worker].rows = rows]
    /\ db' = PutDevice(shared, rows)
    /\ UNCHANGED <<pairing, lease, boot, delivery, con, faults, overwritten>>

\* The Connector's answer to the acknowledgement of its hello.
ResumeMessage ==
    [type |-> "resume", cursor |-> con.cursor, pending |-> con.outbox = "held"]

\* apply_hello: a Connector that started again ends the binding's session.
Greeted(m, started) ==
    LET restarted == m.started # 0 /\ m.started # started
    IN [m EXCEPT !.started = started,
                 !.generation = IF restarted /\ m.bound THEN @ + 1 ELSE @,
                 !.session = IF restarted THEN NoSession ELSE @]

Hello(k) ==
    LET rows == Greeted(mem[sock[k].worker].rows, Head(sock[k].up).started)
    IN /\ Receives(k, "hello") /\ sock[k].ready = "hello"
       /\ Transition(k, rows, PutBinding(db, rows))
       /\ sock' = [sock EXCEPT ![k].ready = "resume", ![k].up =
                    IF con.socket = k THEN <<ResumeMessage>> ELSE <<>>]
       /\ UNCHANGED arena

\* resume_transport: cursors are compared before anything is replayed.
ResumeAnswer(m, ask) ==
    IF ask.cursor > m.seq THEN [type |-> "error"]
    ELSE [type |-> "resumeAck", seq |-> m.seq,
          accepted |-> ask.pending /\ ResultReady(m)]

\* Deliveries begin once the resume has been answered.
Resume(k) ==
    LET m == mem[sock[k].worker].rows
        answer == ResumeAnswer(m, Head(sock[k].up))
    IN /\ Receives(k, "resume") /\ sock[k].ready = "resume"
       /\ Transition(k, m, db)
       /\ sock' = Tell(k, [Hear(k) EXCEPT ![k].ready =
                            IF answer.type = "error" THEN @ ELSE "ready"], answer)
       /\ UNCHANGED arena

\* update_inventory: the runtimes that the Connector reports replace the device's.
Inventoried(m) == [m EXCEPT !.inventory = TRUE]

UpdateInventory(k) ==
    /\ Receives(k, "inventory")
    /\ Transition(k, Inventoried(mem[sock[k].worker].rows), db)
    /\ sock' = Hear(k)
    /\ UNCHANGED arena

\* A heartbeat, sent and received: it renews the lease it still holds, and the
\* model's leases have no age.
Heartbeat(k) ==
    /\ sock[k].pc = "open" /\ sock[k].ready = "ready" /\ sock[k].up = <<>>
    /\ con.socket = k /\ con.state = "ready" /\ con.starting = NoSession
    /\ IF ActiveConnection(k)
       THEN Transition(k, mem[sock[k].worker].rows, db) /\ UNCHANGED <<sock, arena>>
       ELSE /\ Disconnected(k)
            /\ con' = Exit(con)
            /\ UNCHANGED <<pairing, boot, delivery, arena, faults, overwritten>>

Acknowledged(m, c, status) ==
    [m EXCEPT !.command[c] = status, !.session = SessionAfter(m, c, status)]

\* acknowledge_command: an unknown command or a forbidden transition is
\* answered with an error.
AcknowledgeCommand(k) ==
    LET m == mem[sock[k].worker].rows
        c == Head(sock[k].up).command
        status == Head(sock[k].up).status
        rows == Acknowledged(m, c, status)
    IN /\ Receives(k, "ack")
       /\ IF status \in Transitions(m.command[c])
          THEN /\ Transition(k, rows, PutBinding(PutCommand(db, rows, c), rows))
               /\ sock' = Hear(k)
          ELSE /\ Transition(k, m, db)
               /\ sock' = Tell(k, Hear(k), [type |-> "error"])
       /\ UNCHANGED arena

\* acknowledge_task_available: only the audit log is told.
AcknowledgeTaskAvailable(k) ==
    /\ Receives(k, "wakeAck")
    /\ Transition(k, mem[sock[k].worker].rows, db)
    /\ sock' = Hear(k)
    /\ UNCHANGED arena

\* The inbox keeps the first copy of a result.
Submitted(m) == [m EXCEPT !.result = IF @ = "none" THEN "inbox" ELSE @]

\* submit_agent_task_result: the inbox row is written, then Arena's sink takes
\* the result, or is unavailable and the Connector is told to come back.
SubmitResult(k) ==
    LET m == mem[sock[k].worker].rows
        rows == Submitted(m)
        shared == PutResult(db, rows.result)
    IN /\ Receives(k, "result")
       /\ IF m.command[Task] = "none" THEN Transition(k, m, db)
          ELSE Transition(k, rows, shared)
       /\ \/ /\ m.command[Task] # "none"
             /\ sock' = [Hear(k) EXCEPT ![k].pc = "sunk"]
             /\ arena' = [arena EXCEPT !.result = TRUE]
          \/ /\ sock' = Tell(k, Hear(k), [type |-> "error"])
             /\ UNCHANGED arena

\* The acceptance is marked without a fence, then acknowledged on the socket.
MarkAccepted(k) ==
    LET w == sock[k].worker
        known == mem[w].rows.result # "none"
    IN /\ sock[k].pc = "sunk" /\ CanTell(k)
       /\ mem' = IF known THEN [mem EXCEPT ![w].rows.result = "accepted"] ELSE mem
       /\ db' = IF known THEN PutResult(db, "accepted") ELSE db
       /\ IF ActiveConnection(k)
          THEN /\ sock' = Tell(k, [sock EXCEPT ![k].pc = "open"], [type |-> "resultAck"])
               /\ UNCHANGED con
          ELSE /\ sock' = [sock EXCEPT ![k].pc = "open"]
               /\ con' = IF con.socket = k THEN Exit(con) ELSE con
       /\ UNCHANGED <<pairing, lease, boot, delivery, arena, faults,
                      overwritten>>

-----------------------------------------------------------------------------
(* The control plane's dispatcher *)

\* The task may be claimed until it has a result or its deadline has passed.
Claimable == db.bound /\ ~arena.late /\ ~arena.result

\* The session that the task is addressed to, and the command to ask for: the
\* start of the binding's generation when it has no session.
TaskTarget == db.session
WantedCommand == IF TaskTarget = NoSession THEN db.generation ELSE Task

\* queue_command: an existing command of the same key, or a revoked device,
\* leaves nothing to insert and the claim is deferred.
MayQueue(c) ==
    /\ ~db.revoked /\ db.command[c] = "none"
    /\ c = Task => TaskTarget # NoSession

\* The command row as it is committed before any delivery.
NewCommand(c) ==
    [db EXCEPT !.command[c] = "queued",
               !.made = [i \in Starts |-> IF i = c THEN db.generation ELSE @[i]],
               !.target = IF c = Task THEN TaskTarget ELSE @]

\* Only the worker that owns the connection delivers what is inserted here.
QueueCommand(c) ==
    /\ c \in Commands /\ MayQueue(c)
    /\ db' = NewCommand(c)
    /\ UNCHANGED <<pairing, lease, mem, boot, sock, delivery, con, arena, faults,
                   overwritten>>

\* _dispatch_claim: what cannot be queued is deferred to a later claim.
DispatchClaim ==
    /\ ~arena.mcp /\ Claimable
    /\ QueueCommand(WantedCommand)

\* _ensure_managed_session: with the MCP the control plane only keeps a session.
EnsureManagedSession ==
    /\ arena.mcp /\ Claimable
    /\ TaskTarget = NoSession /\ db.generation \in Starts
    /\ QueueCommand(db.generation)

\* The task's deadline, with which its commands expire.
DeadlinePasses ==
    /\ ~arena.late /\ pairing = "consumed" /\ faults < MaxFaults
    /\ faults' = faults + 1
    /\ arena' = [arena EXCEPT !.late = TRUE]
    /\ UNCHANGED <<pairing, db, lease, mem, boot, sock, delivery, con, overwritten>>

-----------------------------------------------------------------------------
(* Delivery, one at a time per device and worker (the send lock) *)

\* The queued commands of a device that is not revoked, for its lease's owner.
QueuedCommandRoutes ==
    IF db.revoked THEN {} ELSE {c \in Commands : db.command[c] = "queued"}

\* route_shared_commands_once: the owner takes in the queued commands, and
\* their binding, that it does not hold in another status.
Routed(held) ==
    LET taken == {c \in QueuedCommandRoutes : held.command[c] \in {"none", "queued"}}
    IN IF taken = {} THEN held
       ELSE [held EXCEPT !.bound = TRUE, !.generation = db.generation,
                         !.session = db.session,
                         !.command = [c \in Commands |->
                             IF c \in taken THEN "queued" ELSE @[c]],
                         !.made = [c \in Starts |->
                             IF c \in taken THEN db.made[c] ELSE @[c]],
                         !.target = IF Task \in taken THEN db.target ELSE @]

\* Expired commands are marked in the worker's copy only.
ExpireQueued(w) ==
    /\ boot[w].pc = "up" /\ arena.late /\ mem[w].socket # NoSocket
    /\ \E c \in Commands : mem[w].rows.command[c] = "queued"
    /\ mem' = [mem EXCEPT ![w].rows.command =
                 [c \in Commands |-> IF @[c] = "queued" THEN "expired" ELSE @[c]]]
    /\ UNCHANGED <<pairing, db, lease, boot, sock, delivery, con, arena,
                   faults, overwritten>>

\* The send lock is free and the worker's ready socket still owns the device.
CanDeliver(w) ==
    LET k == mem[w].socket IN
    /\ delivery[w].pc = "idle" /\ k # NoSocket /\ sock[k].ready = "ready"
    /\ Owner(k) /\ ~mem[w].rows.revoked

\* A frame with the next number, for the command c.
Reserve(w, pc, c, rows) ==
    /\ rows.seq < MaxSequence
    /\ delivery' = [delivery EXCEPT ![w] =
                     [pc |-> pc, socket |-> mem[w].socket, command |-> c,
                      seq |-> rows.seq + 1]]
    /\ mem' = [mem EXCEPT ![w].rows = [rows EXCEPT !.seq = @ + 1]]

\* Mutant: the frame is sent before its number is stored.
ReserveUnsaved(w) ==
    LET rows == Routed(mem[w].rows)
    IN /\ CanDeliver(w) /\ ~arena.late
       /\ \E c \in Commands : rows.command[c] = "queued" /\ Reserve(w, "stored", c, rows)
       /\ UNCHANGED <<pairing, db, lease, boot, sock, con, arena, faults,
                      overwritten>>

\* After the routing, a sequence number is reserved for a queued command of
\* the ready socket, and stored under its lease before the frame is sent.
ReserveSequence(w) ==
    LET rows == Routed(mem[w].rows)
    IN /\ CanDeliver(w) /\ ~arena.late
       /\ \E c \in Commands : rows.command[c] = "queued" /\ Reserve(w, "stored", c, rows)
       /\ db' = SaveOutboundSequence(rows.seq + 1)
       /\ UNCHANGED <<pairing, lease, boot, sock, con, arena, faults,
                      overwritten>>

\* list_bindings: the worker's copy of the binding is replaced by the shared one.
SharedBinding(held) ==
    [held EXCEPT !.bound = db.bound, !.generation = db.generation, !.session = db.session]

\* list_connector_task_wakes: every open task of a ready binding.
Wakes == arena.mcp /\ Claimable

\* run_once of a worker's notifier: the bindings are read again, and a task
\* whose binding has a session is announced with the next sequence number.
NotifyTaskAvailable(w) ==
    LET rows == SharedBinding(mem[w].rows)
    IN /\ Wakes /\ TaskTarget # NoSession
       /\ CanDeliver(w)
       /\ Reserve(w, "wake", Task, rows)
       /\ db' = SaveOutboundSequence(rows.seq + 1)
       /\ UNCHANGED <<pairing, lease, boot, sock, con, arena, faults, overwritten>>

\* The device row is saved after a wake, under the fence.
SaveAfterWake(w, k) == db' = IF Fenced(k) THEN PutDevice(db, mem[w].rows) ELSE db

\* notify_task_available: the wake is sent by the owner of the connection.
SendWake(w) ==
    LET d == delivery[w]
        k == d.socket
    IN /\ d.pc = "wake" /\ CanTell(k)
       /\ delivery' = [delivery EXCEPT ![w] = Idle]
       /\ IF Owner(k) /\ sock[k].pc # "unused"
          THEN /\ sock' = Tell(k, sock, [type |-> "wake", seq |-> d.seq])
               /\ SaveAfterWake(w, k)
          ELSE UNCHANGED <<sock, db>>
       /\ UNCHANGED <<pairing, mem, lease, boot, con, arena, faults, overwritten>>

\* The frame is sent on the socket that the delivery began with.
SendFrame(w) ==
    LET d == delivery[w]
        k == d.socket
        marks == mem[w].socket = k /\ mem[w].rows.command[d.command] = "queued"
        frame == [type |-> "frame", command |-> d.command, seq |-> d.seq,
                  target |-> mem[w].rows.target]
    IN /\ d.pc = "stored" /\ CanTell(k)
       /\ IF Owner(k) /\ sock[k].pc # "unused"
          THEN /\ sock' = Tell(k, sock, frame)
               /\ mem' = IF marks
                         THEN [mem EXCEPT ![w].rows.command[d.command] = "delivered"]
                         ELSE mem
               /\ delivery' = [delivery EXCEPT ![w] =
                                IF marks THEN [d EXCEPT !.pc = "sent"] ELSE Idle]
          ELSE /\ delivery' = [delivery EXCEPT ![w] = Idle]
               /\ UNCHANGED <<sock, mem>>
       /\ UNCHANGED <<pairing, db, lease, boot, con, arena, faults, overwritten>>

\* The row is updated only if it is still queued and the lease still held.
SavedForOwner(d) == Owner(d.socket) /\ db.command[d.command] = "queued"

\* _commit_command_delivery: a takeover or a faster acknowledgement wins, and
\* the worker's copy goes back to queued.
CommitCommandDelivery(w) ==
    LET d == delivery[w]
        committed == SavedForOwner(d)
    IN /\ d.pc = "sent"
       /\ db' = IF committed THEN [db EXCEPT !.command[d.command] = "delivered"] ELSE db
       /\ mem' = IF ~committed /\ mem[w].rows.command[d.command] = "delivered"
                 THEN [mem EXCEPT ![w].rows.command[d.command] = "queued"] ELSE mem
       /\ delivery' = [delivery EXCEPT ![w] = Idle]
       /\ UNCHANGED <<pairing, lease, boot, sock, con, arena, faults,
                      overwritten>>

-----------------------------------------------------------------------------
(* The Connector process *)

ConnectorUnchanged ==
    UNCHANGED <<pairing, db, lease, mem, boot, delivery, arena, faults,
                overwritten>>

\* Run: receipts that say accepted belong to a process that is gone.
StartConnector ==
    /\ pairing = "consumed" /\ ~con.up /\ con.inc < MaxIncarnations
    /\ con' = [con EXCEPT !.up = TRUE, !.inc = @ + 1,
                 !.receipts = [c \in Commands |->
                     IF @[c] = "accepted" THEN "interrupted" ELSE @[c]]]
    /\ UNCHANGED sock /\ ConnectorUnchanged

\* A new process is only of interest while one can still be started.
CrashConnector ==
    /\ con.up /\ con.inc < MaxIncarnations /\ faults < MaxFaults
    /\ faults' = faults + 1
    /\ con' = Exit(con)
    /\ UNCHANGED <<pairing, db, lease, mem, boot, sock, delivery, arena, overwritten>>

\* Either worker may accept the socket; the first message is hello.
Dial(w) ==
    /\ con.up /\ con.socket = NoSocket /\ con.starting = NoSession
    /\ boot[w].pc = "up"
    /\ LET k == con.dials + 1 IN
        /\ k \in Sockets
        /\ con' = [con EXCEPT !.socket = k, !.dials = k, !.state = "hello"]
        /\ sock' = [sock EXCEPT ![k] =
                     [Unused EXCEPT !.pc = "dialled", !.worker = w,
                                    !.up = <<[type |-> "hello", started |-> con.inc]>>]]
    /\ ConnectorUnchanged

\* The network drops the socket, or the Connector gives it up.
LoseSocket ==
    /\ con.socket # NoSocket /\ faults < MaxFaults
    /\ faults' = faults + 1
    /\ con' = Leave(con)
    /\ sock' = [sock EXCEPT ![con.socket].down = <<>>]
    /\ UNCHANGED <<pairing, db, lease, mem, boot, delivery, arena, overwritten>>

\* The oldest message from the Gateway is taken off the socket.
Incoming(kind) ==
    /\ con.socket # NoSocket /\ con.starting = NoSession
    /\ sock[con.socket].down # <<>> /\ Head(sock[con.socket].down).type = kind
Message == Head(sock[con.socket].down)
Taken == [sock EXCEPT ![con.socket].down = Tail(@)]
Dropped == [sock EXCEPT ![con.socket].down = <<>>]

\* Receipts of tasks that came over the MCP are not sent on the socket.
Reported == IF arena.mcp THEN Starts ELSE Commands
Answer(c, command) == [c EXCEPT !.acks = @ \union ({command} \intersect Reported)]

\* canRetryInterruptedArenaTask: the receipt was interrupted by a restart, and
\* the same task comes under another command, named for its session.
Retries(c, command, target) ==
    command = Task /\ arena.mcp /\ c.receipts[Task] = "interrupted" /\ c.asked # target

\* Mutant: only a final receipt answers a command that is sent again.
HandleUnfinished(c, command, target) ==
    IF c.receipts[command] \in {"completed", "lost", "rejected", "interrupted"}
    THEN Answer(c, command)
    ELSE IF command \in Starts
         THEN [c EXCEPT !.receipts[command] = "accepted", !.starting = command]
    ELSE [Answer(c, Task) EXCEPT !.receipts[Task] = "accepted", !.asked = target,
                                 !.running = "yes", !.runs = @ + 1]

\* Supervisor.Handle: a receipt answers a command that was handled before;
\* otherwise the command is claimed in a receipt and carried out.
Handle(c, command, target) ==
    IF c.receipts[command] # "none" /\ ~Retries(c, command, target)
    THEN Answer(c, command)
    ELSE IF arena.late
         THEN [Answer(c, command) EXCEPT !.receipts[command] = "rejected"]
    ELSE IF command \in Starts
         THEN [c EXCEPT !.receipts[command] = "accepted", !.starting = command]
    ELSE IF target \notin c.sessions
         THEN [Answer(c, Task) EXCEPT !.receipts[Task] = "lost", !.asked = target]
    ELSE [Answer(c, Task) EXCEPT !.receipts[Task] = "accepted", !.asked = target,
                                 !.running = "yes", !.runs = @ + 1]

\* exchange_execution_token: the device is authenticated and its binding found.
TokenRefused == db.revoked

\* claim_connector_task: an open task is leased to the binding, or is already its
\* own.
ClaimConnectorTask == Claimable

\* ArenaTaskBroker.claim: the lease is given back when the binding has no
\* session.
Claim(c) ==
    IF ClaimConnectorTask /\ TaskTarget # NoSession THEN Handle(c, Task, TaskTarget) ELSE c

\* ArenaTaskBroker.sync: the open tasks of the binding are claimed; without a
\* token the connection ends.
Synced(c) ==
    IF ~arena.mcp \/ ~db.bound THEN c
    ELSE IF TokenRefused THEN Leave(c) ELSE Claim(c)

\* The cursor follows the Gateway, an accepted result leaves the outbox, the
\* tasks are synchronised, the inventory is sent, and the receipts and the
\* result are replayed.
RecvResumeAck ==
    LET resumed == Synced([con EXCEPT !.state = "ready", !.cursor = Message.seq,
                     !.outbox = IF Message.accepted THEN "dropped" ELSE @,
                     !.acks = {c \in Reported : con.receipts[c] # "none"},
                     !.resend = con.outbox = "held" /\ ~Message.accepted])
    IN /\ Incoming("resumeAck")
       /\ con' = resumed
       /\ sock' = IF resumed.socket = NoSocket THEN Dropped
                  ELSE [Taken EXCEPT ![con.socket].up = <<[type |-> "inventory"]>>]
       /\ ConnectorUnchanged

\* An error of the Gateway ends the connection; it is dialled again.
RecvError ==
    /\ Incoming("error")
    /\ con' = Leave(con)
    /\ sock' = Dropped
    /\ ConnectorUnchanged

RecvResultAck ==
    /\ Incoming("resultAck")
    /\ con' = [con EXCEPT !.outbox = "dropped"]
    /\ sock' = Taken
    /\ ConnectorUnchanged

\* observeGatewaySequence: over WSS a frame beyond the next one is not handled,
\* over the MCP the tasks are synchronised first.
SequenceGap == con.cursor # 0 /\ Message.seq > con.cursor + 1
Seen ==
    LET seen == [con EXCEPT !.cursor = IF Message.seq > @ THEN Message.seq ELSE @]
    IN IF ~SequenceGap THEN seen ELSE IF arena.mcp THEN Synced(seen) ELSE Leave(con)

RecvCommand ==
    /\ Incoming("frame")
    /\ con' = IF Seen.socket = NoSocket THEN Seen
              ELSE Handle(Seen, Message.command, Message.target)
    /\ sock' = IF Seen.socket = NoSocket THEN Dropped ELSE Taken
    /\ ConnectorUnchanged

\* handleMCPTask: the wake is acknowledged and the task claimed; a wake past
\* its deadline, or without a token, ends the connection.
RecvTaskAvailable ==
    LET ended == Seen.socket = NoSocket \/ arena.late
        answer == <<[type |-> "wakeAck"]>>
    IN /\ Incoming("wake") /\ sock[con.socket].up = <<>>
       /\ con' = IF ended \/ TokenRefused THEN Leave(Seen) ELSE Claim(Seen)
       /\ sock' = IF ended THEN Dropped
                  ELSE IF TokenRefused THEN [Dropped EXCEPT ![con.socket].up = answer]
                  ELSE [Taken EXCEPT ![con.socket].up = answer]
       /\ ConnectorUnchanged

\* startSession, and the final receipt of the command.
StartSession ==
    LET c == con.starting IN
    /\ c # NoSession
    /\ con' = [con EXCEPT !.starting = NoSession, !.receipts[c] = "completed",
                          !.sessions = @ \union {c}, !.born[c] = con.inc,
                          !.acks = IF con.socket # NoSocket THEN @ \union {c} ELSE @]
    /\ UNCHANGED sock /\ ConnectorUnchanged

\* observeTask: the result is stored before the receipt that ends the task.  A
\* result that differs from the one still held degrades the store, which ends
\* the process.
SaveAgentTaskResult ==
    /\ con.running = "yes"
    /\ \/ con' = [con EXCEPT !.running = "saved", !.outbox = "held"]
       \/ con.outbox = "held" /\ con' = Exit(con)
    /\ UNCHANGED sock /\ ConnectorUnchanged

SaveFinalReceipt ==
    /\ con.running = "saved"
    /\ con' = [con EXCEPT !.running = "no", !.receipts[Task] = "completed",
                          !.acks = IF con.socket # NoSocket
                                   THEN @ \union ({Task} \intersect Reported) ELSE @,
                          !.resend = con.socket # NoSocket]
    /\ UNCHANGED sock /\ ConnectorUnchanged

\* A ready connection sends one message at a time: receipts and updates of
\* commands, and the result.
Sends(c, m) ==
    /\ con.state = "ready" /\ con.socket # NoSocket /\ con.starting = NoSession
    /\ sock[con.socket].up = <<>>
    /\ con' = c
    /\ sock' = [sock EXCEPT ![con.socket].up = <<m>>]
    /\ ConnectorUnchanged

SendCommandAck ==
    \E c \in con.acks :
        Sends([con EXCEPT !.acks = @ \ {c}],
              [type |-> "ack", command |-> c, status |-> con.receipts[c]])

SendResult ==
    /\ con.resend /\ ~arena.mcp
    /\ IF con.outbox = "held"
       THEN Sends([con EXCEPT !.resend = FALSE], [type |-> "result"])
       ELSE /\ con' = [con EXCEPT !.resend = FALSE]
            /\ UNCHANGED sock /\ ConnectorUnchanged

\* submitMCPResult: the broker hands the result to the sink; without its answer
\* the result stays in the outbox and the connection is dialled again.
SubmitMCPResult ==
    /\ con.resend /\ arena.mcp
    /\ con.state = "ready" /\ con.socket # NoSocket /\ con.starting = NoSession
    /\ \E taken, answered \in BOOLEAN :
        /\ taken => ~TokenRefused
        /\ arena' = [arena EXCEPT !.result = @ \/ taken]
        /\ con' = IF taken /\ answered THEN [con EXCEPT !.resend = FALSE, !.outbox = "dropped"]
                  ELSE Leave(con)
        /\ sock' = IF taken /\ answered THEN sock ELSE Dropped
    /\ UNCHANGED <<pairing, db, lease, mem, boot, delivery, faults, overwritten>>

-----------------------------------------------------------------------------
(* The specification *)

Init ==
    /\ pairing = "none"
    /\ db = NewRows
    /\ lease = NoLease
    /\ mem = [w \in Workers |-> NoCopy]
    /\ boot = [w \in Workers |-> [pc |-> "up", rows |-> NewRows, live |-> FALSE]]
    /\ sock = [k \in Sockets |-> Unused]
    /\ delivery = [w \in Workers |-> Idle]
    /\ con = [up |-> FALSE, inc |-> 0, socket |-> NoSocket, dials |-> 0, state |-> "off",
              cursor |-> 0, sessions |-> {}, running |-> "no", starting |-> NoSession,
              receipts |-> [c \in Commands |-> "none"], acks |-> {}, outbox |-> "none",
              resend |-> FALSE, runs |-> 0, asked |-> NoSession, born |-> [c \in Starts |-> 0]]
    /\ \E mcp \in BOOLEAN : arena = [late |-> FALSE, result |-> FALSE, mcp |-> mcp]
    /\ faults = 0
    /\ overwritten = FALSE

ControlPlane ==
    \/ CreatePairing \/ ApprovePairing \/ ExpirePairing \/ ExchangePairing
    \/ CreateBinding \/ RevokeDevice
    \/ DispatchClaim \/ EnsureManagedSession \/ DeadlinePasses

Worker(w) ==
    \/ WorkerCrash(w) \/ WorkerDrain(w) \/ InitializeLoad(w) \/ InitializePersist(w)
    \/ ExpireQueued(w) \/ ReserveSequence(w)
    \/ SendFrame(w) \/ CommitCommandDelivery(w)
    \/ NotifyTaskAvailable(w) \/ SendWake(w)

Handler(k) ==
    \/ Authenticate(k) \/ ConnectDevice(k) \/ SocketLost(k) \/ RejectMessage(k)
    \/ Hello(k) \/ Resume(k) \/ UpdateInventory(k) \/ AcknowledgeTaskAvailable(k)
    \/ Heartbeat(k) \/ AcknowledgeCommand(k) \/ SubmitResult(k) \/ MarkAccepted(k)

Connector ==
    \/ StartConnector \/ CrashConnector \/ (\E w \in Workers : Dial(w)) \/ LoseSocket
    \/ RecvResumeAck \/ RecvError \/ RecvResultAck
    \/ RecvCommand \/ RecvTaskAvailable \/ StartSession \/ SaveAgentTaskResult \/ SaveFinalReceipt
    \/ SendCommandAck \/ SendResult \/ SubmitMCPResult

Next ==
    \/ ControlPlane
    \/ \E w \in Workers : Worker(w)
    \/ \E k \in Sockets : Handler(k)
    \/ Connector
    \/ LeaseExpires

Spec == Init /\ [][Next]_vars

-----------------------------------------------------------------------------
(* Properties *)

\* A result that the Connector no longer keeps has been taken by Arena: the
\* Gateway acknowledges it (agent_task.result.ack, or in resume.ack after a
\* reconnect, a worker crash or a takeover) only behind the sink.
ResultsReachArena == con.outbox = "dropped" => arena.result

\* Over WSS the task is started at most once, however often its command is sent
\* again after a lost acknowledgement, a takeover or a restart of either side.
\* Over the MCP, which announces it again and again, it is started at most once
\* in each Connector process.
RunOnce == con.runs <= IF arena.mcp THEN con.inc ELSE 1

\* The session that the binding advertises belongs to the Connector process
\* that said hello last: a receipt replayed after a restart does not bring
\* back a session that died with the older process.  Connections set up from
\* rows that have changed since they were read are set aside.
SessionNeverStale ==
    (~overwritten /\ db.session \in Starts) => con.born[db.session] = db.started

\* The stored outbound sequence is never behind a frame that the Connector
\* has seen, so that its resume is not refused as being ahead of the Gateway.
CursorCovers == ~overwritten => con.cursor <= db.seq

=============================================================================
