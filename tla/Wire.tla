-------------------------------- MODULE Wire --------------------------------
(***************************************************************************)
(* The client connections of scripts: FTP, POP3, SMTP and plain sockets    *)
(* (internal/bindings/ftp.go, pop3.go, smtp.go, comm.go).                  *)
(*                                                                         *)
(* A connection is found under its id by every session.  A command is      *)
(* written and one answer line is read, under the handle's mutex; sockets  *)
(* have none.  The answers carry no name: which command an answer belongs  *)
(* to is only a matter of order.  A read that times out, and a transfer or *)
(* a mail given up half way, leave an answer behind.                       *)
(***************************************************************************)
EXTENDS Integers, Sequences

CONSTANTS
    WSess,           \* sessions and workers
    Protocol,        \* kinds of connections
    MaxCmds,         \* bound: calls
    NoOne            \* nobody holds the mutex

ASSUME WireAssumption == NoOne \notin WSess /\ MaxCmds \in Nat

VARIABLES
    wire,            \* [kind, known, open, mu]: in the handle table, connected, the mutex
    srv,             \* the commands the server has not answered
    replies,         \* the answers on their way
    client,          \* [WSess -> [op, at, id]]
    undotted,        \* ids of mails given up while their data was being sent
    late,            \* history: an answer was left behind
    wrong,           \* history: a call took an answer that was not its own
    cmds

wirevars == <<wire, srv, replies, client, undotted, late, wrong, cmds>>

AtRest == [op |-> "none", at |-> "idle", id |-> 0]

WireInit ==
    /\ wire \in [kind : Protocol, known : {FALSE}, open : {FALSE}, mu : {NoOne}]
    /\ srv = <<>> /\ replies = <<>> /\ client = [s \in WSess |-> AtRest]
    /\ undotted = <<>> /\ late = FALSE /\ wrong = FALSE /\ cmds = 0

Locked == wire.kind # "socket"

\* The calls of each protocol that need one answer, and the ones that need two: before and after the data.  The
\* commands that prepare a transfer or a mail go with its first one.
Simple(kind) == CASE kind = "ftp" -> {"cwd"} [] kind = "pop3" -> {"stat", "retr"}
                  [] kind = "smtp" -> {} [] OTHER -> {"read"}
Transfer(kind) == CASE kind = "ftp" -> {"transfer"} [] kind = "smtp" -> {"mail"} [] OTHER -> {}

-----------------------------------------------------------------------------
\* Dial, greeting and login; a step of them that fails closes the connection and registers nothing.
connect(s) ==
    /\ client[s].at = "idle" /\ ~wire.known /\ ~wire.open /\ cmds = 0
    /\ \/ wire' = [wire EXCEPT !.known = TRUE, !.open = TRUE]
       \/ UNCHANGED wire
    /\ cmds' = 1 /\ UNCHANGED <<srv, replies, client, undotted, late, wrong>>

\* An id that is not in the table is an error.
lookup(s) ==
    /\ client[s].at = "idle" /\ wire.known /\ cmds \in 1..MaxCmds /\ cmds' = cmds + 1
    /\ \E op \in Simple(wire.kind) \cup Transfer(wire.kind) :
          client' = [client EXCEPT ![s] = [op |-> op, at |-> "lock", id |-> cmds]]
    /\ UNCHANGED <<wire, srv, replies, undotted, late, wrong>>

\* Quitting takes the handle out of the table before it waits for the mutex.
lookupQuit(s) ==
    /\ client[s].at = "idle" /\ wire.known /\ cmds \in 1..MaxCmds /\ cmds' = cmds + 1
    /\ wire' = [wire EXCEPT !.known = FALSE]
    /\ client' = [client EXCEPT ![s] = [op |-> "quit", at |-> "lock", id |-> cmds]]
    /\ UNCHANGED <<srv, replies, undotted, late, wrong>>

\* The mutex is not taken.
acquireNot(s) == client[s].at = "lock" /\ UNCHANGED wire

\* h.mu.Lock in the worker.
acquire(s) ==
    /\ client[s].at = "lock"
    /\ IF Locked THEN wire.mu = NoOne /\ wire' = [wire EXCEPT !.mu = s] ELSE UNCHANGED wire

\* FTP and POP3 say QUIT.
SaysQuit == wire.kind \in {"ftp", "pop3"}

\* The command is written, after the end of a mail that was given up; on a closed connection that is an error.
sendCmd(s) ==
    /\ acquire(s) /\ (client[s].op = "quit" => SaysQuit)
    /\ srv' = IF wire.open THEN srv \o undotted \o <<client[s].id>> ELSE srv
    /\ undotted' = IF wire.open THEN <<>> ELSE undotted
    /\ client' = [client EXCEPT ![s].at = IF wire.open THEN "sent" ELSE "failed"]
    /\ UNCHANGED <<replies, late, wrong, cmds>>

\* The others only close the connection; closing a socket waits for nobody.
hangUp(s) ==
    /\ acquire(s) /\ client[s].op = "quit" /\ ~SaysQuit
    /\ client' = [client EXCEPT ![s].at = "close"]
    /\ UNCHANGED <<srv, replies, undotted, late, wrong, cmds>>

\* The server answers in order; a transfer and a mail once more when the data has come.
answer ==
    /\ srv # <<>> /\ srv' = Tail(srv) /\ replies' = Append(replies, Head(srv))
    /\ UNCHANGED <<wire, client, undotted, late, wrong, cmds>>

Read(s) == replies' = Tail(replies) /\ wrong' = (wrong \/ Head(replies) # client[s].id)

\* ftpRaw, pop3Cmd: one line, positive or not, is the answer.
readReply(s) ==
    /\ client[s].at = "sent" /\ client[s].op \notin Transfer(wire.kind) /\ replies # <<>>
    /\ Read(s) /\ client' = [client EXCEPT ![s].at = IF client[s].op = "quit" THEN "close" ELSE "done"]
    /\ UNCHANGED <<wire, srv, undotted, late, cmds>>

\* ftpTransfer, smtp_send: the preliminary answer; then the data is sent or received, and the last answer asked for.
readPreliminary(s) ==
    /\ client[s].at = "sent" /\ client[s].op \in Transfer(wire.kind) /\ replies # <<>>
    /\ Read(s)
    /\ \/ client' = [client EXCEPT ![s].at = "data"]   \* positive
       \/ client' = [client EXCEPT ![s].at = "failed"]
    /\ UNCHANGED <<wire, srv, undotted, late, cmds>>

sendData(s) ==
    /\ client[s].at = "data"
    /\ srv' = Append(srv, client[s].id) /\ client' = [client EXCEPT ![s].at = "last"]
    /\ UNCHANGED <<wire, replies, undotted, late, wrong, cmds>>

readLast(s) ==
    /\ client[s].at = "last" /\ replies # <<>>
    /\ Read(s) /\ client' = [client EXCEPT ![s].at = "done"]
    /\ UNCHANGED <<wire, srv, undotted, late, cmds>>

\* The file cannot be opened, the attachment not read: the FTP server answers the closed data connection, the mail
\* server waits for the end of the data.
giveUpData(s) ==
    /\ client[s].at = "data" /\ late' = TRUE
    /\ IF wire.kind = "ftp" THEN srv' = Append(srv, client[s].id) /\ UNCHANGED undotted
       ELSE undotted' = <<client[s].id>> /\ UNCHANGED srv
    /\ client' = [client EXCEPT ![s].at = "failed"]
    /\ UNCHANGED <<wire, replies, wrong, cmds>>

\* The read deadline; SMTP sets none.  The answer comes later, the handle stays in the table.
readTimeout(s) ==
    /\ client[s].at \in {"sent", "last"} /\ wire.kind # "smtp"
    /\ late' = TRUE
    /\ client' = [client EXCEPT ![s].at = IF client[s].op = "quit" THEN "close" ELSE "failed"]
    /\ UNCHANGED <<wire, srv, replies, undotted, wrong, cmds>>

\* QUIT's answer is ignored and the connection closed.
closeConn(s) ==
    /\ client[s].at = "close" /\ client' = [client EXCEPT ![s].at = "done"]
    /\ wire' = [wire EXCEPT !.open = FALSE] /\ srv' = <<>> /\ replies' = <<>>
    /\ UNCHANGED <<undotted, late, wrong, cmds>>

\* The deferred unlock.
release(s) ==
    /\ client[s].at \in {"done", "failed"} /\ client' = [client EXCEPT ![s] = AtRest]
    /\ wire' = IF wire.mu = s THEN [wire EXCEPT !.mu = NoOne] ELSE wire
    /\ UNCHANGED <<srv, replies, undotted, late, wrong, cmds>>

-----------------------------------------------------------------------------
WireNext ==
    \/ \E s \in WSess : connect(s) \/ lookup(s) \/ lookupQuit(s) \/ sendCmd(s) \/ hangUp(s) \/ readReply(s) \/ readPreliminary(s)
    \/ \E s \in WSess : sendData(s) \/ readLast(s) \/ giveUpData(s) \/ readTimeout(s) \/ closeConn(s) \/ release(s)
    \/ answer

WireSpec == WireInit /\ [][WireNext]_wirevars

-----------------------------------------------------------------------------
\* However the sessions share a connection, a call takes the answer to its own command, unless an earlier one left its
\* answer behind.  Sockets have no commands.
AnswerMatches == wrong => late \/ wire.kind = "socket"
=============================================================================
