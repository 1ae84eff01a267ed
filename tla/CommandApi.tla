----------------------------- MODULE CommandApi -----------------------------
(***************************************************************************)
(* Remote commands (crates/cuepool/src/api.rs) and the ways the program    *)
(* ends (crates/cuepool/src/main.rs).                                      *)
(*                                                                         *)
(*   - The API thread runs one task at a time.  A handler of a POST runs   *)
(*     to its next `await`: the preparation of a project, in a blocking    *)
(*     thread, or the result of a shutdown.  A handler whose client leaves *)
(*     is dropped at its `await`; the blocking thread is not.              *)
(*   - The event loop takes the whole command queue as a batch, executes   *)
(*     it command by command, and sends the results back.  What the        *)
(*     operator does comes between two batches.                            *)
(*   - An accepted shutdown leads through both: the result is recorded,    *)
(*     the server lets its clients go and reports that it has ended, and   *)
(*     only then the event loop leaves.                                    *)
(*                                                                         *)
(* Command ids are given out in the order of the history, so that the      *)
(* history is a set of records and its oldest one has the smallest id.     *)
(***************************************************************************)
EXTENDS Integers, Sequences, FiniteSets

CONSTANTS
    Posts,           \* bound: POSTs to /v1/commands, numbered in the order they
                     \* are sent; a retry is another request
    NoKey,           \* a request without an Idempotency-Key
    KeyOf(_),        \* the Idempotency-Key of a request
    CommandOf(_),    \* its command: "go", "open" or "shutdown"
    QueueCapacity,   \* COMMAND_QUEUE_CAPACITY
    HistoryCapacity, \* COMMAND_HISTORY_CAPACITY
    Preparations     \* permits of project_preparation

ASSUME ApiAssumption ==
    /\ Posts \in Nat
    /\ \A r \in 1 .. Posts : CommandOf(r) \in {"go", "open", "shutdown"}
    /\ QueueCapacity \in Nat \ {0}
    /\ HistoryCapacity \in Nat \ {0}
    /\ Preparations \in Nat \ {0}

VARIABLES
    conn,      \* where the handler of each request is
    ticket,    \* the id each request was or will be answered with; 0 if it was
               \* refused or its client left
    preparing, \* requests whose project a blocking thread reads
    history,   \* ApiState::commands
    retired,   \* retired_idempotency_keys
    nextId,    \* next_command_id
    queue,     \* the channel of ApiCommandRequests: ids
    results,   \* the channel of ApiCommandResults
    server,    \* "serving", "stopping", "closed", "delivered"
    ready,     \* ApiRuntime::ready
    batch,     \* process_api_commands: what is left of its requests
    stopping,  \* App::shutdown_started_at is set
    exit,      \* how the process ended, "no" while it runs
    show,      \* what a shutdown would lose: dirty, active
    issued,    \* history: every command ever registered
    ran        \* history: ids of the commands the event loop executed

api   == <<conn, ticket, preparing, history, retired, nextId, server, issued>>
main  == <<batch, stopping, exit, show, ran>>
vars  == <<api, main, queue, results, ready>>

Requests == 1 .. Posts
Ids == 1 .. Posts
States == {"Pending", "Applied", "Rejected"}
Records == [id : Ids, key : {KeyOf(r) : r \in Requests}, command : {"go", "open", "shutdown"},
            state : States]

\* The handlers that have started and not answered.
Open == {r \in Requests : conn[r] \in {"preparing", "prepared", "waiting"}}

Running == exit = "no"

Init ==
    /\ conn = [r \in Requests |-> "unsent"]
    /\ ticket = [r \in Requests |-> 0]
    /\ preparing = {}
    /\ history = {} /\ retired = {} /\ nextId = 1
    /\ queue = <<>> /\ results = <<>>
    /\ server = "serving" /\ ready = FALSE
    /\ batch = <<>> /\ stopping = FALSE /\ exit = "no"
    /\ show = [dirty |-> FALSE, active |-> FALSE]
    /\ issued = {} /\ ran = {}

-----------------------------------------------------------------------------
(* Handlers of POST /v1/commands *)

Answer(r, id) ==
    /\ conn' = [conn EXCEPT ![r] = "done"]
    /\ ticket' = [ticket EXCEPT ![r] = id]

Refuse(r) == Answer(r, 0)

\* wait_for_shutdown_result: hold the request until the result is known.
AwaitResult(r, id) ==
    /\ conn' = [conn EXCEPT ![r] = "waiting"]
    /\ ticket' = [ticket EXCEPT ![r] = id]

\* The next request reaches the server.
Arrives(r) ==
    /\ Running /\ server = "serving" /\ conn[r] = "unsent"
    /\ r > 1 => conn[r - 1] # "unsent"

Keyed(r) == {c \in history : KeyOf(r) # NoKey /\ c.key = KeyOf(r)}

Expired(r) == KeyOf(r) # NoKey /\ KeyOf(r) \in retired

\* A key that was used before: its command is answered for, never repeated.
AnswerForKey(r) ==
    \/ \E c \in Keyed(r) :
        \/ c.command # CommandOf(r) /\ Refuse(r)
        \/ c.command = "shutdown" /\ c.command = CommandOf(r) /\ AwaitResult(r, c.id)
        \/ c.command # "shutdown" /\ c.command = CommandOf(r) /\ Answer(r, c.id)
    \/ Keyed(r) = {} /\ Expired(r) /\ Refuse(r)

Pending == {c \in history : c.state = "Pending"}
Settled == {c \in history : c.state # "Pending"}

Oldest(cs) == {c \in cs : \A d \in cs : c.id <= d.id}

\* What leaves the history for one more record: at most one, the oldest of
\* the settled ones.
Evicted == IF Cardinality(history) < HistoryCapacity THEN {} ELSE Oldest(Settled)

HistoryFull == Cardinality(history) >= HistoryCapacity /\ Settled = {}

NewCommand(r) ==
    LET c == [id |-> nextId, key |-> KeyOf(r), command |-> CommandOf(r), state |-> "Pending"]
    IN  /\ history' = (history \ Evicted) \union {c}
        /\ retired' = retired \union ({e.key : e \in Evicted} \ {NoKey})
        /\ nextId' = nextId + 1
        /\ queue' = Append(queue, nextId)
        /\ issued' = issued \union {[id |-> nextId, key |-> KeyOf(r), command |-> CommandOf(r)]}
        /\ IF CommandOf(r) = "shutdown"
           THEN AwaitResult(r, nextId)
           ELSE Answer(r, nextId)

\* register_command and the answer of its caller.
Register(r) ==
    \/ AnswerForKey(r) /\ UNCHANGED <<history, retired, nextId, queue, issued>>
    \/ /\ Keyed(r) = {} /\ ~Expired(r)
       /\ \/ /\ Len(queue) >= QueueCapacity
             /\ Refuse(r)
             /\ UNCHANGED <<history, retired, nextId, queue, issued>>
          \/ /\ Len(queue) < QueueCapacity /\ HistoryFull
             /\ Refuse(r)
             /\ nextId' = nextId + 1
             /\ UNCHANGED <<history, retired, queue, issued>>
          \/ /\ Len(queue) < QueueCapacity /\ ~HistoryFull
             /\ NewCommand(r)

\* The key is looked up first, whatever state the program is in.
PostKnown(r) ==
    /\ Arrives(r)
    /\ AnswerForKey(r)
    /\ UNCHANGED <<preparing, history, retired, nextId, server, issued, main, queue, results, ready>>

\* main_loop_responsive: not ready, or no heartbeat for two seconds.
PostUnresponsive(r) ==
    /\ Arrives(r)
    /\ Keyed(r) = {} /\ ~Expired(r)
    /\ Refuse(r)
    /\ UNCHANGED <<preparing, history, retired, nextId, server, issued, main, queue, results, ready>>

PostOpen(r) ==
    /\ Arrives(r) /\ ready
    /\ CommandOf(r) = "open" /\ Keyed(r) = {} /\ ~Expired(r)
    /\ IF Cardinality(preparing) < Preparations
       THEN /\ preparing' = preparing \union {r}
            /\ conn' = [conn EXCEPT ![r] = "preparing"]
            /\ UNCHANGED ticket
       ELSE Refuse(r) /\ UNCHANGED preparing
    /\ UNCHANGED <<history, retired, nextId, server, issued, main, queue, results, ready>>

PostOther(r) ==
    /\ Arrives(r) /\ ready
    /\ CommandOf(r) # "open" /\ Keyed(r) = {} /\ ~Expired(r)
    /\ Register(r)
    /\ UNCHANGED <<preparing, server, main, results, ready>>

\* The blocking thread is done and gives its permit back; the handler, if it
\* still exists, goes on later.
PrepareDone(r) ==
    /\ Running /\ r \in preparing
    /\ preparing' = preparing \ {r}
    /\ conn' = [conn EXCEPT ![r] = IF @ = "preparing" THEN "prepared" ELSE @]
    /\ UNCHANGED <<ticket, history, retired, nextId, server, issued, main, queue, results, ready>>

ResumeUnchecked(r) == \* mutant: the key is not looked up again
    /\ Running /\ server \in {"serving", "stopping"}
    /\ conn[r] = "prepared"
    /\ \/ Refuse(r) /\ UNCHANGED <<history, retired, nextId, queue, issued>>
       \/ Len(queue) < QueueCapacity /\ ~HistoryFull /\ NewCommand(r)
    /\ UNCHANGED <<preparing, server, main, results, ready>>

\* The project may turn out unreadable; else the key is looked up again.
Resume(r) ==
    /\ Running /\ server \in {"serving", "stopping"}
    /\ conn[r] = "prepared"
    /\ \/ Refuse(r) /\ UNCHANGED <<history, retired, nextId, queue, issued>>
       \/ Register(r)
    /\ UNCHANGED <<preparing, server, main, results, ready>>

\* wait_for_command sees a final state, or that the record is gone.
WakeUp(r) ==
    /\ Running /\ server \in {"serving", "stopping"} /\ conn[r] = "waiting"
    /\ LET c == {d \in history : d.id = ticket[r]}
       IN  \/ \E d \in c : d.state # "Pending" /\ Answer(r, d.id)
           \/ c = {} /\ Refuse(r)
    /\ UNCHANGED <<preparing, history, retired, nextId, server, issued, main, queue, results, ready>>

\* SHUTDOWN_RESULT_TIMEOUT
WaitTimesOut(r) ==
    /\ Running /\ server \in {"serving", "stopping"} /\ conn[r] = "waiting"
    /\ \E c \in history : c.id = ticket[r] /\ c.state = "Pending" /\ Answer(r, c.id)
    /\ UNCHANGED <<preparing, history, retired, nextId, server, issued, main, queue, results, ready>>

ClientLeaves(r) ==
    /\ Running /\ r \in Open
    /\ Refuse(r)
    /\ UNCHANGED <<preparing, history, retired, nextId, server, issued, main, queue,
                   results, ready>>

-----------------------------------------------------------------------------
(* Results and the end of the server *)

\* record_command_results and complete_command.
RecordResult ==
    /\ Running /\ server \in {"serving", "stopping"} /\ results # <<>>
    /\ results' = Tail(results)
    /\ LET result == Head(results)
           known  == {c \in history : c.id = result.id}
       IN  /\ history' = (history \ known) \union {[c EXCEPT !.state = result.state] : c \in known}
           /\ server' = IF \E c \in known : c.command = "shutdown" /\ result.state = "Applied"
                        THEN "stopping" ELSE server
    /\ UNCHANGED <<conn, ticket, preparing, retired, nextId, issued, main, queue, ready>>

\* Graceful shutdown: no request is open any more.
ServerEnds ==
    /\ Running /\ server = "stopping" /\ Open = {}
    /\ server' = "closed"
    /\ UNCHANGED <<conn, ticket, preparing, history, retired, nextId, issued, main, queue,
                   results, ready>>

\* SERVER_SHUTDOWN_GRACE: the handlers that are left are dropped.
GraceOver ==
    /\ Running /\ server = "stopping" /\ Open # {}
    /\ server' = "closed"
    /\ conn' = [r \in Requests |-> IF r \in Open THEN "done" ELSE conn[r]]
    /\ ticket' = [r \in Requests |-> IF r \in Open THEN 0 ELSE ticket[r]]
    /\ UNCHANGED <<preparing, history, retired, nextId, issued, main, queue, results, ready>>

\* The runtime is dropped when its blocking threads are done; then the flag
\* the event loop looks at is set.
Deliver ==
    /\ Running /\ server = "closed" /\ preparing = {}
    /\ server' = "delivered"
    /\ UNCHANGED <<conn, ticket, preparing, history, retired, nextId, issued, main, queue,
                   results, ready>>

-----------------------------------------------------------------------------
(* The event loop *)

\* resumed: the windows exist.
MarkReady ==
    /\ Running /\ ~ready /\ ~stopping
    /\ ready' = TRUE
    /\ UNCHANGED <<api, main, queue, results>>

TakeBatchRunning == \* mutant: no commands are taken once a shutdown is accepted
    /\ Running /\ ~stopping /\ batch = <<>> /\ queue # <<>>
    /\ batch' = queue /\ queue' = <<>>
    /\ UNCHANGED <<api, stopping, exit, show, ran, results, ready>>

\* process_api_commands takes all that is queued.
TakeBatch ==
    /\ Running /\ batch = <<>> /\ queue # <<>>
    /\ batch' = queue /\ queue' = <<>>
    /\ UNCHANGED <<api, stopping, exit, show, ran, results, ready>>

Reject(id) ==
    /\ results' = Append(results, [id |-> id, state |-> "Rejected"])
    /\ UNCHANGED <<show, stopping, ready>>

Apply(id) == results' = Append(results, [id |-> id, state |-> "Applied"])

\* execute_show_control.  A GO may find no cue, or start one; a project may
\* have changed on disk after it was prepared.
ExecuteGo(id) ==
    \/ Reject(id)
    \/ Apply(id) /\ show' = [show EXCEPT !.active = TRUE] /\ UNCHANGED <<stopping, ready>>

ExecuteOpen(id) ==
    \/ Reject(id)
    \/ /\ ~show.active /\ ~show.dirty
       /\ Apply(id) /\ UNCHANGED <<show, stopping, ready>>

ExecuteShutdown(id) ==
    IF show.active \/ show.dirty
    THEN Reject(id)
    ELSE Apply(id) /\ stopping' = TRUE /\ ready' = FALSE /\ UNCHANGED show

CommandOfId(id) == (CHOOSE c \in issued : c.id = id).command

ExecuteAlways == \* mutant: the rest of the batch is executed after a shutdown
    /\ Running /\ batch # <<>>
    /\ LET id == Head(batch)
       IN  /\ ran' = ran \union {id}
           /\ CASE CommandOfId(id) = "go"       -> ExecuteGo(id)
                [] CommandOfId(id) = "open"     -> ExecuteOpen(id)
                [] CommandOfId(id) = "shutdown" -> ExecuteShutdown(id)
    /\ batch' = Tail(batch)
    /\ UNCHANGED <<api, exit, queue>>

\* One request of the batch of process_api_commands.
Execute ==
    /\ Running /\ batch # <<>>
    /\ LET id == Head(batch)
       IN  IF stopping
           THEN Reject(id) /\ UNCHANGED ran
           ELSE /\ ran' = ran \union {id}
                /\ CASE CommandOfId(id) = "go"       -> ExecuteGo(id)
                     [] CommandOfId(id) = "open"     -> ExecuteOpen(id)
                     [] CommandOfId(id) = "shutdown" -> ExecuteShutdown(id)
    /\ batch' = Tail(batch)
    /\ UNCHANGED <<api, exit, queue>>

\* The rest of an iteration and the windows' events: an edit or a save, a cue
\* that starts or ends, a recording.  All of it stops with an accepted
\* shutdown.
OperatorActs ==
    /\ Running /\ batch = <<>> /\ ~stopping
    /\ \E part \in DOMAIN show : show' = [show EXCEPT ![part] = ~@]
    /\ UNCHANGED <<api, batch, stopping, exit, ran, queue, results, ready>>

\* The close button: nothing is lost, or the operator confirmed it.
CloseWindow ==
    /\ Running /\ batch = <<>> /\ ~stopping
    /\ exit' = "closed"
    /\ UNCHANGED <<api, batch, stopping, show, ran, queue, results, ready>>

\* about_to_wait once a shutdown was accepted.
ExitDelivered ==
    /\ Running /\ stopping /\ batch = <<>> /\ server = "delivered"
    /\ exit' = "delivered"
    /\ UNCHANGED <<api, batch, stopping, show, ran, queue, results, ready>>

\* API_SHUTDOWN_EXIT_TIMEOUT
ExitTimeout ==
    /\ Running /\ stopping /\ batch = <<>>
    /\ exit' = "timeout"
    /\ UNCHANGED <<api, batch, stopping, show, ran, queue, results, ready>>

Next ==
    \/ \E r \in Requests :
        \/ PostKnown(r) \/ PostUnresponsive(r) \/ PostOpen(r) \/ PostOther(r)
        \/ PrepareDone(r) \/ Resume(r) \/ WakeUp(r) \/ WaitTimesOut(r) \/ ClientLeaves(r)
    \/ RecordResult \/ ServerEnds \/ GraceOver \/ Deliver
    \/ MarkReady \/ TakeBatch \/ Execute \/ OperatorActs \/ CloseWindow
    \/ ExitDelivered \/ ExitTimeout

Spec == Init /\ [][Next]_vars

\* The threads and tasks run.  Nothing is assumed of clients, of the operator,
\* and of the three timeouts: an ending must not depend on them.
Fairness ==
    /\ \A r \in Requests : WF_vars(PrepareDone(r)) /\ WF_vars(Resume(r)) /\ WF_vars(WakeUp(r))
    /\ WF_vars(RecordResult) /\ WF_vars(ServerEnds) /\ WF_vars(Deliver)
    /\ WF_vars(TakeBatch) /\ WF_vars(Execute) /\ WF_vars(ExitDelivered)

FairSpec == Spec /\ Fairness

-----------------------------------------------------------------------------
(* Properties *)

\* The shape of the state, and the capacities of the queue and the history.
TypeOK ==
    /\ conn \in [Requests -> {"unsent", "preparing", "prepared", "waiting", "done"}]
    /\ ticket \in [Requests -> 0 .. Posts]
    /\ preparing \subseteq Requests /\ Cardinality(preparing) <= Preparations
    /\ history \subseteq Records /\ Cardinality(history) <= HistoryCapacity
    /\ retired \subseteq {KeyOf(r) : r \in Requests} \ {NoKey}
    /\ nextId \in 1 .. Posts + 1
    /\ queue \in Seq(Ids) /\ Len(queue) <= QueueCapacity
    /\ results \in Seq([id : Ids, state : {"Applied", "Rejected"}])
    /\ server \in {"serving", "stopping", "closed", "delivered"}
    /\ ready \in BOOLEAN /\ stopping \in BOOLEAN
    /\ batch \in Seq(Ids)
    /\ exit \in {"no", "closed", "delivered", "timeout"}
    /\ show \in [dirty : BOOLEAN, active : BOOLEAN]
    /\ ran \subseteq Ids

\* An Idempotency-Key makes its command run at most once: not again when the
\* request is repeated after an answer was lost, while the first one is still
\* being prepared, or when its record has left the history.
KeyRunsOnce ==
    \A a, b \in issued :
        a.key = b.key /\ a.key # NoKey /\ a.id \in ran /\ b.id \in ran => a = b

\* Two answers to requests with the same key name the same command, so that a
\* client that repeats a request polls for what the first one did.
KeyNamesOneCommand ==
    \A r, s \in Requests :
        KeyOf(r) = KeyOf(s) /\ KeyOf(r) # NoKey /\ ticket[r] # 0 /\ ticket[s] # 0
            => ticket[r] = ticket[s]

\* What a client may rely on when it repeats a request with its key.
KeyContract == KeyRunsOnce /\ KeyNamesOneCommand

Times(id, s) == Cardinality({i \in DOMAIN s : s[i] = id})

\* A command without a result is in exactly one of the queue, the batch and
\* the results, and never leaves the history: its result has a record to go
\* to and its id can be polled.
PendingIsUnderway ==
    \A id \in Ids :
        LET underway == Times(id, queue) + Times(id, batch)
                          + Cardinality({i \in DOMAIN results : results[i].id = id})
        IN  underway = IF \E c \in Pending : c.id = id THEN 1 ELSE 0

\* A shutdown that is accepted loses nothing: from then to the end of the
\* process no project is dirty, no cue plays and nothing is recorded.
ShutdownLosesNothing == stopping => ~show.dirty /\ ~show.active

\* The server stops only for a shutdown the event loop accepted; a rejected one
\* leaves both serving.
ServerStopsWithLoop == server # "serving" => stopping

\* Nothing is lost on its way, in a shutdown least of all.
NothingLost == PendingIsUnderway /\ ShutdownLosesNothing /\ ServerStopsWithLoop

\* An accepted shutdown ends the process without any of the timeouts: the
\* server waits for its clients, the clients for the event loop, and the event
\* loop for the server, but never all of them for each other.
ShutdownEnds == stopping ~> exit # "no"

\* Every registered command gets a result, unless the process ends first.
\* (Requests are finitely many, so that no pending one is passed by others
\* for ever.)
CommandsSettle == Pending # {} ~> (Pending = {} \/ ~Running)

\* Commands get their results and an accepted shutdown its end.
Settles == CommandsSettle /\ ShutdownEnds
=============================================================================
