----------------------------- MODULE PsrpChannel ------------------------------
(*****************************************************************************)
(* The PSRP channel: psrp clients (psrp.c) that share the pair of FIFOs of   *)
(* one server (psrplib.c).  A client takes the lock on the channel, signals  *)
(* the server with SIGINIT and writes OPEN, GRAB or CLOSE; once it has the   *)
(* server's ear it sends SIGCHAN, SIGPSRP and its request.  The server       *)
(* answers each operation with an EOP line, keeps a table of its clients and *)
(* polls them from a virtual timer (psrp_homeostat).                         *)
(*                                                                           *)
(* Signals are real-time signals: they queue, and the lowest number pending  *)
(* is delivered first.  Left out: segmentation and migration, SIGABRT,       *)
(* SIGCLIENT, servers and clients that are stopped, lost FIFOs, exit         *)
(* functions.  Clients read a line at a time; the server's stdio buffer is    *)
(* modelled, for its lines are lost when the stream is closed.               *)
(*****************************************************************************)
EXTENDS Integers, Sequences, FiniteSets, FiniteSetsExt, TLC

CONSTANTS
    Clients,       \* pids of psrp clients
    NoPid,         \* -1 in psrp_client_pid, nobody holds the lock
    Slots,         \* MAX_CLIENTS
    Verbose,       \* appl_verbose
    MayDie,        \* clients that may be killed
    MinCount       \* bound: n_clients is not counted below it

ASSUME PsrpChannelAssumption ==
    /\ NoPid \notin Clients
    /\ Slots \in Nat \ {0}
    /\ Verbose \in BOOLEAN
    /\ MayDie \subseteq Clients
    /\ MinCount \in Int /\ MinCount < 0

VARIABLES
    \* the clients
    pc,            \* what each client is doing
    lock,          \* holder of the lock on the channel
    \* the channel
    req,           \* lines in the input FIFO, client to server
    ans,           \* lines in the output FIFO, server to client
    sigs,          \* signals pending for the server
    \* the server
    sv,            \* what the server is doing
    streams,       \* psrp_in and psrp_out are open
    ahead,         \* lines of req that psrp_in has already read
    client,        \* psrp_client_pid, by slot
    count,         \* n_clients
    current,       \* c_client
    open,          \* psrp_channel_open
    mishap         \* history: what has gone wrong

serverVars == <<sv, streams, ahead, client, count, current, open>>
vars == <<pc, lock, req, ans, sigs, sv, streams, ahead, client, count, current, open,
          mishap>>

-----------------------------------------------------------------------------

Index == 0..(Slots - 1)
ENOCH == -9999

Signals == {"SIGPSRP", "SIGCHAN", "SIGINIT"}
Number(s) == CASE s = "SIGPSRP" -> 5 [] s = "SIGCHAN" -> 6 [] s = "SIGINIT" -> 7

Line(op, c) == [op |-> op, from |-> c]

Init ==
    /\ pc = [c \in Clients |-> "off"]
    /\ lock = NoPid
    /\ req = << >> /\ ans = << >>
    /\ sigs = [s \in Signals |-> 0]
    /\ sv = "main" /\ streams = FALSE /\ ahead = 0
    /\ client = [i \in Index |-> NoPid]
    /\ count = 0 /\ current = 0 /\ open = FALSE
    /\ mishap = {}

-----------------------------------------------------------------------------
(* The clients *)

Goes(c, at, to) == pc[c] = at /\ pc' = [pc EXCEPT ![c] = to]
Kill(s) == sigs' = [sigs EXCEPT ![s] = @ + 1]

(* psrp_empty_fifo, by a client, on both: what psrp_in has read is out of its *)
(* reach.                                                                    *)
EmptyFifos == req' = SubSeq(req, 1, ahead) /\ ans' = << >>

(* psrp_open_server, psrp_grab_channel and psrp_close_server begin by taking *)
(* the lock; a close empties both FIFOs.  Then the server is signalled.      *)
Begin(c, at, to) ==
    /\ Goes(c, at, to)
    /\ lock = NoPid /\ lock' = c
    /\ Kill("SIGINIT")
    /\ UNCHANGED <<serverVars, mishap>>

Open(c) == Begin(c, "off", "open") /\ UNCHANGED <<req, ans>>

Grab(c) == Begin(c, "idle", "grab") /\ UNCHANGED <<req, ans>>

Close(c) == Begin(c, "idle", "close") /\ EmptyFifos

Writes(c, at, lines, to) ==
    /\ Goes(c, at, to)
    /\ req' = req \o lines
    /\ UNCHANGED <<lock, ans, sigs, serverVars, mishap>>

Asks(c) ==
    \/ Writes(c, "open", <<Line("OPEN", c)>>, "seg")
    \/ Writes(c, "grab", <<Line("GRAB", c), Line("INFO", c)>>, "grope to chan")
    \/ Writes(c, "close", <<Line("CLOSE", c)>>, "close to off")
    \/ Writes(c, "info", <<Line("INFO", c)>>, "grope to idle")
    \/ Writes(c, "request", <<Line("REQ", c)>>, "psrp")

(* fgets: the next line, whatever it is. *)
ReadsAny(c) ==
    /\ ans # << >> /\ ans' = Tail(ans)
    /\ Goes(c, "seg", "info") \/ Goes(c, "head", "request")
    /\ UNCHANGED <<lock, req, sigs, serverVars, mishap>>

(* psrp_waitfor_endop *)
Awaited ==
    [s \in {"grope to idle", "grope to chan", "chan", "psrp", "close to off"} |->
        CASE s \in {"grope to idle", "grope to chan"} -> "EOP grope"
          [] s = "chan" -> "EOP chan"
          [] s = "psrp" -> "EOP psrp"
          [] s = "close to off" -> "EOP close"]

Skips(c) ==
    /\ pc[c] \in DOMAIN Awaited /\ ans # << >> /\ Head(ans) # Awaited[pc[c]]
    /\ ans' = Tail(ans)
    /\ UNCHANGED <<pc, lock, req, sigs, serverVars, mishap>>

Answered(c, at, to) ==
    /\ ans # << >> /\ Head(ans) = Awaited[at]
    /\ Goes(c, at, to)
    /\ UNCHANGED <<serverVars, mishap>>

OpenedMutant(c) ==                         \* mutant: EOP grope is not awaited
    /\ Goes(c, "grope to idle", "idle")
    /\ lock' = NoPid
    /\ UNCHANGED <<req, ans, sigs, serverVars, mishap>>

(* The channel lock is released once an open or a close is answered. *)
Opened(c) ==
    /\ Answered(c, "grope to idle", "idle")
    /\ ans' = Tail(ans) /\ lock' = NoPid
    /\ UNCHANGED <<req, sigs>>

Closed(c) ==
    /\ Answered(c, "close to off", "off")
    /\ ans' = Tail(ans) /\ lock' = NoPid
    /\ UNCHANGED <<req, sigs>>

GrabbedMutant2(c) ==                       \* mutant: the lock is given back here
    /\ Answered(c, "grope to chan", "chan")
    /\ ans' = Tail(ans) /\ Kill("SIGCHAN")
    /\ lock' = NoPid
    /\ UNCHANGED req

Grabbed(c) ==
    /\ Answered(c, "grope to chan", "chan")
    /\ ans' = Tail(ans) /\ Kill("SIGCHAN")
    /\ UNCHANGED <<lock, req>>

Heard(c) ==
    /\ Answered(c, "chan", "head")
    /\ ans' = Tail(ans) /\ Kill("SIGPSRP")
    /\ UNCHANGED <<lock, req>>

(* The request is answered: both FIFOs are emptied, the channel is yielded. *)
Served(c) ==
    /\ Answered(c, "psrp", "idle")
    /\ EmptyFifos /\ lock' = NoPid
    /\ UNCHANGED sigs

(* A client is killed; the kernel gives its lock back. *)
Die(c) ==
    /\ c \in MayDie /\ pc[c] # "dead"
    /\ pc' = [pc EXCEPT ![c] = "dead"]
    /\ lock' = IF lock = c THEN NoPid ELSE lock
    /\ mishap' = IF lock = c THEN mishap \cup {"died"} ELSE mishap
    /\ UNCHANGED <<req, ans, sigs, serverVars>>

Client(c) ==
    \/ Asks(c) \/ ReadsAny(c) \/ Skips(c)
    \/ Opened(c) \/ Closed(c) \/ Grabbed(c) \/ Heard(c) \/ Served(c)

-----------------------------------------------------------------------------
(* The client table *)

Free == {i \in Index : client[i] = NoPid}

(* psrp_get_client_slot: a client is looked for only while n_clients > 0. *)
Known(c) == IF count > 0 THEN {i \in Index : client[i] = c} ELSE {}

GetSlot(c) ==
    IF Known(c) # {} THEN Min(Known(c))
    ELSE IF Free # {} THEN Min(Free)
    ELSE ENOCH

Fewer(n) == Max({count - n, MinCount})

CountAfterGetMutant(c) ==                  \* mutant: known clients are counted again
    IF Free # {} THEN count + 1 ELSE count

CountAfterGet(c) == IF Known(c) = {} /\ Free # {} THEN count + 1 ELSE count

-----------------------------------------------------------------------------
(* The server: chan_handler *)

(* The server runs its main line; of the pending signals it takes s. *)
Takes(s) ==
    /\ sv = "main" /\ sigs[s] > 0
    /\ \A t \in Signals : sigs[t] > 0 => Number(s) <= Number(t)
    /\ sigs' = [sigs EXCEPT ![s] = @ - 1]

Replies(line) == ans' = Append(ans, line)

TakesLineMutant ==                         \* mutant: the line taken is counted
    /\ req' = Tail(req)
    /\ ahead' = IF ahead > 0 THEN ahead - 1 ELSE Len(req)

(* fgets on psrp_in: stdio takes all the lines there are when its buffer is  *)
(* empty.                                                                    *)
TakesLine ==
    /\ req' = Tail(req)
    /\ ahead' = IF ahead > 0 THEN ahead - 1 ELSE Len(req) - 1

(* The lines read ahead are lost with their stream.                          *)
DropsStream == req' = SubSeq(req, ahead + 1, Len(req)) /\ ahead' = 0

(* The streams are opened, anew if they were left open. *)
StartInit ==
    /\ Takes("SIGINIT")
    /\ sv' = "op" /\ streams' = TRUE /\ DropsStream
    /\ UNCHANGED <<pc, lock, ans, client, count, current, open, mishap>>

(* OPEN or GRAB: the slot is found and counted, the segment number sent. *)
ReadGrope ==
    /\ sv = "op" /\ req # << >> /\ Head(req).op \in {"OPEN", "GRAB"}
    /\ LET c == Head(req).from
       IN  /\ GetSlot(c) # ENOCH
           /\ current' = GetSlot(c)
           /\ count' = CountAfterGet(c)
    /\ TakesLine
    /\ Replies("seg")
    /\ sv' = "info"
    /\ UNCHANGED <<pc, lock, sigs, streams, client, open, mishap>>

(* The table is full: the client is told, the operation is over. *)
Refuse ==
    /\ sv = "op" /\ req # << >> /\ Head(req).op \in {"OPEN", "GRAB"}
    /\ GetSlot(Head(req).from) = ENOCH
    /\ current' = ENOCH
    /\ TakesLine
    /\ Replies("connect error")
    /\ sv' = "closing"
    /\ mishap' = mishap \cup {"refused"}
    /\ UNCHANGED <<pc, lock, sigs, streams, client, count, open>>

(* The client's pid is the number in the line it sends about itself. *)
ReadInfo ==
    /\ sv = "info" /\ req # << >>
    /\ client' = IF Head(req).op = "REQ" THEN client
                 ELSE [client EXCEPT ![current] = Head(req).from]
    /\ TakesLine
    /\ open' = TRUE
    /\ Replies("EOP grope")
    /\ sv' = "closing"
    /\ UNCHANGED <<pc, lock, sigs, streams, count, current, mishap>>

ReadCloseMutant ==                        \* mutant: the client is not answered
    /\ sv = "op" /\ req # << >> /\ Head(req).op = "CLOSE"
    /\ TakesLine
    /\ open' = FALSE
    /\ client' = IF current \in Index THEN [client EXCEPT ![current] = NoPid] ELSE client
    /\ current' = 0 /\ count' = count - 1
    /\ sv' = "closing"
    /\ UNCHANGED <<pc, lock, ans, sigs, streams, mishap>>

(* CLOSE clears the slot of c_client, whoever sent it; c_client becomes what *)
(* psrp_clear_client_slot returns.                                           *)
ReadClose ==
    /\ sv = "op" /\ req # << >> /\ Head(req).op = "CLOSE"
    /\ TakesLine
    /\ open' = FALSE
    /\ IF current \in Index
       THEN /\ count' = Fewer(1)
            /\ client' = [client EXCEPT ![current] = NoPid]
            /\ current' = 0
            /\ mishap' = mishap
                 \cup (IF client[current] # Head(req).from THEN {"astray"} ELSE {})
                 \cup (IF client[current] = NoPid THEN {"recount"} ELSE {})
       ELSE current' = -1 /\ UNCHANGED <<client, count, mishap>>   \* not an index
    /\ Replies("EOP close")
    /\ sv' = "closing"
    /\ UNCHANGED <<pc, lock, sigs, streams>>

(* Any other line is taken for a SIGCHAN. *)
ReadOther ==
    /\ sv = "op" /\ req # << >> /\ Head(req).op \in {"INFO", "REQ"}
    /\ TakesLine
    /\ Replies("EOP chan")
    /\ sv' = "main"
    /\ UNCHANGED <<pc, lock, sigs, streams, client, count, current, open, mishap>>

Chan ==
    /\ Takes("SIGCHAN")
    /\ streams' = TRUE /\ DropsStream
    /\ Replies("EOP chan")
    /\ UNCHANGED <<pc, lock, sv, client, count, current, open, mishap>>

(* The streams are closed. *)
Finish ==
    /\ sv = "closing"
    /\ sv' = "main" /\ streams' = FALSE /\ DropsStream
    /\ UNCHANGED <<pc, lock, ans, sigs, client, count, current, open, mishap>>

-----------------------------------------------------------------------------
(* The server: psrp_handler *)

(* A null stream is written to if the channel was closed in between. *)
StartPsrp ==
    /\ Takes("SIGPSRP")
    /\ IF streams
       THEN sv' = "req" /\ Replies("head")
       ELSE sv' = "null stream" /\ UNCHANGED ans
    /\ UNCHANGED <<pc, lock, req, streams, ahead, client, count, current, open, mishap>>

(* The request is parsed and executed, and answered before the streams are   *)
(* closed.                                                                   *)
ReadRequest ==
    /\ sv = "req" /\ req # << >>
    /\ TakesLine
    /\ Replies("EOP psrp")
    /\ sv' = "closing"
    /\ UNCHANGED <<pc, lock, sigs, streams, client, count, current, open, mishap>>

-----------------------------------------------------------------------------
(* The server: psrp_homeostat, from a virtual timer; SIGALRM is blocked      *)
(* while the other handlers run.                                             *)

Gone(i) == client[i] # NoPid /\ pc[client[i]] = "dead"

HomeostatMutant ==                         \* mutant: living clients are cleared
    /\ sv = "main" /\ open
    /\ client' = [i \in Index |-> IF i # current THEN NoPid ELSE client[i]]
    /\ count' = count - Cardinality({i \in Index : i # current /\ client[i] # NoPid})
    /\ open' = (count' > 0)
    /\ UNCHANGED <<pc, lock, req, ans, sigs, sv, streams, ahead, current, mishap>>

HomeostatMutant2 ==                        \* mutant: the loop ends at c_client
    /\ sv = "main" /\ open
    /\ \E i \in Index : i <= current /\ Gone(i)
    /\ client' = [i \in Index |-> IF i <= current /\ Gone(i) THEN NoPid ELSE client[i]]
    /\ count' = count - Cardinality({i \in Index : i <= current /\ Gone(i)})
    /\ open' = (count' > 0)
    /\ UNCHANGED <<pc, lock, req, ans, sigs, sv, streams, ahead, current, mishap>>

(* The other clients are polled, then the current one, whose slot may be     *)
(* empty: pups_statkill says no to that as well.  psrp_chbrk_handler clears  *)
(* their slots, closes the channel if n_clients comes by zero, and throws    *)
(* away what the current client left in open streams.                        *)
Homeostat ==
    /\ sv = "main" /\ open
    /\ LET others == {i \in Index \ {current} : Gone(i)}
           mine == {i \in Index \cap {current} : client[i] = NoPid \/ Gone(i)}
           n == Cardinality(others \cup mine)
       IN  /\ n > 0
           /\ client' = [i \in Index |-> IF i \in others \cup mine THEN NoPid ELSE client[i]]
           /\ count' = Fewer(n)
           /\ open' = (count \notin 1..n)
           /\ mishap' = mishap \cup {"recount" : i \in {j \in mine : client[j] = NoPid}}
           /\ IF mine # {} /\ streams /\ Verbose
              THEN streams' = FALSE /\ req' = << >> /\ ans' = << >> /\ ahead' = 0
              ELSE UNCHANGED <<streams, req, ans, ahead>>
    /\ UNCHANGED <<pc, lock, sigs, sv, current>>

(* c_client is not an index: what is read as a pid is no process, and the    *)
(* message about it reads far outside the tables.                            *)
HomeostatAstray ==
    /\ sv = "main" /\ open /\ current \notin Index
    /\ IF Verbose
       THEN sv' = "bad index" /\ UNCHANGED open
       ELSE open' = FALSE /\ count = 0 /\ UNCHANGED sv
    /\ UNCHANGED <<pc, lock, req, ans, sigs, streams, ahead, client, count, current, mishap>>

Server ==
    \/ StartInit \/ ReadGrope \/ Refuse \/ ReadInfo \/ ReadClose \/ ReadOther
    \/ Chan \/ Finish \/ StartPsrp \/ ReadRequest

-----------------------------------------------------------------------------

Next ==
    \/ \E c \in Clients : Open(c) \/ Grab(c) \/ Close(c) \/ Client(c) \/ Die(c)
    \/ Server \/ Homeostat \/ HomeostatAstray

Spec == Init /\ [][Next]_vars

(* Clients read and write what they have begun; the server takes its signals *)
(* and reads; a tick that is pending is delivered before the real-time       *)
(* signals whenever a handler returns.                                       *)
Fairness ==
    /\ \A c \in Clients : WF_vars(Client(c))
    /\ WF_vars(Server)
    /\ SF_vars(Homeostat)

FairSpec == Spec /\ Fairness

-----------------------------------------------------------------------------

Steps == {"off", "idle", "dead", "open", "seg", "info", "grab", "head", "request",
          "close"} \cup DOMAIN Awaited

Lines == [op: {"OPEN", "GRAB", "CLOSE", "INFO", "REQ"}, from: Clients]

Answers == {"seg", "connect error", "EOP grope", "EOP chan", "head", "EOP psrp", "EOP close"}

(* Types of the variables.                                                   *)
TypeOK ==
    /\ pc \in [Clients -> Steps]
    /\ lock \in Clients \cup {NoPid}
    /\ req \in Seq(Lines) /\ ans \in Seq(Answers)
    /\ sigs \in [Signals -> Nat]
    /\ sv \in {"main", "op", "info", "req", "closing", "null stream", "bad index"}
    /\ client \in [Index -> Clients \cup {NoPid}]
    /\ ahead \in 0..Len(req)
    /\ count \in Int /\ count >= MinCount
    /\ current \in Index \cup {ENOCH, -1}
    /\ {streams, open} \subseteq BOOLEAN
    /\ mishap \subseteq {"died", "refused", "astray", "recount"}

(* As long as nobody dies with the channel lock in hand, the channel is      *)
(* clean when the lock is free: no line of an old operation is left in a     *)
(* FIFO for the next client, and no signal is left for the server.  Nor does *)
(* psrp_handler ever find its streams closed: SIGPSRP does not overtake the  *)
(* SIGCHAN that opens them, and nobody closes them in between.               *)
CleanChannel ==
    /\ sv = "null stream" => "died" \in mishap
    /\ lock = NoPid /\ mishap \cap {"died", "refused"} = {} =>
           /\ req = << >> /\ ans = << >>
           /\ \A s \in Signals : sigs[s] = 0
           /\ sv \in {"main", "closing"}

(* The slot of a client is not taken from it by another client's operation   *)
(* or by the homeostat, unless a CLOSE hit the slot of another client.       *)
ConnectedHaveSlot ==
    mishap \cap {"died", "astray", "refused"} = {} =>
        \A c \in Clients :
            pc[c] \in {"idle", "grab", "grope to chan", "chan", "head", "request", "psrp"}
                => \E i \in Index : client[i] = c

(* However often it grabs the channel a client has one slot, and n_clients   *)
(* counts the occupied slots, the one being filled included, unless an empty *)
(* slot was cleared.                                                         *)
CountRight ==
    "recount" \notin mishap /\ "died" \notin mishap =>
        /\ \A i, j \in Index : client[i] = client[j] /\ client[i] # NoPid => i = j
        /\ count = Cardinality({i \in Index : client[i] # NoPid \/ (sv = "info" /\ i = current)})

(* The server executes a request for the client that sent it: c_client is    *)
(* the slot of its sender.                                                   *)
RequestAttributed ==
    [][ReadRequest /\ "died" \notin mishap
        => current \in Index /\ client[current] = Head(req).from]_vars

(* Whoever takes the channel gives it back: every operation is answered,     *)
(* unless a client was refused or died with the lock in hand.                *)
ChannelReleased ==
    lock # NoPid ~> lock = NoPid \/ mishap \cap {"died", "refused"} # {}

(* While the channel is open no dead client keeps its slot.                  *)
DeadAreCleared ==
    (\E i \in Index : Gone(i)) ~> ~open \/ (\A i \in Index : ~Gone(i)) \/ mishap # {}

===============================================================================
