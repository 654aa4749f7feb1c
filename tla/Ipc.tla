--------------------------------- MODULE Ipc ---------------------------------
(* The named pipe between the GUI and the service (internal/ipc, with the  *)
(* part of internal/app that connects).                                    *)
(*                                                                         *)
(* The client has one current connection, a read loop for every connection *)
(* it ever made, and a map of the calls that wait for a reply.  A read     *)
(* loop hands a reply to the call of that id; when its connection ends it  *)
(* fails every call in the map.  Client.mu covers each look at the map,    *)
(* but neither the dial, the write of a request nor the use of a channel   *)
(* that was taken from the map.                                            *)
EXTENDS Naturals, Sequences, FiniteSets

CONSTANTS
    Calls,        \* calls of Client.Call, by message id
    Verdicts,     \* messages the service broadcasts
    Connectors,   \* goroutines that may be in App.Connect at one time
    None,         \* nil
    MaxConns,     \* bound on the connections made
    MaxFaults     \* bound on stops of the service and writes that reach their deadline

Conns   == 1..MaxConns
Errors  == {"disconnected", "notConnected", "sendFailed", "timeout"}
Results == Errors \cup {"reply", "none"}

ASSUME IpcAssumption ==
    /\ None \notin Conns /\ Calls \cap Verdicts = {}
    /\ IsFiniteSet(Calls)
    /\ MaxConns \in Nat /\ MaxFaults \in Nat

VARIABLES
    up,         \* the service listens
    clients,    \* Server.clients
    link,       \* each connection: who has closed it
    toServer, toClient,   \* what each connection carries
    conn,       \* Client.conn
    closed,     \* Client.closed
    pending,    \* Client.pending: the ids of the calls that wait
    chan,       \* each call's channel
    call,       \* where each call is
    on,         \* the connection it writes to
    result,     \* what it returns
    reader,     \* the read loop of each connection
    hand,       \* the calls whose channels a read loop has taken from pending
    connector,  \* where each connecting goroutine is
    dialled,    \* the connection it has made
    wanted,     \* calls of App.Connect still to be made
    quit,       \* App.Disconnect was called
    gaveUp,     \* history: ConnectRetry has returned an error
    reg,        \* history: the connection a call found when it registered
    served,     \* history: how often the service has handled each request
    sent,       \* verdicts broadcast so far
    out,        \* the connections each broadcast has still to write to
    faults      \* stops and late writes so far

server  == <<up, clients, sent, out, served>>
wire    == <<link, toServer, toClient>>
client  == <<conn, closed, pending, chan>>
callers == <<call, on, result, reg>>
readers == <<reader, hand>>
app     == <<connector, dialled, wanted, quit, gaveUp>>
vars    == <<server, wire, client, callers, readers, app, faults>>

TypeOK ==
    /\ up \in BOOLEAN /\ clients \subseteq Conns
    /\ sent \subseteq Verdicts /\ out \in [Verdicts -> SUBSET Conns]
    /\ served \in [Calls -> Nat]
    /\ link \in [Conns -> {"unused", "open", "serverShut", "clientShut"}]
    /\ toServer \in [Conns -> Seq(Calls)]
    /\ toClient \in [Conns -> Seq(Calls \cup Verdicts)]
    /\ conn \in Conns \cup {None} /\ closed \in BOOLEAN
    /\ pending \subseteq Calls
    /\ chan \in [Calls -> {"empty", "reply", "closed"}]
    /\ call \in [Calls -> {"new", "registered", "sending", "waiting", "failing", "done"}]
    /\ on \in [Calls -> Conns \cup {None}] /\ reg \in [Calls -> Conns \cup {None}]
    /\ result \in [Calls -> Results]
    /\ reader \in [Conns -> {"none", "read", "deliver", "drop", "done"}]
    /\ hand \in [Conns -> SUBSET Calls]
    /\ connector \in [Connectors -> {"idle", "dial", "install"}]
    /\ dialled \in [Connectors -> Conns \cup {None}]
    /\ wanted \in Nat /\ quit \in BOOLEAN /\ gaveUp \in BOOLEAN
    /\ faults \in Nat

(* The GUI starts: OnStartup and the page's boot both call App.Connect. *)
Init ==
    /\ up \in BOOLEAN /\ clients = {} /\ sent = {} /\ out = [v \in Verdicts |-> {}]
    /\ served = [x \in Calls |-> 0]
    /\ link = [k \in Conns |-> "unused"]
    /\ toServer = [k \in Conns |-> <<>>] /\ toClient = [k \in Conns |-> <<>>]
    /\ conn = None /\ closed = FALSE /\ pending = {}
    /\ chan = [x \in Calls |-> "empty"]
    /\ call = [x \in Calls |-> "new"]
    /\ on = [x \in Calls |-> None] /\ reg = [x \in Calls |-> None]
    /\ result = [x \in Calls |-> "none"]
    /\ reader = [k \in Conns |-> "none"] /\ hand = [k \in Conns |-> {}]
    /\ connector = [p \in Connectors |-> "idle"]
    /\ dialled = [p \in Connectors |-> None]
    /\ wanted = 2 /\ quit = FALSE /\ gaveUp = FALSE
    /\ faults = 0

-----------------------------------------------------------------------------
(* Client.Call *)

Goto(x, step) == call' = [call EXCEPT ![x] = step]

Fail(x, error) ==
    /\ Goto(x, "failing")
    /\ result' = [result EXCEPT ![x] = error]

Finish(x, r) ==
    /\ Goto(x, "done")
    /\ result' = [result EXCEPT ![x] = r]

(* Mutant of Register: the connection is not looked at. *)
RegisterBlind(x) ==
    /\ call[x] = "new"
    /\ pending' = pending \cup {x}
    /\ reg' = [reg EXCEPT ![x] = conn]
    /\ Goto(x, "registered")
    /\ UNCHANGED <<server, wire, conn, closed, chan, on, result, readers, app, faults>>

(* Without a connection the call fails at once; else its channel is put in *)
(* the map.                                                                *)
Register(x) ==
    /\ call[x] = "new"
    /\ \/ conn = None /\ Finish(x, "notConnected") /\ UNCHANGED <<pending, reg>>
       \/ /\ conn # None
          /\ pending' = pending \cup {x}
          /\ reg' = [reg EXCEPT ![x] = conn]
          /\ Goto(x, "registered")
          /\ UNCHANGED result
    /\ UNCHANGED <<server, wire, conn, closed, chan, on, readers, app, faults>>

(* Send looks at the connection again, which may be another one. *)
SendTo(x) ==
    /\ call[x] = "registered"
    /\ \/ conn = None /\ Fail(x, "notConnected") /\ UNCHANGED on
       \/ conn # None /\ on' = [on EXCEPT ![x] = conn] /\ Goto(x, "sending")
                      /\ UNCHANGED result
    /\ UNCHANGED <<server, wire, client, reg, readers, app, faults>>

Write(x) ==
    /\ call[x] = "sending"
    /\ link[on[x]] = "open"
    /\ toServer' = [toServer EXCEPT ![on[x]] = Append(@, x)]
    /\ Goto(x, "waiting")
    /\ UNCHANGED <<server, link, toClient, client, on, result, reg, readers, app, faults>>

(* The pipe is closed, or the write reaches its deadline. *)
WriteFails(x) ==
    /\ call[x] = "sending"
    /\ \/ link[on[x]] # "open" /\ UNCHANGED faults
       \/ link[on[x]] = "open" /\ faults < MaxFaults /\ faults' = faults + 1
    /\ Fail(x, "sendFailed")
    /\ UNCHANGED <<server, wire, client, on, reg, readers, app>>

(* Mutant of Receive: a closed channel is reported as "not connected". *)
ReceiveAsUnsent(x) ==
    /\ call[x] = "waiting"
    /\ \/ chan[x] = "reply" /\ Finish(x, "reply")
       \/ chan[x] = "closed" /\ Finish(x, "notConnected")
    /\ on' = [on EXCEPT ![x] = None] /\ reg' = [reg EXCEPT ![x] = None]
    /\ UNCHANGED <<server, wire, client, readers, app, faults>>

Receive(x) ==
    /\ call[x] = "waiting"
    /\ \/ chan[x] = "reply" /\ Finish(x, "reply")
       \/ chan[x] = "closed" /\ Finish(x, "disconnected")
    /\ on' = [on EXCEPT ![x] = None] /\ reg' = [reg EXCEPT ![x] = None]
    /\ UNCHANGED <<server, wire, client, readers, app, faults>>

(* select takes either branch when the reply and the timer are both there. *)
Timeout(x) ==
    /\ call[x] = "waiting"
    /\ Fail(x, "timeout")
    /\ UNCHANGED <<server, wire, client, on, reg, readers, app, faults>>

(* An error after the registration: the call is taken out of the map. *)
Unregister(x) ==
    /\ call[x] = "failing"
    /\ pending' = pending \ {x}
    /\ Goto(x, "done")
    /\ on' = [on EXCEPT ![x] = None] /\ reg' = [reg EXCEPT ![x] = None]
    /\ UNCHANGED <<server, wire, conn, closed, chan, result, readers, app, faults>>

-----------------------------------------------------------------------------
(* Client.read, a loop for each connection. *)

Reads(k) ==
    /\ reader[k] = "read"
    /\ link[k] # "clientShut"
    /\ toClient[k] # <<>>
    /\ toClient' = [toClient EXCEPT ![k] = Tail(@)]

(* A reply that a call waits for: its channel is taken out of the map. *)
ReadReply(k) ==
    /\ Reads(k)
    /\ LET m == Head(toClient[k])
       IN  /\ m \in pending
           /\ pending' = pending \ {m}
           /\ hand' = [hand EXCEPT ![k] = {m}]
    /\ reader' = [reader EXCEPT ![k] = "deliver"]
    /\ UNCHANGED <<server, link, toServer, conn, closed, chan, callers, app, faults>>

(* Anything else goes to onMsg, which looks at verdicts and not at the     *)
(* replies of calls that have given up.                                    *)
ReadOther(k) ==
    /\ Reads(k)
    /\ Head(toClient[k]) \notin pending
    /\ UNCHANGED <<server, link, toServer, client, callers, readers, app, faults>>

Deliver(k) ==
    /\ reader[k] = "deliver"
    /\ chan' = [x \in Calls |-> IF x \in hand[k] THEN "reply" ELSE chan[x]]
    /\ hand' = [hand EXCEPT ![k] = {}]
    /\ reader' = [reader EXCEPT ![k] = "read"]
    /\ UNCHANGED <<server, wire, conn, closed, pending, callers, app, faults>>

Ends(k) ==
    /\ reader[k] = "read"
    /\ link[k] \in {"serverShut", "clientShut"}
    /\ reader' = [reader EXCEPT ![k] = "drop"]
    /\ conn' = IF conn = k THEN None ELSE conn

(* Mutants of Drop: the map is left as it is; the calls are forgotten. *)
DropKeeps(k) ==
    /\ Ends(k)
    /\ hand' = [hand EXCEPT ![k] = pending]
    /\ UNCHANGED <<server, wire, closed, pending, chan, callers, app, faults>>

DropForgets(k) ==
    /\ Ends(k)
    /\ pending' = {}
    /\ UNCHANGED <<server, wire, closed, chan, callers, hand, app, faults>>

(* The read has failed: the whole map is taken, whichever connection its   *)
(* calls were written to.                                                  *)
Drop(k) ==
    /\ Ends(k)
    /\ hand' = [hand EXCEPT ![k] = pending]
    /\ pending' = {}
    /\ UNCHANGED <<server, wire, closed, chan, callers, app, faults>>

(* ... the connection is closed, the channels are closed, and OnDisconnect *)
(* tells the page, which will call App.Connect once.                       *)
CloseChannels(k) ==
    /\ reader[k] = "drop"
    /\ link' = [link EXCEPT ![k] = IF @ = "open" THEN "clientShut" ELSE @]
    /\ toClient' = [toClient EXCEPT ![k] = <<>>]
    /\ chan' = [x \in Calls |-> IF x \in hand[k] THEN "closed" ELSE chan[x]]
    /\ hand' = [hand EXCEPT ![k] = {}]
    /\ reader' = [reader EXCEPT ![k] = "done"]
    /\ wanted' = wanted + 1
    /\ UNCHANGED <<server, toServer, conn, closed, pending, callers, connector,
                   dialled, quit, gaveUp, faults>>

-----------------------------------------------------------------------------
(* App.Connect and Client.Connect *)

Connected == conn # None /\ ~closed

(* Mutant of Connect: App.Connect returns when there is a client,          *)
(* connected or not.                                                       *)
ConnectIfNew(p) ==
    /\ connector[p] = "idle" /\ wanted > 0 /\ ~quit
    /\ wanted' = wanted - 1
    /\ connector' = [connector EXCEPT ![p] = IF link[1] = "unused" THEN "dial" ELSE "idle"]
    /\ UNCHANGED <<server, wire, client, callers, readers, dialled, quit, gaveUp, faults>>

Connect(p) ==
    /\ connector[p] = "idle" /\ wanted > 0 /\ ~quit
    /\ wanted' = wanted - 1
    /\ connector' = [connector EXCEPT ![p] = IF Connected THEN "idle" ELSE "dial"]
    /\ UNCHANGED <<server, wire, client, callers, readers, dialled, quit, gaveUp, faults>>

(* A dial that fails is repeated, without a change of state ... *)
Dial(p) ==
    /\ connector[p] = "dial" /\ up
    /\ \E k \in Conns :
          /\ link[k] = "unused" /\ \A j \in 1..(k - 1) : link[j] # "unused"
          /\ link' = [link EXCEPT ![k] = "open"]
          /\ dialled' = [dialled EXCEPT ![p] = k]
    /\ connector' = [connector EXCEPT ![p] = "install"]
    /\ UNCHANGED <<server, toServer, toClient, client, callers, readers, wanted, quit,
                   gaveUp, faults>>

(* ... until the deadline of ConnectRetry; the page ignores the error. *)
GiveUp(p) ==
    /\ connector[p] = "dial" /\ ~up
    /\ connector' = [connector EXCEPT ![p] = "idle"]
    /\ gaveUp' = TRUE
    /\ UNCHANGED <<server, wire, client, callers, readers, dialled, wanted, quit, faults>>

Install(p) ==
    /\ connector[p] = "install"
    /\ conn' = dialled[p]
    /\ closed' = FALSE
    /\ reader' = [reader EXCEPT ![dialled[p]] = "read"]
    /\ dialled' = [dialled EXCEPT ![p] = None]
    /\ connector' = [connector EXCEPT ![p] = "idle"]
    /\ UNCHANGED <<server, wire, pending, chan, callers, hand, wanted, quit,
                   gaveUp, faults>>

(* App.Disconnect, when the GUI ends, with Client.Close. *)
Disconnect ==
    /\ ~quit
    /\ quit' = TRUE
    /\ closed' = TRUE
    /\ conn' = None
    /\ link' = [k \in Conns |-> IF k = conn /\ link[k] = "open" THEN "clientShut"
                                                                ELSE link[k]]
    /\ UNCHANGED <<server, toServer, toClient, pending, chan, callers, readers, connector,
                   dialled, wanted, gaveUp, faults>>

-----------------------------------------------------------------------------
(* Server *)

Accept(k) ==
    /\ up /\ link[k] = "open" /\ k \notin clients
    /\ clients' = clients \cup {k}
    /\ UNCHANGED <<up, sent, out, served, wire, client, callers, readers, app, faults>>

(* serve: one request after the other; the reply is lost if the pipe is    *)
(* closed.                                                                 *)
Serve(k) ==
    /\ up /\ k \in clients /\ toServer[k] # <<>>
    /\ served' = [served EXCEPT ![Head(toServer[k])] = @ + 1]
    /\ toServer' = [toServer EXCEPT ![k] = Tail(@)]
    /\ toClient' = [toClient EXCEPT ![k] = IF link[k] = "open"
                                           THEN Append(@, Head(toServer[k])) ELSE @]
    /\ UNCHANGED <<up, clients, sent, out, link, client, callers, readers, app, faults>>

(* The client has gone, a write has closed the connection, or the reply    *)
(* reaches its deadline now.                                               *)
ServeEnds(k) ==
    /\ up /\ k \in clients
    /\ \/ /\ \/ link[k] = "clientShut" /\ toServer[k] = <<>>
             \/ link[k] = "serverShut"
          /\ UNCHANGED <<link, faults>>
       \/ /\ link[k] = "open" /\ faults < MaxFaults
          /\ faults' = faults + 1
          /\ link' = [link EXCEPT ![k] = "serverShut"]
    /\ clients' = clients \ {k}
    /\ toServer' = [toServer EXCEPT ![k] = <<>>]
    /\ UNCHANGED <<up, sent, out, served, toClient, client, callers, readers, app>>

(* Broadcast copies the set of clients under Server.mu ...                 *)
Broadcast(v) ==
    /\ up /\ v \notin sent
    /\ sent' = sent \cup {v}
    /\ out' = [out EXCEPT ![v] = clients]
    /\ UNCHANGED <<up, clients, served, wire, client, callers, readers, app, faults>>

(* Mutant of Push: the broadcast ends at the first write that fails. *)
PushOrEnd(v, k) ==
    /\ k \in out[v]
    /\ out' = [out EXCEPT ![v] = IF link[k] = "open" THEN @ \ {k} ELSE {}]
    /\ toClient' = [toClient EXCEPT ![k] = IF link[k] = "open" THEN Append(@, v) ELSE @]
    /\ UNCHANGED <<up, clients, sent, served, link, toServer, client, callers, readers,
                   app, faults>>

(* ... and writes to each of them without it, whatever has become of the   *)
(* others: a connection that has been closed gets nothing.                 *)
Push(v, k) ==
    /\ k \in out[v]
    /\ out' = [out EXCEPT ![v] = @ \ {k}]
    /\ toClient' = [toClient EXCEPT ![k] = IF link[k] = "open" THEN Append(@, v) ELSE @]
    /\ UNCHANGED <<up, clients, sent, served, link, toServer, client, callers, readers,
                   app, faults>>

(* The write reaches its deadline, and write closes the connection. *)
PushFails(v, k) ==
    /\ k \in out[v] /\ link[k] = "open"
    /\ faults < MaxFaults /\ faults' = faults + 1
    /\ out' = [out EXCEPT ![v] = @ \ {k}]
    /\ link' = [link EXCEPT ![k] = "serverShut"]
    /\ UNCHANGED <<up, clients, sent, served, toServer, toClient, client, callers,
                   readers, app>>

(* Close, or the end of the process: every connection is closed. *)
StopService ==
    /\ up /\ faults < MaxFaults /\ faults' = faults + 1
    /\ up' = FALSE
    /\ clients' = {} /\ out' = [v \in Verdicts |-> {}]
    /\ link' = [k \in Conns |-> IF link[k] = "open" THEN "serverShut" ELSE link[k]]
    /\ toServer' = [k \in Conns |-> <<>>]
    /\ UNCHANGED <<sent, served, toClient, client, callers, readers, app>>

StartService ==
    /\ ~up
    /\ up' = TRUE
    /\ UNCHANGED <<clients, sent, out, served, wire, client, callers, readers, app, faults>>

-----------------------------------------------------------------------------
Caller(x) ==
    \/ Register(x) \/ SendTo(x) \/ Write(x) \/ WriteFails(x) \/ Receive(x)
    \/ Unregister(x)

Reader(k) ==
    \/ ReadReply(k) \/ ReadOther(k) \/ Deliver(k) \/ Drop(k) \/ CloseChannels(k)

Connecting(p) == Connect(p) \/ Dial(p) \/ GiveUp(p) \/ Install(p)

Serving(k) == Accept(k) \/ Serve(k)

Pushing(v) == \E k \in Conns : Push(v, k)

Next ==
    \/ \E x \in Calls : Caller(x) \/ Timeout(x)
    \/ \E k \in Conns : Reader(k) \/ Serving(k) \/ ServeEnds(k)
    \/ \E p \in Connectors : Connecting(p)
    \/ \E v \in Verdicts : Broadcast(v) \/ Pushing(v)
    \/ \E v \in Verdicts, k \in Conns : PushFails(v, k)
    \/ Disconnect \/ StopService \/ StartService

(* Goroutines that can run do run, and the service handles what it reads.  *)
(* Nothing makes a timeout, a fault or a restart happen.                   *)
Fairness ==
    /\ \A x \in Calls : WF_vars(Caller(x))
    /\ \A k \in Conns : WF_vars(Reader(k)) /\ WF_vars(Serving(k))
    /\ \A p \in Connectors : WF_vars(Connecting(p))
    /\ \A v \in Verdicts : WF_vars(Pushing(v))

Spec == Init /\ [][Next]_vars

FairSpec == Spec /\ Fairness

-----------------------------------------------------------------------------
(* Properties. *)

(* A channel is used once, by one read loop, and is not in the map any     *)
(* more: a second reply or close would panic or block (read, drop).        *)
ChannelUsedOnce ==
    \A k \in Conns : \A x \in hand[k] :
        /\ chan[x] = "empty" /\ x \notin pending
        /\ \A j \in Conns \ {k} : x \notin hand[j]

(* A call that waits is either in the map or in the hands of a read loop   *)
(* that will answer it: nobody forgets it, whatever connections come and   *)
(* go between its registration and its write (Call, drop).                 *)
WaiterIsKnown ==
    \A x \in Calls :
        call[x] \in {"registered", "sending", "waiting"} /\ chan[x] = "empty" =>
            x \in pending \/ \E k \in Conns : x \in hand[k]

(* A call is in the map only while the connection it found is read, so the *)
(* end of that connection will be noticed and the call told.               *)
PendingHasReader ==
    \A x \in pending : reg[x] # None /\ reader[reg[x]] \in {"read", "deliver"}

(* The pipe keeps what it promises of a request (module Requests), through *)
(* every drop, timeout, reconnection and restart: one handling at most, an *)
(* answer only after it, and none for a call that was told it was not      *)
(* connected or could not be sent (Call, Send, serve).                     *)
R == INSTANCE Requests WITH
        Unsent <- {"notConnected", "sendFailed"}, Unknown <- {"disconnected", "timeout"},
        handled <- served, outcome <- result

ImplementsRequests == R!Spec

(* Every call that has been written returns without its timeout: it is     *)
(* answered, or told that the connection ended.                            *)
CallsReturn == \A x \in Calls : call[x] = "waiting" ~> call[x] # "waiting"

Contains(s, m) == \E i \in 1..Len(s) : s[i] = m

(* A verdict is written to every connection that was there when it was     *)
(* made, unless that one is closed: a client that goes, or does not read,  *)
(* while the broadcast is written costs the others nothing (Broadcast,     *)
(* write).                                                                 *)
VerdictsAreSent ==
    \A v \in Verdicts, k \in Conns :
        k \in out[v] ~> Contains(toClient[k], v) \/ link[k] # "open"

(* When the service stays up, the GUI is connected in the end, unless it   *)
(* has given up or quit (or a goroutine dials beyond MaxConns).            *)
OutOfConns ==
    /\ \A k \in Conns : link[k] # "unused"
    /\ \E p \in Connectors : connector[p] = "dial"

Reconnects == <>[]up => <>(gaveUp \/ quit \/ OutOfConns) \/ <>[]Connected
=============================================================================
