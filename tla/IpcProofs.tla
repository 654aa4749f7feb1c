----------------------------- MODULE IpcProofs -----------------------------
(* Theorems about the pipe between the GUI and the service, for any number *)
(* of calls, connections, connecting goroutines, stops and faults.         *)
EXTENDS Ipc, TLAPS

Live(k) == reader[k] \in {"read", "deliver"}

(* A read loop holds channels only between two of its steps, and starts    *)
(* when its connection, which one goroutine has dialled, is installed.     *)
DialInv ==
    /\ \A k \in Conns : reader[k] \in {"none", "read", "done"} => hand[k] = {}
    /\ \A k \in Conns : link[k] = "unused" => reader[k] = "none"
    /\ \A p \in Connectors : connector[p] = "install" =>
          /\ dialled[p] \in Conns
          /\ reader[dialled[p]] = "none" /\ link[dialled[p]] # "unused"
          /\ \A q \in Connectors : connector[q] = "install" /\ dialled[q] = dialled[p]
                => p = q

(* The connection that calls are given is read. *)
ConnInv == conn # None => Live(conn)

(* The calls in the map have not been answered. *)
PendingInv ==
    \A x \in pending :
        /\ chan[x] = "empty"
        /\ call[x] \in {"registered", "sending", "waiting", "failing"}

(* A call that is in the map or in the hands of a read loop has begun, and *)
(* has no result before it is over.                                        *)
CallInv ==
    \A x \in Calls :
        /\ call[x] = "new" => chan[x] = "empty" /\ \A k \in Conns : x \notin hand[k]
        /\ call[x] \in {"new", "registered", "sending", "waiting"} => result[x] = "none"
        /\ call[x] = "sending" => on[x] \in Conns

(* A request that is on its way was written by a call that had a           *)
(* connection then.                                                        *)
Written(x) ==
    /\ call[x] \in {"waiting", "failing", "done"}
    /\ result[x] \notin {"notConnected", "sendFailed"}

QueueInv ==
    /\ \A x \in Calls : served[x] # 0 => Written(x)
    /\ \A k \in Conns : \A i \in 1..Len(toServer[k]) : Written(toServer[k][i])

IInv ==
    /\ TypeOK /\ DialInv /\ ConnInv /\ PendingInv /\ CallInv /\ QueueInv
    /\ ChannelUsedOnce /\ WaiterIsKnown /\ PendingHasReader

USE IpcAssumption
    DEF vars, server, wire, client, callers, readers, app, Goto

(* A call without a connection fails at once. *)
LEMMA RegisterFailsKeeps ==
    ASSUME IInv, NEW x \in Calls, Register(x), conn = None PROVE IInv'
<1>1. /\ call[x] = "new"
      /\ call' = [call EXCEPT ![x] = "done"]
      /\ result' = [result EXCEPT ![x] = "notConnected"]
      /\ UNCHANGED <<pending, reg, server, wire, conn, closed, chan, on,
                     readers, app, faults>>
  BY DEF Register, Finish
<1>2. TypeOK' /\ DialInv' /\ ConnInv' /\ PendingInv' /\ QueueInv' /\
      ChannelUsedOnce' /\ WaiterIsKnown' /\ PendingHasReader'
  BY <1>1 DEF IInv, TypeOK, Errors, Results, DialInv, ConnInv, PendingInv,
     QueueInv, Written, Live, ChannelUsedOnce,
     WaiterIsKnown, PendingHasReader
<1>3. CallInv'
  BY <1>1 DEF IInv, CallInv, TypeOK
<1>. QED
  BY <1>2, <1>3 DEF IInv

(* The connection that a call finds is read. *)
LEMMA RegisterKeeps ==
    ASSUME IInv, NEW x \in Calls, Register(x), conn # None PROVE IInv'
<1>1. /\ call[x] = "new"
      /\ pending' = pending \cup {x}
      /\ reg' = [reg EXCEPT ![x] = conn]
      /\ call' = [call EXCEPT ![x] = "registered"]
      /\ UNCHANGED <<result, server, wire, conn, closed, chan, on,
                     readers, app, faults>>
  BY DEF Register
<1>2. TypeOK' /\ DialInv' /\ ConnInv' /\ CallInv' /\ QueueInv' /\
      WaiterIsKnown'
  BY <1>1 DEF IInv, TypeOK, DialInv, ConnInv, Live, CallInv, QueueInv,
     Written, WaiterIsKnown
<1>3. PendingInv'
  BY <1>1 DEF IInv, PendingInv, TypeOK, CallInv
<1>5. ChannelUsedOnce'
  BY <1>1 DEF IInv, ChannelUsedOnce, CallInv
<1>6. PendingHasReader'
  BY <1>1 DEF IInv, PendingHasReader, TypeOK, ConnInv, Live
<1>. QED
  BY <1>2, <1>3, <1>5, <1>6 DEF IInv

(* The connection has gone meanwhile. *)
LEMMA SendFailsKeeps ==
    ASSUME IInv, NEW x \in Calls, SendTo(x), conn = None PROVE IInv'
<1>1. /\ call[x] = "registered"
      /\ call' = [call EXCEPT ![x] = "failing"]
      /\ result' = [result EXCEPT ![x] = "notConnected"]
      /\ UNCHANGED <<on, server, wire, client, reg, readers, app, faults>>
  BY DEF SendTo, Fail
<1>2. TypeOK' /\ DialInv' /\ ConnInv' /\ PendingInv' /\ QueueInv' /\
      ChannelUsedOnce' /\ WaiterIsKnown' /\ PendingHasReader'
  BY <1>1 DEF IInv, TypeOK, Errors, Results, DialInv, ConnInv, PendingInv,
     QueueInv, Written, Live, ChannelUsedOnce,
     WaiterIsKnown, PendingHasReader
<1>3. CallInv'
  BY <1>1 DEF IInv, CallInv, TypeOK
<1>. QED
  BY <1>2, <1>3 DEF IInv

(* The write goes to the connection there is now. *)
LEMMA SendToKeeps ==
    ASSUME IInv, NEW x \in Calls, SendTo(x), conn # None PROVE IInv'
<1>1. /\ call[x] = "registered"
      /\ on' = [on EXCEPT ![x] = conn]
      /\ call' = [call EXCEPT ![x] = "sending"]
      /\ UNCHANGED <<result, server, wire, client, reg, readers, app, faults>>
  BY DEF SendTo
<1>2. TypeOK' /\ DialInv' /\ ConnInv' /\ PendingInv' /\
      ChannelUsedOnce' /\ WaiterIsKnown' /\ PendingHasReader'
  BY <1>1 DEF IInv, TypeOK, DialInv, ConnInv, Live, PendingInv,
     ChannelUsedOnce, WaiterIsKnown,
     PendingHasReader
<1>3. CallInv'
  BY <1>1 DEF IInv, CallInv, TypeOK
<1>4. QueueInv'
  BY <1>1 DEF IInv, QueueInv, Written, TypeOK
<1>. QED
  BY <1>2, <1>3, <1>4 DEF IInv

(* The request is on its way. *)
LEMMA WriteKeeps ==
    ASSUME IInv, NEW x \in Calls, Write(x) PROVE IInv'
<1>1. TypeOK'
  BY DEF IInv, TypeOK, CallInv, Write
<1>2. DialInv' /\ ConnInv' /\ PendingInv' /\ CallInv' /\ ChannelUsedOnce' /\ WaiterIsKnown' /\ PendingHasReader'
  BY DEF IInv, DialInv, Write, ConnInv, Live, PendingInv, CallInv, ChannelUsedOnce, WaiterIsKnown, PendingHasReader
<1>3. QueueInv'
  BY DEF IInv, QueueInv, TypeOK, CallInv, Written, Write
<1>. QED
  BY <1>1, <1>2, <1>3 DEF IInv

(* The write has failed; the call is still in the map. *)
LEMMA WriteFailsKeeps ==
    ASSUME IInv, NEW x \in Calls, WriteFails(x) PROVE IInv'
<1>1. /\ call[x] = "sending"
      /\ call' = [call EXCEPT ![x] = "failing"]
      /\ result' = [result EXCEPT ![x] = "sendFailed"]
      /\ faults' \in Nat
      /\ UNCHANGED <<server, wire, client, on, reg, readers, app>>
  BY DEF WriteFails, Fail, IInv, TypeOK
<1>2. TypeOK' /\ DialInv' /\ ConnInv' /\ PendingInv' /\ QueueInv' /\
      ChannelUsedOnce' /\ WaiterIsKnown' /\ PendingHasReader'
  BY <1>1 DEF IInv, TypeOK, Errors, Results, DialInv, ConnInv, Live,
     PendingInv, QueueInv, Written, ChannelUsedOnce, WaiterIsKnown, PendingHasReader
<1>3. CallInv'
  BY <1>1 DEF IInv, CallInv, TypeOK
<1>. QED
  BY <1>2, <1>3 DEF IInv

(* The channel was used, so the call is in no map and in no hands. *)
LEMMA ReceiveKeeps ==
    ASSUME IInv, NEW x \in Calls, Receive(x) PROVE IInv'
<1>1. PICK r \in {"reply", "disconnected"} :
         /\ call[x] = "waiting" /\ chan[x] # "empty"
         /\ call' = [call EXCEPT ![x] = "done"]
         /\ result' = [result EXCEPT ![x] = r]
         /\ on' = [on EXCEPT ![x] = None] /\ reg' = [reg EXCEPT ![x] = None]
         /\ UNCHANGED <<server, wire, client, readers, app, faults>>
  BY DEF Receive, Finish
<1>2. TypeOK' /\ DialInv' /\ ConnInv' /\ PendingInv' /\ QueueInv' /\
      ChannelUsedOnce' /\ WaiterIsKnown' /\ PendingHasReader'
  BY <1>1 DEF IInv, TypeOK, Errors, Results, DialInv, ConnInv, Live,
     PendingInv, QueueInv, Written, ChannelUsedOnce, WaiterIsKnown, PendingHasReader
<1>3. CallInv'
  BY <1>1 DEF IInv, CallInv, TypeOK
<1>. QED
  BY <1>2, <1>3 DEF IInv

(* The call gives up; its request may have been written. *)
LEMMA TimeoutKeeps ==
    ASSUME IInv, NEW x \in Calls, Timeout(x) PROVE IInv'
<1>1. TypeOK' /\ DialInv' /\ ConnInv' /\ PendingInv' /\ QueueInv' /\
      ChannelUsedOnce' /\ WaiterIsKnown' /\ PendingHasReader'
  BY DEF IInv, TypeOK, Errors, Results, Timeout, Fail, DialInv, ConnInv,
     Live, PendingInv, QueueInv, Written, ChannelUsedOnce, WaiterIsKnown, PendingHasReader
<1>2. CallInv'
  BY DEF IInv, CallInv, TypeOK, Timeout, Fail
<1>. QED
  BY <1>1, <1>2 DEF IInv

(* The call takes itself out of the map. *)
LEMMA UnregisterKeeps ==
    ASSUME IInv, NEW x \in Calls, Unregister(x) PROVE IInv'
<1>1. TypeOK' /\ DialInv' /\ ConnInv' /\ PendingInv' /\ CallInv' /\
      QueueInv' /\ ChannelUsedOnce' /\ WaiterIsKnown' /\
      PendingHasReader'
  BY DEF IInv, TypeOK, Unregister, DialInv, ConnInv, Live, PendingInv,
     CallInv, QueueInv, Written, ChannelUsedOnce,
     WaiterIsKnown, PendingHasReader
<1>. QED
  BY <1>1 DEF IInv

(* A channel leaves the map for the hands of one read loop. *)
LEMMA ReadReplyKeeps ==
    ASSUME IInv, NEW k \in Conns, ReadReply(k) PROVE IInv'
<1>1. TypeOK' /\ ConnInv' /\ PendingInv' /\ QueueInv' /\ PendingHasReader'
  BY DEF IInv, TypeOK, ReadReply, Reads, ConnInv, Live, PendingInv, QueueInv,
     Written, PendingHasReader
<1>2. DialInv'
  BY DEF IInv, DialInv, TypeOK, ReadReply, Reads
<1>3. CallInv'
  BY DEF IInv, CallInv, PendingInv, ReadReply, Reads
<1>4. ChannelUsedOnce'
  BY DEF IInv, ChannelUsedOnce, PendingInv, ReadReply, Reads
<1>5. WaiterIsKnown'
  BY DEF IInv, WaiterIsKnown, TypeOK, DialInv, ReadReply, Reads
<1>. QED
  BY <1>1, <1>2, <1>3, <1>4, <1>5 DEF IInv

(* The map stays as it is. *)
LEMMA ReadOtherKeeps ==
    ASSUME IInv, NEW k \in Conns, ReadOther(k) PROVE IInv'
<1>1. TypeOK' /\ DialInv' /\ ConnInv' /\ PendingInv' /\ CallInv' /\
      QueueInv' /\ ChannelUsedOnce' /\ WaiterIsKnown' /\
      PendingHasReader'
  BY DEF IInv, TypeOK, ReadOther, Reads, DialInv, ConnInv, Live, PendingInv,
     CallInv, QueueInv, Written, ChannelUsedOnce,
     WaiterIsKnown, PendingHasReader
<1>. QED
  BY <1>1 DEF IInv

(* The channel that was taken is used and let go. *)
LEMMA DeliverKeeps ==
    ASSUME IInv, NEW k \in Conns, Deliver(k) PROVE IInv'
<1>1. TypeOK' /\ ConnInv' /\ CallInv' /\ QueueInv' /\ WaiterIsKnown' /\ PendingHasReader'
  BY DEF IInv, TypeOK, Deliver, ConnInv, Live, CallInv, QueueInv, Written,
     WaiterIsKnown, PendingHasReader
<1>2. DialInv'
  BY DEF IInv, DialInv, TypeOK, Deliver
<1>3. PendingInv'
  BY DEF IInv, PendingInv, TypeOK, ChannelUsedOnce, Deliver
<1>4. ChannelUsedOnce'
  BY DEF IInv, ChannelUsedOnce, TypeOK, Deliver
<1>. QED
  BY <1>1, <1>2, <1>3, <1>4 DEF IInv

(* The whole map goes to the hands of the read loop that ends. *)
LEMMA DropStepKeeps ==
    ASSUME IInv, NEW k \in Conns, Drop(k) PROVE IInv'
<1>1. TypeOK' /\ ConnInv' /\ PendingInv' /\ QueueInv' /\ PendingHasReader'
  BY DEF IInv, TypeOK, Drop, Ends, ConnInv, Live, PendingInv, QueueInv,
     Written, PendingHasReader
<1>2. DialInv'
  BY DEF IInv, DialInv, TypeOK, Drop, Ends
<1>3. CallInv'
  BY DEF IInv, CallInv, PendingInv, Drop, Ends
<1>5. ChannelUsedOnce'
  BY DEF IInv, ChannelUsedOnce, PendingInv, Drop, Ends
<1>6. WaiterIsKnown'
  BY DEF IInv, WaiterIsKnown, TypeOK, DialInv, Drop, Ends
<1>. QED
  BY <1>1, <1>2, <1>3, <1>5, <1>6 DEF IInv

(* The channels are closed and let go. *)
LEMMA CloseChannelsKeeps ==
    ASSUME IInv, NEW k \in Conns, CloseChannels(k) PROVE IInv'
<1>1. TypeOK' /\ ConnInv' /\ CallInv' /\ QueueInv' /\ WaiterIsKnown' /\ PendingHasReader'
  BY DEF IInv, TypeOK, CloseChannels, ConnInv, Live, CallInv, QueueInv,
     Written, WaiterIsKnown, PendingHasReader
<1>2. DialInv'
  BY DEF IInv, DialInv, TypeOK, CloseChannels
<1>3. PendingInv'
  BY DEF IInv, PendingInv, TypeOK, ChannelUsedOnce, CloseChannels
<1>4. ChannelUsedOnce'
  BY DEF IInv, ChannelUsedOnce, TypeOK, CloseChannels
<1>. QED
  BY <1>1, <1>2, <1>3, <1>4 DEF IInv

(* App.Connect dials unless it sees a connection. *)
LEMMA ConnectKeeps ==
    ASSUME IInv, NEW p \in Connectors, Connect(p) PROVE IInv'
<1>1. TypeOK' /\ DialInv' /\ ConnInv' /\ PendingInv' /\ CallInv' /\
      QueueInv' /\ ChannelUsedOnce' /\ WaiterIsKnown' /\
      PendingHasReader'
  BY DEF IInv, TypeOK, Connect, Connected, DialInv, ConnInv, Live,
     PendingInv, CallInv, QueueInv, Written, ChannelUsedOnce, WaiterIsKnown, PendingHasReader
<1>. QED
  BY <1>1 DEF IInv

(* A connection is used that nobody has used. *)
LEMMA DialKeeps ==
    ASSUME IInv, NEW p \in Connectors, Dial(p) PROVE IInv'
<1>1. TypeOK' /\ ConnInv' /\ PendingInv' /\ CallInv' /\ QueueInv' /\
      ChannelUsedOnce' /\ WaiterIsKnown' /\ PendingHasReader'
  BY DEF IInv, TypeOK, Dial, ConnInv, Live, PendingInv, CallInv, QueueInv,
     Written, ChannelUsedOnce, WaiterIsKnown,
     PendingHasReader
<1>2. DialInv'
  BY DEF IInv, DialInv, TypeOK, Dial
<1>. QED
  BY <1>1, <1>2 DEF IInv

(* No connection was made. *)
LEMMA GiveUpKeeps ==
    ASSUME IInv, NEW p \in Connectors, GiveUp(p) PROVE IInv'
<1>1. TypeOK' /\ DialInv' /\ ConnInv' /\ PendingInv' /\ CallInv' /\
      QueueInv' /\ ChannelUsedOnce' /\ WaiterIsKnown' /\
      PendingHasReader'
  BY DEF IInv, TypeOK, GiveUp, DialInv, ConnInv, Live, PendingInv, CallInv,
     QueueInv, Written, ChannelUsedOnce,
     WaiterIsKnown, PendingHasReader
<1>. QED
  BY <1>1 DEF IInv

(* The connection that was dialled is read from now on. *)
LEMMA InstallKeeps ==
    ASSUME IInv, NEW p \in Connectors, Install(p) PROVE IInv'
<1>1. TypeOK' /\ PendingInv' /\ CallInv' /\ QueueInv' /\ ChannelUsedOnce' /\
      WaiterIsKnown'
  BY DEF IInv, TypeOK, Install, PendingInv, CallInv, QueueInv, Written,
     ChannelUsedOnce, WaiterIsKnown
<1>2. DialInv'
  BY DEF IInv, DialInv, TypeOK, Install
<1>3. ConnInv'
  BY DEF IInv, ConnInv, TypeOK, Live, Install
<1>5. PendingHasReader'
  BY DEF IInv, PendingHasReader, TypeOK, DialInv, Install
<1>. QED
  BY <1>1, <1>2, <1>3, <1>5 DEF IInv

(* There is no current connection any more; its read loop will see. *)
LEMMA DisconnectKeeps ==
    ASSUME IInv, Disconnect PROVE IInv'
<1>1. TypeOK' /\ DialInv' /\ ConnInv' /\ PendingInv' /\ CallInv' /\
      QueueInv' /\ ChannelUsedOnce' /\ WaiterIsKnown' /\
      PendingHasReader'
  BY DEF IInv, TypeOK, Disconnect, DialInv, ConnInv, PendingInv, CallInv,
     QueueInv, Written, Live, ChannelUsedOnce,
     WaiterIsKnown, PendingHasReader
<1>. QED
  BY <1>1 DEF IInv

(* The service alone. *)
LEMMA AcceptKeeps ==
    ASSUME IInv, NEW k \in Conns, Accept(k) PROVE IInv'
<1>1. TypeOK' /\ DialInv' /\ ConnInv' /\ PendingInv' /\ CallInv' /\
      QueueInv' /\ ChannelUsedOnce' /\ WaiterIsKnown' /\
      PendingHasReader'
  BY DEF IInv, TypeOK, Accept, DialInv, ConnInv, Live, PendingInv, CallInv,
     QueueInv, Written, ChannelUsedOnce,
     WaiterIsKnown, PendingHasReader
<1>. QED
  BY <1>1 DEF IInv

(* A request that was written is served. *)
LEMMA ServeKeeps ==
    ASSUME IInv, NEW k \in Conns, Serve(k) PROVE IInv'
<1>1. TypeOK'
  <2>1. Head(toServer[k]) \in Calls /\ Tail(toServer[k]) \in Seq(Calls)
    BY DEF IInv, TypeOK, Serve
  <2>2. toServer' \in [Conns -> Seq(Calls)] /\ served' \in [Calls -> Nat]
    BY <2>1 DEF IInv, TypeOK, Serve
  <2>3. toClient' \in [Conns -> Seq(Calls \cup Verdicts)]
    <3>1. Append(toClient[k], Head(toServer[k])) \in Seq(Calls \cup Verdicts)
      BY <2>1 DEF IInv, TypeOK
    <3>. QED
      BY <3>1 DEF IInv, TypeOK, Serve
  <2>. QED
    BY <2>2, <2>3 DEF IInv, TypeOK, Serve
<1>2. DialInv' /\ ConnInv' /\ PendingInv' /\ CallInv' /\
      ChannelUsedOnce' /\ WaiterIsKnown' /\ PendingHasReader'
  BY DEF IInv, DialInv, Serve, ConnInv, Live, PendingInv, CallInv,
     ChannelUsedOnce, WaiterIsKnown,
     PendingHasReader
<1>3. QueueInv'
  <2>1. /\ toServer[k] \in Seq(Calls) /\ toServer[k] # <<>>
        /\ toServer' = [toServer EXCEPT ![k] = Tail(@)]
        /\ served' = [served EXCEPT ![Head(toServer[k])] = @ + 1]
        /\ toServer \in [Conns -> Seq(Calls)] /\ served \in [Calls -> Nat]
        /\ UNCHANGED <<call, result>>
    BY DEF IInv, TypeOK, Serve
  <2>2. /\ Head(toServer[k]) = toServer[k][1] /\ 1 \in 1..Len(toServer[k])
        /\ \A i \in 1..Len(Tail(toServer[k])) :
              i + 1 \in 1..Len(toServer[k]) /\ Tail(toServer[k])[i] = toServer[k][i + 1]
    BY <2>1
  <2>3. \A x \in Calls : served'[x] # 0 => Written(x)'
    <3>1. Written(Head(toServer[k]))
      BY <2>2 DEF IInv, QueueInv
    <3>. QED
      BY <2>1, <3>1 DEF IInv, QueueInv, Written
  <2>4. (\A j \in Conns : \A i \in 1..Len(toServer[j]) : Written(toServer[j][i]))'
    BY <2>1, <2>2 DEF IInv, QueueInv, Written
  <2>. QED
    BY <2>3, <2>4 DEF QueueInv
<1>. QED
  BY <1>1, <1>2, <1>3 DEF IInv

(* The service closes one connection. *)
LEMMA ServeEndsKeeps ==
    ASSUME IInv, NEW k \in Conns, ServeEnds(k) PROVE IInv'
<1>1. /\ clients' = clients \ {k} /\ faults' \in Nat
      /\ \E end \in {"serverShut", "clientShut"} :
            link' = [link EXCEPT ![k] = end]
      /\ link[k] # "unused"
      /\ toServer' = [toServer EXCEPT ![k] = <<>>]
      /\ UNCHANGED <<up, sent, out, served, toClient, client, callers, readers, app>>
  BY DEF ServeEnds, IInv, TypeOK
<1>2. TypeOK' /\ DialInv' /\ ConnInv' /\ PendingInv' /\ CallInv' /\
      QueueInv' /\ ChannelUsedOnce' /\ WaiterIsKnown' /\
      PendingHasReader'
  BY <1>1 DEF IInv, TypeOK, DialInv, ConnInv, Live, PendingInv, CallInv,
     QueueInv, Written, ChannelUsedOnce,
     WaiterIsKnown, PendingHasReader
<1>. QED
  BY <1>2 DEF IInv

(* The map stays as it is. *)
LEMMA BroadcastKeeps ==
    ASSUME IInv, NEW v \in Verdicts, Broadcast(v) PROVE IInv'
<1>1. TypeOK' /\ DialInv' /\ ConnInv' /\ PendingInv' /\ CallInv' /\
      QueueInv' /\ ChannelUsedOnce' /\ WaiterIsKnown' /\
      PendingHasReader'
  BY DEF IInv, TypeOK, Broadcast, DialInv, ConnInv, Live, PendingInv,
     CallInv, QueueInv, Written, ChannelUsedOnce,
     WaiterIsKnown, PendingHasReader
<1>. QED
  BY <1>1 DEF IInv

LEMMA PushKeeps ==
    ASSUME IInv, NEW v \in Verdicts, NEW k \in Conns, Push(v, k) PROVE IInv'
<1>1. TypeOK'
  <2>1. Append(toClient[k], v) \in Seq(Calls \cup Verdicts)
    BY DEF IInv, TypeOK
  <2>2. toClient' \in [Conns -> Seq(Calls \cup Verdicts)] /\ out' \in [Verdicts -> SUBSET Conns]
    BY <2>1 DEF IInv, TypeOK, Push
  <2>. QED
    BY <2>2 DEF IInv, TypeOK, Push
<1>2. DialInv' /\ ConnInv' /\ PendingInv' /\ CallInv' /\ QueueInv' /\
      ChannelUsedOnce' /\ WaiterIsKnown' /\ PendingHasReader'
  BY DEF IInv, Push, DialInv, ConnInv, Live, PendingInv, CallInv, QueueInv,
     Written, ChannelUsedOnce, WaiterIsKnown, PendingHasReader
<1>. QED
  BY <1>1, <1>2 DEF IInv

(* The service closes a connection it could not write to. *)
LEMMA PushFailsKeeps ==
    ASSUME IInv, NEW v \in Verdicts, NEW k \in Conns, PushFails(v, k) PROVE IInv'
<1>1. TypeOK' /\ DialInv' /\ ConnInv' /\ PendingInv' /\ CallInv' /\
      QueueInv' /\ ChannelUsedOnce' /\ WaiterIsKnown' /\ PendingHasReader'
  BY DEF IInv, TypeOK, PushFails, DialInv, ConnInv, Live, PendingInv,
     CallInv, QueueInv, Written, ChannelUsedOnce, WaiterIsKnown,
     PendingHasReader
<1>. QED
  BY <1>1 DEF IInv

(* The service closes every connection. *)
LEMMA StopServiceKeeps ==
    ASSUME IInv, StopService PROVE IInv'
<1>1. TypeOK'
  <2>1. faults' \in Nat /\ toServer' \in [Conns -> Seq(Calls)]
    BY DEF IInv, TypeOK, StopService
  <2>2. clients' \subseteq Conns
    BY DEF StopService
  <2>3. link' \in [Conns -> {"unused", "open", "serverShut", "clientShut"}]
    BY DEF IInv, TypeOK, StopService
  <2>. QED
    BY <2>1, <2>2, <2>3 DEF IInv, TypeOK, StopService
<1>2. DialInv' /\ ConnInv' /\ PendingInv' /\ CallInv' /\ QueueInv' /\
      ChannelUsedOnce' /\ WaiterIsKnown' /\ PendingHasReader'
  BY DEF IInv, DialInv, StopService, ConnInv, Live, PendingInv, CallInv,
     QueueInv, Written, ChannelUsedOnce,
     WaiterIsKnown, PendingHasReader
<1>. QED
  BY <1>1, <1>2 DEF IInv

(* The service listens again. *)
LEMMA StartServiceKeeps ==
    ASSUME IInv, StartService PROVE IInv'
<1>1. TypeOK' /\ DialInv' /\ ConnInv' /\ PendingInv' /\ CallInv' /\
      QueueInv' /\ ChannelUsedOnce' /\ WaiterIsKnown' /\
      PendingHasReader'
  BY DEF IInv, TypeOK, StartService, DialInv, ConnInv, Live, PendingInv,
     CallInv, QueueInv, Written, ChannelUsedOnce,
     WaiterIsKnown, PendingHasReader
<1>. QED
  BY <1>1 DEF IInv

(* Nothing changes. *)
LEMMA StutterKeeps == ASSUME IInv, UNCHANGED vars PROVE IInv'
  BY DEF IInv, TypeOK, DialInv, ConnInv, PendingInv, CallInv, QueueInv, ChannelUsedOnce, WaiterIsKnown, PendingHasReader, Live,
     Written

(* When the GUI starts nothing is connected and nothing is asked. *)
LEMMA InitInv == ASSUME Init PROVE IInv
<1>1. TypeOK
  <2>1. toServer \in [Conns -> Seq(Calls)]
    BY DEF Init
  <2>2. toClient \in [Conns -> Seq(Calls \cup Verdicts)]
    BY DEF Init
  <2>3. /\ call \in [Calls -> {"new", "registered", "sending", "waiting",
                            "failing", "done"}]
        /\ result \in [Calls -> Results]
    BY DEF Init, Results
  <2>. QED
    BY <2>1, <2>2, <2>3 DEF Init, TypeOK
<1>2. DialInv /\ ConnInv /\ PendingInv /\ CallInv /\ QueueInv
  BY DEF Init, DialInv, ConnInv, PendingInv, CallInv, QueueInv
<1>4. ChannelUsedOnce /\ WaiterIsKnown /\ PendingHasReader
  BY DEF Init, ChannelUsedOnce, WaiterIsKnown, PendingHasReader
<1>. QED
  BY <1>1, <1>2, <1>4 DEF IInv

(* Every step keeps the invariant. *)
LEMMA NextInv == ASSUME IInv, [Next]_vars PROVE IInv'
<1>1. ASSUME NEW x \in Calls, Caller(x) \/ Timeout(x) PROVE IInv'
  <2>1. CASE Register(x)
    BY <2>1, RegisterKeeps, RegisterFailsKeeps
  <2>2. CASE SendTo(x)
    BY <2>2, SendToKeeps, SendFailsKeeps
  <2>. QED
    BY <1>1, <2>1, <2>2, WriteKeeps, WriteFailsKeeps, ReceiveKeeps,
       TimeoutKeeps, UnregisterKeeps
       DEF Caller
<1>2. ASSUME NEW k \in Conns, Reader(k) \/ Serving(k) \/ ServeEnds(k)
      PROVE  IInv'
  BY <1>2, ReadReplyKeeps, ReadOtherKeeps, DeliverKeeps, DropStepKeeps,
     CloseChannelsKeeps, AcceptKeeps, ServeKeeps, ServeEndsKeeps
     DEF Reader, Serving
<1>3. ASSUME NEW p \in Connectors, Connecting(p) PROVE IInv'
  BY <1>3, ConnectKeeps, DialKeeps, GiveUpKeeps, InstallKeeps
     DEF Connecting
<1>4. ASSUME NEW v \in Verdicts,
             Broadcast(v) \/ Pushing(v) \/ \E k \in Conns : PushFails(v, k)
      PROVE  IInv'
  BY <1>4, BroadcastKeeps, PushKeeps, PushFailsKeeps DEF Pushing
<1>5. CASE Disconnect \/ StopService \/ StartService
  BY <1>5, DisconnectKeeps, StopServiceKeeps, StartServiceKeeps
<1>6. CASE UNCHANGED vars
  BY <1>6, StutterKeeps
<1>. QED
  BY <1>1, <1>2, <1>3, <1>4, <1>5, <1>6 DEF Next

(* The inductive invariant holds in every state of every behaviour. *)
THEOREM Invariance == Spec => []IInv
<1>. QED
  BY InitInv, NextInv, PTL DEF Spec

(* Type correctness. *)
THEOREM TypeCorrect == Spec => []TypeOK
<1>1. IInv => TypeOK
  BY DEF IInv
<1>. QED
  BY Invariance, <1>1, PTL

(* No channel is answered or closed twice: see ChannelUsedOnce. *)
THEOREM ChannelsAreUsedOnce == Spec => []ChannelUsedOnce
<1>1. IInv => ChannelUsedOnce
  BY DEF IInv
<1>. QED
  BY Invariance, <1>1, PTL

(* No call that waits is forgotten: see WaiterIsKnown. *)
THEOREM WaitersAreKnown == Spec => []WaiterIsKnown
<1>1. IInv => WaiterIsKnown
  BY DEF IInv
<1>. QED
  BY Invariance, <1>1, PTL

(* The end of a call's connection will be noticed: see PendingHasReader. *)
THEOREM PendingCallsHaveReaders == Spec => []PendingHasReader
<1>1. IInv => PendingHasReader
  BY DEF IInv
<1>. QED
  BY Invariance, <1>1, PTL

-----------------------------------------------------------------------------
(* What becomes of a request. *)

(* A request is on its way to the service in one place at most, and has    *)
(* not been handled then.                                                  *)
OnceInv ==
    \A x \in Calls :
        /\ \A j, k \in Conns : \A i \in 1..Len(toServer[j]), l \in 1..Len(toServer[k]) :
              toServer[j][i] = x /\ toServer[k][l] = x => j = k /\ i = l
        /\ \A k \in Conns : \A i \in 1..Len(toServer[k]) : toServer[k][i] = x => served[x] = 0
        /\ served[x] \in {0, 1}

(* A reply is on its way, in the hands of the read loop, in the channel or *)
(* returned only when the request has been handled.                        *)
AnswerInv ==
    /\ \A k \in Conns : \A i \in 1..Len(toClient[k]) :
          toClient[k][i] \in Calls => served[toClient[k][i]] = 1
    /\ \A k \in Conns : reader[k] = "deliver" => \A x \in hand[k] : served[x] = 1
    /\ \A x \in Calls : chan[x] = "reply" \/ result[x] = "reply" => served[x] = 1

(* A request that is written is on its way nowhere else. *)
LEMMA WriteKeepsOnce ==
    ASSUME IInv, OnceInv, NEW x \in Calls, Write(x) PROVE OnceInv'
<1>. DEFINE k == on[x]
<1>1. /\ call[x] = "sending" /\ k \in Conns /\ served' = served
      /\ toServer \in [Conns -> Seq(Calls)]
      /\ toServer' = [toServer EXCEPT ![k] = Append(@, x)]
  BY DEF Write, IInv, TypeOK, CallInv
<1>2. /\ served[x] = 0
      /\ \A j \in Conns : \A i \in 1..Len(toServer[j]) : toServer[j][i] # x
  BY <1>1 DEF IInv, QueueInv, Written
<1>. HIDE DEF k
<1>3. \A j \in Conns : \A i \in 1..Len(toServer'[j]) :
         \/ i \in 1..Len(toServer[j]) /\ toServer'[j][i] = toServer[j][i]
         \/ j = k /\ i = Len(toServer[k]) + 1 /\ toServer'[j][i] = x
  <2>. SUFFICES ASSUME NEW j \in Conns, NEW i \in 1..Len(toServer'[j])
                PROVE  \/ i \in 1..Len(toServer[j]) /\ toServer'[j][i] = toServer[j][i]
                       \/ j = k /\ i = Len(toServer[k]) + 1 /\ toServer'[j][i] = x
    OBVIOUS
  <2>1. toServer[j] \in Seq(Calls)
    BY <1>1
  <2>2. CASE j = k
    <3>1. toServer'[j] = Append(toServer[j], x)
      BY <1>1, <2>2
    <3>. QED
      BY <2>1, <2>2, <3>1
  <2>3. CASE j # k
    BY <1>1, <2>3
  <2>. QED
    BY <2>2, <2>3
<1>. SUFFICES ASSUME NEW y \in Calls
              PROVE  /\ \A j, l \in Conns : \A i \in 1..Len(toServer'[j]),
                                                m \in 1..Len(toServer'[l]) :
                           toServer'[j][i] = y /\ toServer'[l][m] = y => j = l /\ i = m
                     /\ \A j \in Conns : \A i \in 1..Len(toServer'[j]) :
                           toServer'[j][i] = y => served'[y] = 0
                     /\ served'[y] \in {0, 1}
  BY DEF OnceInv
<1>4. CASE y = x
  <2>1. \A j \in Conns : \A i \in 1..Len(toServer'[j]) : toServer'[j][i] = x =>
           j = k /\ i = Len(toServer[k]) + 1
    BY <1>2, <1>3
  <2>. QED
    BY <1>1, <1>2, <1>4, <2>1
<1>5. CASE y # x
  <2>1. \A j \in Conns : \A i \in 1..Len(toServer'[j]) : toServer'[j][i] = y =>
           i \in 1..Len(toServer[j]) /\ toServer[j][i] = y
    BY <1>3, <1>5
  <2>2. /\ \A j, l \in Conns : \A i \in 1..Len(toServer[j]), m \in 1..Len(toServer[l]) :
              toServer[j][i] = y /\ toServer[l][m] = y => j = l /\ i = m
        /\ \A j \in Conns : \A i \in 1..Len(toServer[j]) : toServer[j][i] = y => served[y] = 0
        /\ served[y] \in {0, 1}
    BY DEF OnceInv
  <2>. QED
    BY <1>1, <2>1, <2>2
<1>. QED
  BY <1>4, <1>5

(* A request that is handled is on its way no more. *)
LEMMA ServeKeepsOnce ==
    ASSUME IInv, OnceInv, NEW k \in Conns, Serve(k) PROVE OnceInv'
<1>. DEFINE q == toServer[k]
            x == Head(q)
<1>1. /\ q \in Seq(Calls) /\ q # <<>>
      /\ toServer' = [toServer EXCEPT ![k] = Tail(q)]
      /\ toServer \in [Conns -> Seq(Calls)]
      /\ served \in [Calls -> Nat] /\ served' = [served EXCEPT ![x] = @ + 1]
  BY DEF Serve, IInv, TypeOK
<1>2. /\ Len(q) \in Nat /\ Len(q) >= 1 /\ x = q[1] /\ x \in Calls
      /\ Len(Tail(q)) = Len(q) - 1
      /\ \A i \in 1..Len(Tail(q)) : i + 1 \in 2..Len(q) /\ Tail(q)[i] = q[i + 1]
  BY <1>1
<1>. DEFINE At(j, i) == IF j = k THEN i + 1 ELSE i
<1>3. \A j \in Conns : \A i \in 1..Len(toServer'[j]) :
         At(j, i) \in 1..Len(toServer[j]) /\ toServer'[j][i] = toServer[j][At(j, i)]
  BY <1>1, <1>2
<1>4. \A j \in Conns : \A i \in 1..Len(toServer'[j]) : ~(j = k /\ At(j, i) = 1)
  BY <1>1, <1>2
<1>5. 1 \in 1..Len(toServer[k]) /\ toServer[k][1] = x
  BY <1>2
<1>6. \A j \in Conns : \A i \in 1..Len(toServer'[j]) : toServer'[j][i] # x
  <2>. SUFFICES ASSUME NEW j \in Conns, NEW i \in 1..Len(toServer'[j]), toServer'[j][i] = x
                PROVE  FALSE
    OBVIOUS
  <2>1. At(j, i) \in 1..Len(toServer[j]) /\ toServer[j][At(j, i)] = x
    BY <1>3
  <2>2. j = k /\ At(j, i) = 1
    BY <1>2, <1>5, <2>1 DEF OnceInv
  <2>. QED
    BY <1>4, <2>2
<1>7. served[x] = 0
  BY <1>2, <1>5 DEF OnceInv
<1>. SUFFICES ASSUME NEW y \in Calls
              PROVE  /\ \A j, l \in Conns : \A i \in 1..Len(toServer'[j]),
                                                m \in 1..Len(toServer'[l]) :
                           toServer'[j][i] = y /\ toServer'[l][m] = y => j = l /\ i = m
                     /\ \A j \in Conns : \A i \in 1..Len(toServer'[j]) :
                           toServer'[j][i] = y => served'[y] = 0
                     /\ served'[y] \in {0, 1}
  BY DEF OnceInv
<1>8. \A j, l \in Conns : \A i \in 1..Len(toServer'[j]), m \in 1..Len(toServer'[l]) :
         toServer'[j][i] = y /\ toServer'[l][m] = y => j = l /\ i = m
  <2>. SUFFICES ASSUME NEW j \in Conns, NEW l \in Conns,
                       NEW i \in 1..Len(toServer'[j]), NEW m \in 1..Len(toServer'[l]),
                       toServer'[j][i] = y, toServer'[l][m] = y
                PROVE  j = l /\ i = m
    OBVIOUS
  <2>1. toServer[j][At(j, i)] = y /\ toServer[l][At(l, m)] = y
    BY <1>3
  <2>2. j = l /\ At(j, i) = At(l, m)
    BY <1>3, <2>1 DEF OnceInv
  <2>. QED
    BY <2>2
<1>9. CASE y = x
  <2>1. served'[y] = 1
    BY <1>1, <1>2, <1>7, <1>9
  <2>. QED
    BY <1>6, <1>8, <1>9, <2>1
<1>10. CASE y # x
  <2>1. served'[y] = served[y]
    BY <1>1, <1>10
  <2>. QED
    BY <1>3, <1>8, <2>1 DEF OnceInv
<1>. QED
  BY <1>9, <1>10

LEMMA NextKeepsOnce ==
    ASSUME IInv, OnceInv, [Next]_vars PROVE OnceInv'
<1>1. ASSUME UNCHANGED <<toServer, served>> PROVE OnceInv'
  BY <1>1 DEF OnceInv
<1>7. ASSUME UNCHANGED served, \A k \in Conns : toServer'[k] \in {<<>>, toServer[k]}
      PROVE  OnceInv'
  <2>1. \A k \in Conns : \A i \in 1..Len(toServer'[k]) :
           i \in 1..Len(toServer[k]) /\ toServer'[k][i] = toServer[k][i]
    BY <1>7
  <2>. QED
    BY <1>7, <2>1 DEF OnceInv
<1>2. ASSUME NEW x \in Calls, Caller(x) \/ Timeout(x), ~Write(x) PROVE OnceInv'
  BY <1>1, <1>2
     DEF Caller, Register, SendTo, WriteFails, Receive, Timeout, Unregister
<1>3. ASSUME NEW k \in Conns, Reader(k) \/ Accept(k) PROVE OnceInv'
  BY <1>1, <1>3
     DEF Reader, ReadReply, ReadOther, Reads, Deliver, Drop, Ends, CloseChannels, Accept
<1>8. ASSUME NEW k \in Conns, ServeEnds(k) PROVE OnceInv'
  BY <1>7, <1>8 DEF ServeEnds, IInv, TypeOK
<1>9. CASE StopService
  BY <1>7, <1>9 DEF StopService
<1>4. ASSUME NEW p \in Connectors, Connecting(p) PROVE OnceInv'
  BY <1>1, <1>4 DEF Connecting, Connect, Dial, GiveUp, Install
<1>5. ASSUME NEW v \in Verdicts,
             Broadcast(v) \/ Pushing(v) \/ \E k \in Conns : PushFails(v, k)
      PROVE  OnceInv'
  BY <1>1, <1>5 DEF Broadcast, Pushing, Push, PushFails
<1>6. CASE Disconnect \/ StartService \/ UNCHANGED vars
  BY <1>1, <1>6 DEF Disconnect, StartService
<1>. QED
  BY <1>2, <1>3, <1>4, <1>5, <1>6, <1>8, <1>9, WriteKeepsOnce, ServeKeepsOnce DEF Next, Serving

(* What has been handled stays so. *)
LEMMA ServedStays ==
    ASSUME IInv, OnceInv, OnceInv', [Next]_vars
    PROVE  \A x \in Calls : served[x] = 1 => served'[x] = 1
<1>1. ASSUME NEW k \in Conns, Serve(k) PROVE \A x \in Calls : served'[x] >= served[x]
  BY <1>1 DEF Serve, IInv, TypeOK
<1>2. UNCHANGED served \/ \E k \in Conns : Serve(k)
  BY DEF Next, Caller, Register, SendTo, Write, WriteFails, Receive, Timeout, Unregister,
     Reader, ReadReply, ReadOther, Reads, Deliver, Drop, Ends, CloseChannels,
     Serving, Accept, ServeEnds, Connecting, Connect, Dial, GiveUp, Install,
     Broadcast, Pushing, Push, PushFails, Disconnect, StopService, StartService
<1>. QED
  BY <1>1, <1>2 DEF OnceInv

(* No reply is made up on the way. *)
LEMMA AnswerKeeps ==
    ASSUME IInv, OnceInv, OnceInv', AnswerInv, [Next]_vars PROVE AnswerInv'
<1>1. \A x \in Calls : served[x] = 1 => served'[x] = 1
  BY ServedStays
<1>2. ASSUME UNCHANGED <<toClient, reader, hand, chan, result>> PROVE AnswerInv'
  <2>1. \A k \in Conns : hand[k] \subseteq Calls
    BY DEF IInv, TypeOK
  <2>. QED
    BY <1>1, <1>2, <2>1 DEF AnswerInv
<1>3. ASSUME NEW x \in Calls, Caller(x) \/ Timeout(x) PROVE AnswerInv'
  <2>1. UNCHANGED <<toClient, reader, hand, chan, served>>
    BY <1>3 DEF Caller, Register, SendTo, Write, WriteFails, Receive, Timeout, Unregister
  <2>2. \A y \in Calls : result'[y] = "reply" => result[y] = "reply" \/ chan[y] = "reply"
    BY <1>3 DEF Caller, Register, SendTo, Write, WriteFails, Receive, Timeout, Unregister,
       Finish, Fail, IInv, TypeOK
  <2>. QED
    BY <2>1, <2>2 DEF AnswerInv
<1>4. ASSUME NEW k \in Conns, Reads(k), UNCHANGED <<served, chan, result>>,
             \/ UNCHANGED <<reader, hand>>
             \/ /\ Head(toClient[k]) \in Calls
                /\ reader' = [reader EXCEPT ![k] = "deliver"]
                /\ hand' = [hand EXCEPT ![k] = {Head(toClient[k])}]
      PROVE  AnswerInv'
  <2>1. /\ toClient[k] \in Seq(Calls \cup Verdicts) /\ toClient[k] # <<>>
        /\ toClient' = [toClient EXCEPT ![k] = Tail(@)]
        /\ toClient \in [Conns -> Seq(Calls \cup Verdicts)]
    BY <1>4 DEF IInv, TypeOK, Reads
  <2>2. /\ Head(toClient[k]) = toClient[k][1] /\ 1 \in 1..Len(toClient[k])
        /\ \A i \in 1..Len(Tail(toClient[k])) :
              i + 1 \in 1..Len(toClient[k]) /\ Tail(toClient[k])[i] = toClient[k][i + 1]
    BY <2>1
  <2>3. \A j \in Conns : \A i \in 1..Len(toClient'[j]) :
           toClient'[j][i] \in Calls => served'[toClient'[j][i]] = 1
    <3>. SUFFICES ASSUME NEW j \in Conns, NEW i \in 1..Len(toClient'[j])
                  PROVE  toClient'[j][i] \in Calls => served'[toClient'[j][i]] = 1
      OBVIOUS
    <3>1. CASE j = k
      <4>1. toClient'[k] = Tail(toClient[k])
        BY <2>1
      <4>. QED
        BY <1>4, <2>2, <3>1, <4>1 DEF AnswerInv
    <3>2. CASE j # k
      BY <1>4, <2>1, <3>2 DEF AnswerInv
    <3>. QED
      BY <3>1, <3>2
  <2>4. Head(toClient[k]) \in Calls => served[Head(toClient[k])] = 1
    BY <2>2 DEF AnswerInv
  <2>5. \A j \in Conns : reader'[j] = "deliver" => \A x \in hand'[j] : served'[x] = 1
    BY <1>4, <2>4 DEF AnswerInv, IInv, TypeOK
  <2>. QED
    BY <1>4, <2>3, <2>5 DEF AnswerInv
<1>5. ASSUME NEW k \in Conns, ReadReply(k) PROVE AnswerInv'
  BY <1>4, <1>5 DEF ReadReply, IInv, TypeOK
<1>6. ASSUME NEW k \in Conns, ReadOther(k) PROVE AnswerInv'
  BY <1>4, <1>6 DEF ReadOther
<1>7. ASSUME NEW k \in Conns, Deliver(k) PROVE AnswerInv'
  BY <1>7 DEF Deliver, AnswerInv, IInv, TypeOK
<1>8. ASSUME NEW k \in Conns, Drop(k) \/ CloseChannels(k) PROVE AnswerInv'
  <2>1. /\ UNCHANGED <<result, served>>
        /\ \A j \in Conns : toClient'[j] \in {<<>>, toClient[j]}
        /\ \A x \in Calls : chan'[x] = "reply" => chan[x] = "reply"
        /\ \A j \in Conns : reader'[j] = "deliver" => reader[j] = "deliver" /\ hand'[j] = hand[j]
    BY <1>8 DEF Drop, Ends, CloseChannels, IInv, TypeOK
  <2>2. \A j \in Conns : \A i \in 1..Len(toClient'[j]) :
           i \in 1..Len(toClient[j]) /\ toClient'[j][i] = toClient[j][i]
    BY <2>1
  <2>. QED
    BY <2>1, <2>2 DEF AnswerInv
<1>9. ASSUME NEW k \in Conns, Serve(k) PROVE AnswerInv'
  <2>. DEFINE x == Head(toServer[k])
  <2>1. /\ x \in Calls /\ served \in [Calls -> Nat] /\ served' = [served EXCEPT ![x] = @ + 1]
        /\ toClient \in [Conns -> Seq(Calls \cup Verdicts)]
        /\ toClient' = [toClient EXCEPT ![k] = IF link[k] = "open" THEN Append(@, x) ELSE @]
        /\ UNCHANGED <<reader, hand, chan, result>>
    BY <1>9 DEF Serve, IInv, TypeOK
  <2>2. served'[x] = 1
    BY <2>1 DEF OnceInv
  <2>. HIDE DEF x
  <2>3. \A j \in Conns : \A i \in 1..Len(toClient'[j]) :
           \/ i \in 1..Len(toClient[j]) /\ toClient'[j][i] = toClient[j][i]
           \/ toClient'[j][i] = x
    <3>. SUFFICES ASSUME NEW j \in Conns, NEW i \in 1..Len(toClient'[j])
                  PROVE  \/ i \in 1..Len(toClient[j]) /\ toClient'[j][i] = toClient[j][i]
                         \/ toClient'[j][i] = x
      OBVIOUS
    <3>1. CASE toClient'[j] = toClient[j]
      BY <3>1
    <3>2. CASE toClient'[j] = Append(toClient[j], x)
      BY <2>1, <3>2
    <3>. QED
      BY <2>1, <3>1, <3>2
  <2>4. \A j \in Conns : \A i \in 1..Len(toClient'[j]) :
           toClient'[j][i] \in Calls => served'[toClient'[j][i]] = 1
    BY <1>1, <2>2, <2>3 DEF AnswerInv
  <2>5. \A j \in Conns : hand[j] \subseteq Calls
    BY DEF IInv, TypeOK
  <2>. QED
    BY <1>1, <2>1, <2>4, <2>5 DEF AnswerInv
<1>10. ASSUME NEW v \in Verdicts, NEW k \in Conns, Push(v, k) PROVE AnswerInv'
  <2>1. /\ v \notin Calls /\ UNCHANGED <<reader, hand, chan, result, served>>
        /\ toClient \in [Conns -> Seq(Calls \cup Verdicts)]
        /\ \A j \in Conns : toClient'[j] = toClient[j] \/ toClient'[j] = Append(toClient[j], v)
    BY <1>10 DEF Push, IInv, TypeOK
  <2>2. \A j \in Conns : \A i \in 1..Len(toClient'[j]) : toClient'[j][i] \in Calls =>
           i \in 1..Len(toClient[j]) /\ toClient'[j][i] = toClient[j][i]
    <3>. SUFFICES ASSUME NEW j \in Conns, NEW i \in 1..Len(toClient'[j]),
                         toClient'[j][i] \in Calls
                  PROVE  i \in 1..Len(toClient[j]) /\ toClient'[j][i] = toClient[j][i]
      OBVIOUS
    <3>1. CASE toClient'[j] = toClient[j]
      BY <3>1
    <3>2. CASE toClient'[j] = Append(toClient[j], v)
      <4>1. toClient[j] \in Seq(Calls \cup Verdicts)
        BY <2>1
      <4>. QED
        BY <2>1, <3>2, <4>1
    <3>. QED
      BY <2>1, <3>1, <3>2
  <2>. QED
    BY <2>1, <2>2 DEF AnswerInv
<1>11. ASSUME NEW p \in Connectors, Connecting(p) PROVE AnswerInv'
  <2>1. /\ UNCHANGED <<toClient, result, served, chan, hand>>
        /\ \A j \in Conns : reader'[j] = "deliver" => reader[j] = "deliver"
    BY <1>11 DEF Connecting, Connect, Dial, GiveUp, Install, IInv, TypeOK
  <2>. QED
    BY <2>1 DEF AnswerInv
<1>12. ASSUME NEW k \in Conns, Accept(k) \/ ServeEnds(k) PROVE AnswerInv'
  BY <1>2, <1>12 DEF Accept, ServeEnds
<1>13. CASE \/ Disconnect \/ StopService \/ StartService \/ UNCHANGED vars
            \/ \E v \in Verdicts : Broadcast(v) \/ \E k \in Conns : PushFails(v, k)
  BY <1>2, <1>13 DEF Disconnect, StopService, StartService, Broadcast, PushFails
<1>. QED
  BY <1>3, <1>5, <1>6, <1>7, <1>8, <1>9, <1>10, <1>11, <1>12, <1>13
     DEF Next, Reader, Serving, Pushing

(* A call returns what its channel, its write or its timer tells it. *)
LEMMA CallImplements ==
    ASSUME IInv, OnceInv, AnswerInv, NEW x \in Calls, Caller(x) \/ Timeout(x)
    PROVE  [R!Next]_R!vars
<1>1. ASSUME NEW r \in {"notConnected", "sendFailed", "disconnected", "timeout", "reply"},
             result' = [result EXCEPT ![x] = r], UNCHANGED served,
             call[x] \in {"new", "registered", "sending", "waiting"},
             r \in {"notConnected", "sendFailed"} => call[x] # "waiting",
             r = "reply" => chan[x] = "reply"
      PROVE  R!Next
  <2>1. result[x] = "none"
    BY <1>1 DEF IInv, CallInv
  <2>2. r \in {"notConnected", "sendFailed"} => served[x] = 0
    BY <1>1 DEF IInv, QueueInv, Written
  <2>3. r = "reply" => served[x] = 1
    BY <1>1 DEF AnswerInv
  <2>4. R!Return(x, r)
    BY <1>1, <2>1, <2>2, <2>3 DEF R!Return
  <2>. QED
    BY <1>1, <2>4 DEF R!Next
<1>2. ASSUME UNCHANGED <<served, result>> PROVE UNCHANGED R!vars
  BY <1>2 DEF R!vars
<1>3. CASE Register(x)
  BY <1>1, <1>2, <1>3 DEF Register, Finish
<1>4. CASE SendTo(x)
  BY <1>1, <1>2, <1>4 DEF SendTo, Fail
<1>5. CASE WriteFails(x)
  BY <1>1, <1>5 DEF WriteFails, Fail
<1>6. CASE Receive(x)
  BY <1>1, <1>6 DEF Receive, Finish
<1>7. CASE Timeout(x)
  BY <1>1, <1>7 DEF Timeout, Fail
<1>8. CASE Write(x) \/ Unregister(x)
  BY <1>2, <1>8 DEF Write, Unregister
<1>. QED
  BY <1>3, <1>4, <1>5, <1>6, <1>7, <1>8 DEF Caller

(* A request that the service handles was written and has not been         *)
(* handled, and its caller has not been told that it was not sent.         *)
LEMMA ServeImplements ==
    ASSUME IInv, OnceInv, AnswerInv, NEW k \in Conns, Serve(k) PROVE R!Next
<1>. DEFINE x == Head(toServer[k])
<1>1. /\ x \in Calls /\ 1 \in 1..Len(toServer[k]) /\ x = toServer[k][1]
      /\ served \in [Calls -> Nat] /\ result \in [Calls -> Results]
      /\ served' = [served EXCEPT ![x] = @ + 1] /\ UNCHANGED result
  BY DEF Serve, IInv, TypeOK
<1>2. served[x] = 0
  BY <1>1 DEF OnceInv
<1>3. result[x] \in {"disconnected", "timeout", "none"}
  <2>1. result[x] \notin {"notConnected", "sendFailed"}
    BY <1>1 DEF IInv, QueueInv, Written
  <2>2. result[x] # "reply"
    BY <1>1, <1>2 DEF AnswerInv
  <2>. QED
    BY <1>1, <2>1, <2>2 DEF Results, Errors
<1>4. served' = [served EXCEPT ![x] = 1]
  BY <1>1, <1>2
<1>. HIDE DEF x
<1>5. R!Handle(x)
  BY <1>1, <1>2, <1>3, <1>4 DEF R!Handle
<1>. QED
  BY <1>1, <1>5 DEF R!Next

LEMMA RequestStep ==
    ASSUME IInv, OnceInv, AnswerInv, [Next]_vars PROVE [R!Next]_R!vars
<1>1. ASSUME UNCHANGED <<served, result>> PROVE UNCHANGED R!vars
  BY <1>1 DEF R!vars
<1>2. ASSUME NEW k \in Conns, Reader(k) \/ Accept(k) \/ ServeEnds(k) PROVE UNCHANGED R!vars
  BY <1>1, <1>2
     DEF Reader, ReadReply, ReadOther, Reads, Deliver, Drop, Ends, CloseChannels, Accept, ServeEnds
<1>3. ASSUME NEW p \in Connectors, Connecting(p) PROVE UNCHANGED R!vars
  BY <1>1, <1>3 DEF Connecting, Connect, Dial, GiveUp, Install
<1>4. CASE \/ Disconnect \/ StopService \/ StartService \/ UNCHANGED vars
           \/ \E v \in Verdicts : Broadcast(v) \/ Pushing(v)
           \/ \E v \in Verdicts, k \in Conns : PushFails(v, k)
  BY <1>1, <1>4
     DEF Disconnect, StopService, StartService, Broadcast, Pushing, Push, PushFails
<1>. QED
  BY <1>2, <1>3, <1>4, CallImplements, ServeImplements DEF Next, Serving

(* A request is handled once at most, an answer means that it has been,    *)
(* and "not connected" that it never is, for any number of calls,          *)
(* connections, connecting goroutines, stops and failed writes: see module *)
(* Requests.                                                               *)
THEOREM RequestsAreHandledOnce == Spec => ImplementsRequests
<1>1. Init => R!Init /\ OnceInv /\ AnswerInv
  BY DEF Init, R!Init, OnceInv, AnswerInv
<1>2. IInv /\ OnceInv /\ AnswerInv /\ [Next]_vars => OnceInv' /\ AnswerInv' /\ [R!Next]_R!vars
  BY NextKeepsOnce, AnswerKeeps, RequestStep
<1>. QED
  BY <1>1, <1>2, Invariance, PTL DEF Spec, ImplementsRequests, R!Spec
=============================================================================
