---------------------------- MODULE SocketServers ----------------------------
(***************************************************************************)
(* Listening TCP sockets and UDP sockets on the loop thread: CtcpServer    *)
(* and Cudp (uv_wrapper.h), the maps m_tcpServers and m_udpServers that    *)
(* own them, and the requests that bind, unbind and send (network_pool.cpp)*)
(*                                                                         *)
(* Requests come in batches, in each of which all binds and unbinds are    *)
(* handled before all UDP sends (RequestQueue).  Between batches libuv     *)
(* calls back.  Each action is one such callback, or one request, with the *)
(* sends that the user's own callback makes directly on the way.  What     *)
(* becomes of an accepted connection is the subject of TcpConn.            *)
(***************************************************************************)
EXTENDS Integers, Sequences

CONSTANTS
    MaxId,      \* bound: socket ids given out in a behaviour
    Bufs,       \* datagrams, each sent at most once
    Requests    \* calls of the pool, each made at most once

Ids == 1 .. MaxId

ASSUME MaxIdAssumption == MaxId \in Nat
ASSUME RequestsAssumption ==
    Requests \subseteq [op : {"bindTcp", "bindUdp"}]
                       \union [op : {"unbindTcp", "unbindUdp"}, id : Ids]
                       \union [op : {"sendUdp"}, id : Ids, buf : Bufs]

VARIABLES
    socketIdCounter,    \* m_socketIdCounter
    submitted,          \* history: the calls made so far
    pendingBind,        \* m_pendingBind
    pendingSendUdp,     \* m_pendingSendUdp
    batch,              \* bindCopy, then sendUdpCopy
    exited,             \* the exit branch of the wakeup callback has run
    discarded,          \* history: datagrams freed without a word
    sock                \* the CtcpServer or Cudp that was given each id

requests == <<submitted, pendingBind, pendingSendUdp, batch>>
vars == <<socketIdCounter, submitted, pendingBind, pendingSendUdp, batch, exited,
          discarded, sock>>

(***************************************************************************)
(* A socket.                                                               *)
(*   kind      "client" is an accepted connection, of which only the id    *)
(*             matters here                                                *)
(*   obj, owned, closing    the object, its map entry, uv_close was called *)
(*   active    uv_listen or uv_udp_recv_start is in effect                 *)
(*   waiting   a connection waits to be accepted                           *)
(*   stalled   libuv holds a connection that was not accepted, and polls   *)
(*             for no other                                                *)
(*   sends     the uv_udp_send_t that await their callback, oldest first   *)
(*   sent, lost   history: datagrams sent, or reported by sendError()      *)
(*   last      history: the latest call of the user's callback object;     *)
(*             packet(), newTcpCallback(), recvError() and listenError() are *)
(*             events                                                        *)
(*   stopped   history: shutdown() was called                              *)
(***************************************************************************)
Sock == [kind : {"none", "tcp", "udp", "client"},
         obj : {"none", "live", "freed"},
         owned : BOOLEAN, closing : BOOLEAN, active : BOOLEAN,
         waiting : BOOLEAN, stalled : BOOLEAN,
         sends : Seq([buf : Bufs, state : {"queued", "sent", "failed"}]),
         sent : SUBSET Bufs, lost : SUBSET Bufs,
         last : {"none", "startup", "event", "sendError", "shutdown"},
         stopped : BOOLEAN]

NoSock == [kind |-> "none", obj |-> "none", owned |-> FALSE, closing |-> FALSE,
           active |-> FALSE, waiting |-> FALSE, stalled |-> FALSE,
           sends |-> <<>>, sent |-> {}, lost |-> {}, last |-> "none",
           stopped |-> FALSE]

Init ==
    /\ socketIdCounter = 0
    /\ submitted = {}
    /\ pendingBind = <<>>
    /\ pendingSendUdp = <<>>
    /\ batch = <<>>
    /\ exited = FALSE
    /\ discarded = {}
    /\ sock = [s \in Ids |-> NoSock]

IsSend(r)    == r.op = "sendUdp"
InRequests(rs) == {rs[i].buf : i \in {j \in DOMAIN rs : IsSend(rs[j])}}
Sending(c)   == {c.sends[i].buf : i \in DOMAIN c.sends}
SentBy(c)    == {c.sends[i].buf : i \in {j \in DOMAIN c.sends :
                                            c.sends[j].state = "sent"}}
Unused ==
    Bufs \ (InRequests(pendingSendUdp) \union InRequests(batch) \union discarded \union
            UNION {Sending(sock[s]) \union sock[s].sent \union sock[s].lost :
                      s \in Ids})

-----------------------------------------------------------------------------
(* CtcpServer and Cudp.                                                    *)

\* The deleter of both pointers: uv_close ends polling at once.
CloseSock(c) ==
    IF c.closing THEN c
    ELSE [c EXCEPT !.closing = TRUE, !.active = FALSE, !.waiting = FALSE]

\* Out of the map, uv_udp_recv_stop, shutdown(), and the pointer goes.
Retire(c) ==
    CloseSock([c EXCEPT !.owned = FALSE, !.last = "shutdown", !.stopped = TRUE])

\* Mutant of SendOutcomes: a refused datagram is reported and kept.
SendKeepsRefused(c, b) ==
    {[c EXCEPT !.lost = @ \union {b}, !.last = "sendError",
               !.sends = Append(@, [buf |-> b, state |-> "failed"])],
     [c EXCEPT !.sends = Append(@, [buf |-> b, state |-> "queued"])]}

\* udpSend: no memory, or uv_udp_send refuses; otherwise libuv has it.  The
\* bound: sendError() does not send in its turn.
SendOutcomes(c, b) ==
    {[c EXCEPT !.lost = @ \union {b}, !.last = "sendError"],
     [c EXCEPT !.sends = Append(@, [buf |-> b, state |-> "queued"])]}

\* sendUdp called directly by a callback of the socket, at most once: it acts
\* on a socket it finds in m_udpServers, and otherwise the data is freed.
\* What is given is the socket's outcome, and the datagrams discarded.
UserActs(c) ==
    {<<c, {}>>} \union
    (IF c.kind # "udp" THEN {}
     ELSE IF c.owned THEN {<<d, {}>> : d \in UNION {SendOutcomes(c, b) : b \in Unused}}
     ELSE {<<c, {b}>> : b \in Unused})

\* The socket s becomes one of the outcomes, each a pair as above.
Becomes(s, outcomes) ==
    \E o \in outcomes : /\ sock' = [sock EXCEPT ![s] = o[1]]
                        /\ discarded' = discarded \union o[2]

-----------------------------------------------------------------------------
(* Requests.                                                               *)

Idle == batch = <<>>

\* bindTcp, unbindTcp, bindUdp, unbindUdp and sendUdp from any thread.  Ids
\* are known from startup(); they may be out of date.
Submit(r) ==
    /\ ~exited
    /\ r \notin submitted
    /\ "id" \in DOMAIN r => sock[r.id].last # "none"
    /\ IsSend(r) => r.buf \in Unused
    /\ submitted' = submitted \union {r}
    /\ IF IsSend(r)
       THEN pendingSendUdp' = Append(pendingSendUdp, r) /\ UNCHANGED pendingBind
       ELSE pendingBind' = Append(pendingBind, r) /\ UNCHANGED pendingSendUdp
    /\ UNCHANGED <<socketIdCounter, batch, exited, discarded, sock>>

\* The wakeup callback moves the deques away.
TakeBatch ==
    /\ Idle
    /\ ~exited
    /\ pendingBind # <<>> \/ pendingSendUdp # <<>>
    /\ batch' = pendingBind \o pendingSendUdp
    /\ pendingBind' = <<>> /\ pendingSendUdp' = <<>>
    /\ UNCHANGED <<socketIdCounter, submitted, exited, discarded, sock>>

Handling(op) ==
    /\ batch # <<>>
    /\ Head(batch).op = op
    /\ batch' = Tail(batch)
    /\ UNCHANGED <<submitted, pendingBind, pendingSendUdp, exited>>

NextId == socketIdCounter + 1

\* The object could not be made, or uv_tcp_init or uv_udp_init failed: only
\* the id is gone.  (The bound: when no ids are left, every bind fails.)
BindFails ==
    /\ Handling("bindTcp") \/ Handling("bindUdp")
    /\ socketIdCounter' = IF NextId \in Ids THEN NextId ELSE socketIdCounter
    /\ UNCHANGED <<discarded, sock>>

\* Mutant of Bound: startup() is called before the socket receives, and the
\* failure to do so is met after it.
BoundTooEarly(kind) ==
    LET c == [NoSock EXCEPT !.kind = kind, !.obj = "live"]
        up == [c EXCEPT !.active = TRUE, !.last = "startup"]
    IN  {<<CloseSock(up), {}>>}
        \union {<<[o[1] EXCEPT !.owned = TRUE], o[2]>> : o \in UserActs(up)}

\* bindAndListenTcp and bindAndListenUdp, and the insertion into the map.  A
\* step that fails lets the pointer close the socket; startup() is called
\* when all succeeded, and the socket enters its map after that.
Bound(kind) ==
    LET c == [NoSock EXCEPT !.kind = kind, !.obj = "live"]
        up == [c EXCEPT !.active = TRUE, !.last = "startup"]
    IN  {<<CloseSock(c), {}>>}
        \union {<<[o[1] EXCEPT !.owned = TRUE], o[2]>> : o \in UserActs(up)}

BindTcp ==
    /\ Handling("bindTcp")
    /\ NextId \in Ids
    /\ socketIdCounter' = NextId
    /\ Becomes(NextId, Bound("tcp"))

\* Mutant of BindUdp: the counter does not keep the id it gave out.
BindUdpUncounted ==
    /\ Handling("bindUdp")
    /\ NextId \in Ids
    /\ UNCHANGED socketIdCounter
    /\ Becomes(NextId, Bound("udp"))

BindUdp ==
    /\ Handling("bindUdp")
    /\ NextId \in Ids
    /\ socketIdCounter' = NextId
    /\ Becomes(NextId, Bound("udp"))

\* unbindTcp looks in m_tcpServers, unbindUdp in m_udpServers.
Unbind(kind) ==
    /\ Handling(IF kind = "tcp" THEN "unbindTcp" ELSE "unbindUdp")
    /\ LET s == Head(batch).id
       IN  IF sock[s].owned /\ sock[s].kind = kind
           THEN Becomes(s, UserActs(Retire(sock[s])))
           ELSE UNCHANGED <<discarded, sock>>
    /\ UNCHANGED socketIdCounter

\* A datagram for a socket that is not in m_udpServers is freed.
SendUdp ==
    /\ Handling("sendUdp")
    /\ LET r == Head(batch)
           c == sock[r.id]
       IN  Becomes(r.id, IF c.owned /\ c.kind = "udp"
                         THEN {<<d, {}>> : d \in SendOutcomes(c, r.buf)}
                         ELSE {<<c, {r.buf}>>})
    /\ UNCHANGED socketIdCounter

\* Mutant of Exit: the UDP sockets are left alone.
ExitServersOnly ==
    /\ Idle
    /\ ~exited
    /\ exited' = TRUE
    /\ pendingBind' = <<>> /\ pendingSendUdp' = <<>>
    /\ discarded' = discarded \union InRequests(pendingSendUdp)
    /\ sock' = [s \in Ids |-> IF sock[s].owned /\ sock[s].kind = "tcp"
                              THEN Retire(sock[s]) ELSE sock[s]]
    /\ UNCHANGED <<socketIdCounter, submitted, batch>>

\* The exit branch: the batch is freed unhandled; both maps are emptied, each
\* socket is told of its shutdown() and closed.
Exit ==
    /\ Idle
    /\ ~exited
    /\ exited' = TRUE
    /\ pendingBind' = <<>> /\ pendingSendUdp' = <<>>
    /\ discarded' = discarded \union InRequests(pendingSendUdp)
    /\ sock' = [s \in Ids |-> IF sock[s].owned THEN Retire(sock[s]) ELSE sock[s]]
    /\ UNCHANGED <<socketIdCounter, submitted, batch>>

-----------------------------------------------------------------------------
(* Callbacks of a listening socket.                                        *)

\* A peer connects.
Arrives(s) ==
    /\ sock[s].kind = "tcp" /\ sock[s].active /\ ~sock[s].waiting
    /\ sock' = [sock EXCEPT ![s].waiting = TRUE]
    /\ UNCHANGED <<socketIdCounter, requests, exited, discarded>>

CallsBack(s, kind) ==
    /\ Idle
    /\ sock[s].kind = kind
    /\ sock[s].active
    /\ UNCHANGED <<requests, exited, discarded>>

Taken(s) == [sock[s] EXCEPT !.waiting = FALSE, !.last = "event"]

\* newTcpCallback() gives an object, the Ctcp is made, and uv_accept takes
\* the connection: for good, or to close it again when one of the steps that
\* follow fails.
Accept(s) ==
    /\ CallsBack(s, "tcp")
    /\ sock[s].waiting /\ ~sock[s].stalled
    /\ NextId \in Ids
    /\ socketIdCounter' = NextId
    /\ sock' = [sock EXCEPT ![s] = Taken(s),
                            ![NextId].kind = "client"]

\* It gives none, or the Ctcp cannot be made: the callback returns without
\* uv_accept, and libuv stops polling the socket.
AcceptGivesUp(s) ==
    /\ CallsBack(s, "tcp")
    /\ sock[s].waiting /\ ~sock[s].stalled
    /\ \/ UNCHANGED socketIdCounter
       \/ NextId \in Ids /\ socketIdCounter' = NextId
    /\ sock' = [sock EXCEPT ![s].stalled = TRUE, ![s].last = "event"]

\* The kernel cannot accept: listenError().
ListenError(s) ==
    /\ CallsBack(s, "tcp")
    /\ sock[s].waiting /\ ~sock[s].stalled
    /\ sock' = [sock EXCEPT ![s] = Taken(s)]
    /\ UNCHANGED socketIdCounter

-----------------------------------------------------------------------------
(* Callbacks of a UDP socket.                                              *)

\* A datagram, or an error of the socket; each may be answered directly.
Receive(s) ==
    /\ Idle
    /\ sock[s].kind = "udp" /\ sock[s].active
    /\ Becomes(s, UserActs([sock[s] EXCEPT !.last = "event"]))
    /\ UNCHANGED <<socketIdCounter, requests, exited>>

\* The kernel takes or refuses the oldest datagram that is queued.
KernelSends(s) ==
    /\ ~sock[s].closing
    /\ \E i \in DOMAIN sock[s].sends, result \in {"sent", "failed"} :
          /\ sock[s].sends[i].state = "queued"
          /\ \A j \in 1 .. (i - 1) : sock[s].sends[j].state # "queued"
          /\ sock' = [sock EXCEPT ![s].sends[i].state = result]
    /\ UNCHANGED <<socketIdCounter, requests, exited, discarded>>

\* The callback of uv_udp_send frees the data, after sendError() if it failed.
SendCallback(s) ==
    /\ Idle
    /\ ~sock[s].closing
    /\ sock[s].sends # <<>>
    /\ Head(sock[s].sends).state # "queued"
    /\ LET b == Head(sock[s].sends).buf
           c == [sock[s] EXCEPT !.sends = Tail(@)]
       IN  Becomes(s, IF Head(sock[s].sends).state = "sent"
                      THEN {<<[c EXCEPT !.sent = @ \union {b}], {}>>}
                      ELSE UserActs([c EXCEPT !.lost = @ \union {b},
                                              !.last = "sendError"]))
    /\ UNCHANGED <<socketIdCounter, requests, exited>>

\* libuv ends a closing socket by calling back its sends, with an error those
\* that the kernel did not take; the close callback deletes the object.
Closed(c) ==
    [c EXCEPT !.obj = "freed", !.sends = <<>>,
              !.sent = @ \union SentBy(c),
              !.lost = @ \union (Sending(c) \ SentBy(c)),
              !.last = IF Sending(c) = SentBy(c) THEN @ ELSE "sendError"]

SocketClosed(s) ==
    /\ Idle
    /\ sock[s].obj = "live"
    /\ sock[s].closing
    /\ sock' = [sock EXCEPT ![s] = Closed(sock[s])]
    /\ UNCHANGED <<socketIdCounter, requests, exited, discarded>>

-----------------------------------------------------------------------------
Dispatch == \/ BindTcp \/ BindUdp \/ BindFails
            \/ \E kind \in {"tcp", "udp"} : Unbind(kind)
            \/ SendUdp

\* uv_run has returned: no handle is left.
LoopEnded == /\ exited
             /\ \A s \in Ids : sock[s].obj # "live"
             /\ UNCHANGED vars

Listens(s) == Accept(s) \/ AcceptGivesUp(s) \/ ListenError(s)

Next == \/ \E r \in Requests : Submit(r)
        \/ TakeBatch \/ Dispatch \/ Exit \/ LoopEnded
        \/ \E s \in Ids : \/ Arrives(s) \/ Listens(s) \/ Receive(s)
                          \/ KernelSends(s) \/ SendCallback(s) \/ SocketClosed(s)

Spec == Init /\ [][Next]_vars

\* The loop handles its requests and delivers the callbacks it owes.  (Weak
\* fairness is enough: a batch holds the callbacks up, but only so many times
\* as there are requests.)  The kernel takes or refuses datagrams without
\* waiting for the peer.
FairSpec ==
    /\ Spec
    /\ WF_vars(TakeBatch)
    /\ WF_vars(Dispatch)
    /\ \A s \in Ids : /\ WF_vars(Listens(s))
                      /\ WF_vars(KernelSends(s))
                      /\ WF_vars(SendCallback(s))
                      /\ WF_vars(SocketClosed(s))

-----------------------------------------------------------------------------
(* Properties.                                                             *)

\* Every variable has its type, and sockets have the ids given out so far.
TypeOK ==
    /\ socketIdCounter \in 0 .. MaxId
    /\ submitted \subseteq Requests
    /\ pendingBind \in Seq({r \in Requests : ~IsSend(r)})
    /\ pendingSendUdp \in Seq({r \in Requests : IsSend(r)})
    /\ batch \in Seq(Requests)
    /\ exited \in BOOLEAN
    /\ discarded \in SUBSET Bufs
    /\ sock \in [Ids -> Sock]
    /\ \A s \in Ids : s > socketIdCounter => sock[s] = NoSock

Places(b) ==
    {<<"pending", i>> : i \in {j \in DOMAIN pendingSendUdp : pendingSendUdp[j].buf = b}}
    \union {<<"batch", i>> : i \in {j \in DOMAIN batch :
                                      IsSend(batch[j]) /\ batch[j].buf = b}}
    \union (UNION {{<<"sends", s, i>> : i \in {j \in DOMAIN sock[s].sends :
                                      sock[s].sends[j].buf = b}} : s \in Ids})
    \union {<<"sent", s>> : s \in {t \in Ids : b \in sock[t].sent}}
    \union {<<"lost", s>> : s \in {t \in Ids : b \in sock[t].lost}}
    \union (IF b \in discarded THEN {<<"discarded">>} ELSE {})

\* A datagram handed to sendUdp is in one place: in a request, in one
\* uv_udp_send_t, sent, reported by sendError(), or discarded because no such
\* socket was found; so it is freed once.  A socket that is deleted has none
\* under way, since their callbacks would use it.
DatagramFate ==
    /\ \A b \in Bufs : \A p, q \in Places(b) : p = q
    /\ \A s \in Ids : sock[s].obj = "freed" => sock[s].sends = <<>>

\* What a user's callback object hears: startup() first and once; a socket in
\* a map has been started up and not shut down, and one that was started up
\* leaves its map with shutdown(); after it comes nothing but sendError() for
\* datagrams that were under way.
CallbackProtocol ==
    [][\A s \in Ids :
         LET c == sock[s]
             d == sock'[s]
         IN  /\ c.last = "none" => d.last \in {"none", "startup"}
             /\ d.last = "startup" => c.last \in {"none", "startup"}
             /\ c.stopped => d.stopped /\ d.last \in {c.last, "sendError"}
             /\ d.last # "none" => (d.owned <=> ~d.stopped)
             /\ d.owned => d.last # "none"]_vars

\* What is under way comes to its end: a closing socket is deleted, a datagram
\* submitted is sent, reported or discarded, and a waiting connection is
\* taken up unless an earlier one was left without uv_accept or the socket is
\* closed; and after the exit branch no handle stays, so that uv_run returns.
Settles ==
    /\ \A s \in Ids : sock[s].closing ~> (sock[s].obj = "freed")
    /\ \A b \in Bufs : (\E s \in Ids : b \in InRequests(pendingSendUdp) \union Sending(sock[s]))
          ~> \/ b \in discarded
             \/ \E s \in Ids : b \in sock[s].sent \union sock[s].lost
    /\ \A s \in Ids : sock[s].waiting ~> (~sock[s].waiting \/ sock[s].stalled)
    /\ exited ~> (\A s \in Ids : sock[s].obj # "live")
=============================================================================
