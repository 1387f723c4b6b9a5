------------------------ MODULE SocketServersProofs ------------------------
(***************************************************************************)
(* Proofs about SocketServers, for any requests, any number of sockets and *)
(* any datagrams.                                                          *)
(*                                                                         *)
(* As in TcpConnProofs the invariant is made of a predicate on one socket, *)
(* Sound.  A datagram changes its place in a step of the request queue, or *)
(* in a callback that hands a new one to a socket or sees it freed: Apart  *)
(* says that the places share none.                                        *)
(***************************************************************************)
EXTENDS SocketServers, TLAPS

Datagrams == [buf : Bufs, state : {"queued", "sent", "failed"}]

\* The uv_udp_send_t w, the datagrams sent and those reported lost.
Names(w) == {w[i].buf : i \in DOMAIN w}
Held(w, sent, lost) == Names(w) \union sent \union lost
Fate(w, sent, lost) ==
    /\ Names(w) \intersect (sent \union lost) = {}
    /\ sent \intersect lost = {}
    /\ \A i, j \in DOMAIN w : w[i].buf = w[j].buf => i = j

HeldBy(c) == Held(c.sends, c.sent, c.lost)

\* What the user's callback object has heard, and whether the socket is in its
\* map: no socket polls outside its map, and an object that was deleted, or
\* never heard startup(), has nothing under way.
Heard(c) ==
    /\ c.active => c.owned
    /\ c.owned => c.obj = "live" /\ ~c.closing
    /\ c.last = "none" => ~c.owned /\ ~c.stopped /\ c.sends = <<>>
    /\ c.last # "none" => (c.owned <=> ~c.stopped)
    /\ c.obj # "live" => c.sends = <<>>

Sound(c) == c \in Sock /\ Heard(c) /\ Fate(c.sends, c.sent, c.lost)

\* No two requests of q send the same datagram.
Single(q) == \A i, j \in DOMAIN q :
                IsSend(q[i]) /\ IsSend(q[j]) /\ q[i].buf = q[j].buf => i = j

\* No two places hold the same datagram.
Apart ==
    LET filed == InRequests(pendingSendUdp)
        taken == InRequests(batch)
    IN  /\ filed \intersect taken = {}
        /\ (filed \union taken) \intersect discarded = {}
        /\ \A s \in Ids :
             HeldBy(sock[s]) \intersect (filed \union taken \union discarded) = {}
        /\ \A s, t \in Ids : s # t => HeldBy(sock[s]) \intersect HeldBy(sock[t]) = {}

IInv ==
    /\ TypeOK
    /\ \A s \in Ids : Sound(sock[s])
    /\ Single(pendingSendUdp) /\ Single(batch)
    /\ Apart

-----------------------------------------------------------------------------
(* The datagrams of one socket.                                            *)

Queued(w, b) == Append(w, [buf |-> b, state |-> "queued"])

LEMMA AppendFate ==
    ASSUME NEW w \in Seq(Datagrams), NEW sent, NEW lost, NEW b \in Bufs,
           Fate(w, sent, lost), b \notin Held(w, sent, lost),
           NEW v, v = Queued(w, b)
    PROVE  /\ v \in Seq(Datagrams)
           /\ Fate(v, sent, lost)
           /\ Held(v, sent, lost) = Held(w, sent, lost) \union {b}
<1>1. [buf |-> b, state |-> "queued"] \in Datagrams
  BY DEF Datagrams
<1>2. /\ v \in Seq(Datagrams) /\ Len(v) = Len(w) + 1
      /\ \A i \in 1 .. Len(w) : v[i] = w[i]
      /\ v[Len(w) + 1].buf = b
  BY <1>1 DEF Queued
<1>3. DOMAIN w = 1 .. Len(w) /\ DOMAIN v = 1 .. (Len(w) + 1) /\ Len(w) \in Nat
  BY <1>2
<1>4. Names(v) = Names(w) \union {b}
  BY <1>2, <1>3 DEF Names
<1>5. b \notin Names(w) /\ b \notin sent /\ b \notin lost
  BY DEF Held
<1>6. \A k \in 1 .. Len(w) : v[k].buf # b
  BY <1>2, <1>3, <1>5 DEF Names
<1>7. ASSUME NEW i \in DOMAIN v, NEW j \in DOMAIN v, v[i].buf = v[j].buf
      PROVE  i = j
  <2>1. CASE i = Len(w) + 1 \/ j = Len(w) + 1
    BY <1>2, <1>3, <1>6, <1>7, <2>1
  <2>2. CASE i # Len(w) + 1 /\ j # Len(w) + 1
    BY <1>2, <1>3, <1>7, <2>2 DEF Fate
  <2> QED
    BY <2>1, <2>2
<1>8. Fate(v, sent, lost)
  BY <1>4, <1>5, <1>7 DEF Fate
<1> QED
  BY <1>2, <1>4, <1>8 DEF Held

Oldest(w) == Head(w).buf
Others(w) == Tail(w)

\* What taking the oldest datagram b out of w, and calling it sent or lost,
\* leaves.
Handled(w, sent, lost) ==
    LET v == Others(w)  b == Oldest(w)
    IN  /\ v \in Seq(Datagrams) /\ b \in Bufs
        /\ Fate(v, sent \union {b}, lost) /\ Fate(v, sent, lost \union {b})
        /\ Held(v, sent \union {b}, lost) = Held(w, sent, lost)
        /\ Held(v, sent, lost \union {b}) = Held(w, sent, lost)

LEMMA TailFate ==
    ASSUME NEW w \in Seq(Datagrams), w # <<>>, NEW sent, NEW lost, Fate(w, sent, lost)
    PROVE  Handled(w, sent, lost)
<1>0. PICK v, b : v = Others(w) /\ b = Oldest(w)
  OBVIOUS
<1>1. /\ Len(w) \in Nat /\ Len(w) > 0 /\ DOMAIN w = 1 .. Len(w)
      /\ \A i \in 1 .. Len(w) : w[i] \in Datagrams
  OBVIOUS
<1>2. /\ v \in Seq(Datagrams) /\ DOMAIN v = 1 .. (Len(w) - 1)
      /\ \A i \in DOMAIN v : v[i] = w[i + 1]
  BY <1>0, <1>1 DEF Others
<1>3. 1 \in DOMAIN w /\ b = w[1].buf /\ b \in Bufs
  BY <1>0, <1>1 DEF Oldest, Datagrams
<1>4. /\ \A i \in DOMAIN v : i + 1 \in DOMAIN w
      /\ \A i \in DOMAIN w : i = 1 \/ (i - 1 \in DOMAIN v /\ v[i - 1] = w[i])
  BY <1>1, <1>2
<1>5. ASSUME NEW i \in DOMAIN v PROVE v[i].buf # b
  <2>1. i + 1 \in DOMAIN w /\ i + 1 # 1 /\ v[i] = w[i + 1]
    BY <1>2, <1>4
  <2> QED
    BY <1>3, <2>1 DEF Fate
<1>6. Names(w) = Names(v) \union {b} /\ b \notin Names(v)
  <2>1. Names(v) \union {b} \subseteq Names(w)
    BY <1>2, <1>3, <1>4 DEF Names
  <2>2. ASSUME NEW i \in DOMAIN w PROVE w[i].buf \in Names(v) \union {b}
    <3>1. CASE i = 1
      BY <1>3, <3>1
    <3>2. CASE i - 1 \in DOMAIN v /\ v[i - 1] = w[i]
      BY <3>2 DEF Names
    <3> QED
      BY <1>4, <3>1, <3>2
  <2>3. Names(w) \subseteq Names(v) \union {b}
    BY <2>2 DEF Names
  <2> QED
    BY <1>5, <2>1, <2>3 DEF Names
<1>7. \A i, j \in DOMAIN v : v[i].buf = v[j].buf => i = j
  BY <1>1, <1>2, <1>4 DEF Fate
<1>8. /\ Fate(v, sent \union {b}, lost) /\ Fate(v, sent, lost \union {b})
      /\ Held(v, sent \union {b}, lost) = Held(w, sent, lost)
      /\ Held(v, sent, lost \union {b}) = Held(w, sent, lost)
  BY <1>6, <1>7 DEF Fate, Held
<1> QED
  BY <1>0, <1>2, <1>3, <1>8 DEF Handled

-----------------------------------------------------------------------------
(* The datagrams in requests.                                              *)

Sends == {r \in Requests : IsSend(r)}
Binds == {r \in Requests : ~IsSend(r)}

LEMMA RequestFields ==
    ASSUME NEW r \in Sends
    PROVE  r.id \in Ids /\ r.buf \in Bufs
  BY RequestsAssumption DEF Sends, IsSend

LEMMA InRequestsOf ==
    ASSUME NEW q, NEW b
    PROVE  b \in InRequests(q) <=> \E i \in DOMAIN q : IsSend(q[i]) /\ q[i].buf = b
  BY DEF InRequests

LEMMA FileDatagram ==
    ASSUME NEW q \in Seq(Sends), Single(q), NEW r \in Sends, r.buf \notin InRequests(q),
           NEW v, v = Append(q, r)
    PROVE  /\ v \in Seq(Sends) /\ Single(v)
           /\ InRequests(v) = InRequests(q) \union {r.buf}
<1>1. /\ v \in Seq(Sends) /\ DOMAIN v = 1 .. (Len(q) + 1) /\ DOMAIN q = 1 .. Len(q)
      /\ Len(q) \in Nat /\ v[Len(q) + 1] = r
      /\ \A i \in DOMAIN q : v[i] = q[i]
  OBVIOUS
<1>2. IsSend(r) /\ \A i \in DOMAIN q : i \in DOMAIN v /\ IsSend(q[i]) /\ q[i].buf # r.buf
  BY <1>1, InRequestsOf DEF Sends
<1>3. InRequests(v) = InRequests(q) \union {r.buf}
  <2>1. ASSUME NEW b \in InRequests(v) PROVE b \in InRequests(q) \union {r.buf}
    <3>1. PICK i \in DOMAIN v : IsSend(v[i]) /\ v[i].buf = b
      BY InRequestsOf
    <3>2. i \in DOMAIN q \/ v[i] = r
      BY <1>1
    <3> QED
      BY <1>1, <3>1, <3>2, InRequestsOf
  <2>2. r.buf \in InRequests(v)
    <3>1. Len(q) + 1 \in DOMAIN v
      BY <1>1
    <3> QED
      BY <1>1, <1>2, <3>1, InRequestsOf
  <2>3. ASSUME NEW b \in InRequests(q) PROVE b \in InRequests(v)
    <3>1. PICK i \in DOMAIN q : IsSend(q[i]) /\ q[i].buf = b
      BY InRequestsOf
    <3> QED
      BY <1>1, <1>2, <3>1, InRequestsOf
  <2> QED
    BY <2>1, <2>2, <2>3
<1>4. ASSUME NEW i \in DOMAIN v, NEW j \in DOMAIN v, IsSend(v[i]), IsSend(v[j]),
             v[i].buf = v[j].buf
      PROVE  i = j
  <2>1. CASE i = Len(q) + 1 \/ j = Len(q) + 1
    BY <1>1, <1>2, <1>4, <2>1
  <2>2. CASE i # Len(q) + 1 /\ j # Len(q) + 1
    BY <1>1, <1>4, <2>2 DEF Single
  <2> QED
    BY <2>1, <2>2
<1> QED
  BY <1>1, <1>3, <1>4 DEF Single

LEMMA TakeAll ==
    ASSUME NEW p \in Seq(Binds), NEW q \in Seq(Sends), Single(q), NEW v, v = p \o q
    PROVE  v \in Seq(Requests) /\ Single(v) /\ InRequests(v) = InRequests(q)
<1>1. p \in Seq(Requests) /\ q \in Seq(Requests)
  BY DEF Binds, Sends
<1>2. /\ v \in Seq(Requests) /\ DOMAIN v = 1 .. (Len(p) + Len(q))
      /\ DOMAIN p = 1 .. Len(p) /\ DOMAIN q = 1 .. Len(q) /\ Len(p) \in Nat /\ Len(q) \in Nat
      /\ \A i \in DOMAIN p : v[i] = p[i]
      /\ \A i \in DOMAIN v : i \in DOMAIN p \/ (i - Len(p) \in DOMAIN q /\ v[i] = q[i - Len(p)])
  BY <1>1
<1>3. \A i \in DOMAIN p : ~IsSend(v[i])
  BY <1>2 DEF Binds
<1>4. \A i \in DOMAIN q : i + Len(p) \in DOMAIN v /\ v[i + Len(p)] = q[i]
  BY <1>1, <1>2
<1>5. InRequests(v) = InRequests(q)
  <2>1. ASSUME NEW b \in InRequests(v) PROVE b \in InRequests(q)
    <3>1. PICK i \in DOMAIN v : IsSend(v[i]) /\ v[i].buf = b
      BY InRequestsOf
    <3>2. i - Len(p) \in DOMAIN q /\ v[i] = q[i - Len(p)]
      BY <1>2, <1>3, <3>1
    <3> QED
      BY <3>1, <3>2, InRequestsOf
  <2>2. ASSUME NEW b \in InRequests(q) PROVE b \in InRequests(v)
    <3>1. PICK i \in DOMAIN q : IsSend(q[i]) /\ q[i].buf = b
      BY InRequestsOf
    <3> QED
      BY <1>4, <3>1, InRequestsOf
  <2> QED
    BY <2>1, <2>2
<1>6. Single(v)
  BY <1>2, <1>3 DEF Single
<1> QED
  BY <1>2, <1>5, <1>6

LEMMA TakeNext ==
    ASSUME NEW w \in Seq(Requests), w # <<>>, Single(w), NEW v, v = Tail(w)
    PROVE  /\ v \in Seq(Requests) /\ Single(v)
           /\ InRequests(v) \subseteq InRequests(w)
           /\ IsSend(Head(w)) => Head(w).buf \in InRequests(w) \ InRequests(v)
           /\ Head(w) \in Requests
<1>1. /\ Len(w) \in Nat /\ Len(w) > 0 /\ DOMAIN w = 1 .. Len(w) /\ Head(w) = w[1]
      /\ v \in Seq(Requests) /\ DOMAIN v = 1 .. (Len(w) - 1)
      /\ \A i \in DOMAIN v : v[i] = w[i + 1]
      /\ Head(w) \in Requests
  OBVIOUS
<1>2. 1 \in DOMAIN w /\ \A i \in DOMAIN v : i + 1 \in DOMAIN w /\ i + 1 # 1
  BY <1>1
<1>3. Single(v)
  BY <1>1, <1>2 DEF Single
<1>4. ASSUME NEW b \in InRequests(v) PROVE b \in InRequests(w)
  <2>1. PICK i \in DOMAIN v : IsSend(v[i]) /\ v[i].buf = b
    BY <1>4, InRequestsOf
  <2>2. i + 1 \in DOMAIN w /\ w[i + 1] = v[i]
    BY <1>1, <1>2
  <2> QED
    BY <2>1, <2>2, InRequestsOf
<1>5. ASSUME IsSend(Head(w)) PROVE Head(w).buf \in InRequests(w) \ InRequests(v)
  <2>1. Head(w).buf \in InRequests(w)
    BY <1>1, <1>2, <1>5, InRequestsOf
  <2>2. Head(w).buf \notin InRequests(v)
    <3> SUFFICES ASSUME NEW i \in DOMAIN v, IsSend(v[i]), v[i].buf = Head(w).buf PROVE FALSE
      BY InRequestsOf
    <3>1. i + 1 \in DOMAIN w /\ i + 1 # 1 /\ w[i + 1] = v[i]
      BY <1>1, <1>2
    <3> QED
      BY <1>1, <1>2, <1>5, <3>1 DEF Single
  <2> QED
    BY <2>1, <2>2
<1> QED
  BY <1>1, <1>3, <1>4, <1>5

-----------------------------------------------------------------------------
(* What a step makes of a socket.                                          *)

\* What CallbackProtocol says of a step, apart from what Heard says.
Hears(c, d) ==
    /\ c.last = "none" => d.last \in {"none", "startup"}
    /\ d.last = "startup" => c.last \in {"none", "startup"}
    /\ c.stopped => d.stopped /\ d.last \in {c.last, "sendError"}

\* The socket c becomes d, which has been handed the datagrams X.
Outcome(c, d, X) == Sound(d) /\ Hears(c, d) /\ HeldBy(d) = HeldBy(c) \union X

LEMMA SameOutcome ==
    ASSUME NEW c, Sound(c)
    PROVE  Outcome(c, c, {})
  BY DEF Outcome, Hears

LEMMA CloseSockFields ==
    ASSUME NEW c \in Sock, NEW d, d = CloseSock(c)
    PROVE  /\ d \in Sock /\ d.closing /\ d.kind = c.kind /\ d.obj = c.obj /\ d.owned = c.owned
           /\ d.sends = c.sends /\ d.sent = c.sent /\ d.lost = c.lost
           /\ d.last = c.last /\ d.stopped = c.stopped
           /\ d.active => c.active /\ c.closing
  BY DEF CloseSock, Sock

LEMMA RetireOutcome ==
    ASSUME NEW c, Sound(c), c.owned, NEW d, d = Retire(c)
    PROVE  Outcome(c, d, {}) /\ ~d.owned
<1>1. PICK e : e = [c EXCEPT !.owned = FALSE, !.last = "shutdown", !.stopped = TRUE]
  OBVIOUS
<1>2. /\ e \in Sock /\ ~e.owned /\ e.last = "shutdown" /\ e.stopped /\ e.obj = c.obj
      /\ e.closing = c.closing /\ e.sends = c.sends /\ e.sent = c.sent /\ e.lost = c.lost
  BY <1>1 DEF Sound, Sock
<1>3. d = CloseSock(e)
  BY <1>1 DEF Retire
<1>4. /\ d \in Sock /\ ~d.owned /\ d.last = "shutdown" /\ d.stopped /\ d.obj = c.obj
      /\ d.sends = c.sends /\ d.sent = c.sent /\ d.lost = c.lost
      /\ d.active => c.closing
  BY <1>2, <1>3, CloseSockFields
<1>5. c.obj = "live" /\ ~c.closing /\ c.last # "none" /\ ~c.stopped
  BY DEF Sound, Heard
<1>6. Sound(d)
  BY <1>4, <1>5 DEF Sound, Heard
<1>7. HeldBy(d) = HeldBy(c) \union {}
  BY <1>4 DEF HeldBy
<1> QED
  BY <1>4, <1>5, <1>6, <1>7 DEF Outcome, Hears

\* sendUdp for a socket in its map: the callback object may hear sendError().
Acted(c, d, X) ==
    /\ Sound(d) /\ HeldBy(d) = HeldBy(c) \union X
    /\ d.owned = c.owned /\ d.stopped = c.stopped
    /\ d.last \in {c.last, "sendError"} /\ (c.last = "none" => d.last = "none")

LEMMA SendActs ==
    ASSUME NEW c, Sound(c), c.owned, NEW b \in Bufs, b \notin HeldBy(c),
           NEW d \in SendOutcomes(c, b)
    PROVE  Acted(c, d, {b})
<1>1. c \in Sock /\ Heard(c) /\ c.last # "none" /\ c.obj = "live" /\ c.sends \in Seq(Datagrams)
      /\ Fate(c.sends, c.sent, c.lost) /\ b \notin Held(c.sends, c.sent, c.lost)
  BY DEF Sound, Heard, Sock, Datagrams, HeldBy
<1>2. CASE d = [c EXCEPT !.lost = @ \union {b}, !.last = "sendError"]
  <2>1. /\ d \in Sock /\ d.obj = c.obj /\ d.owned = c.owned /\ d.closing = c.closing
        /\ d.active = c.active /\ d.stopped = c.stopped /\ d.last = "sendError"
        /\ d.sends = c.sends /\ d.sent = c.sent /\ d.lost = c.lost \union {b}
    BY <1>1, <1>2 DEF Sock
  <2>2. Fate(d.sends, d.sent, d.lost) /\ HeldBy(d) = HeldBy(c) \union {b}
    BY <1>1, <2>1 DEF Fate, Held, HeldBy
  <2>3. Heard(d)
    BY <1>1, <2>1 DEF Heard
  <2> QED
    BY <1>1, <2>1, <2>2, <2>3 DEF Acted, Sound
<1>3. CASE d = [c EXCEPT !.sends = Append(@, [buf |-> b, state |-> "queued"])]
  <2>1. PICK v : v = Queued(c.sends, b)
    OBVIOUS
  <2>2. /\ v \in Seq(Datagrams) /\ Fate(v, c.sent, c.lost)
        /\ Held(v, c.sent, c.lost) = Held(c.sends, c.sent, c.lost) \union {b}
    BY <1>1, <2>1, AppendFate
  <2>3. d = [c EXCEPT !.sends = v]
    BY <1>1, <1>3, <2>1 DEF Queued, Sock
  <2>4. /\ d \in Sock /\ d.obj = c.obj /\ d.owned = c.owned /\ d.closing = c.closing
        /\ d.active = c.active /\ d.stopped = c.stopped /\ d.last = c.last
        /\ d.sends = v /\ d.sent = c.sent /\ d.lost = c.lost
    BY <1>1, <2>2, <2>3 DEF Sock, Datagrams
  <2>5. Fate(d.sends, d.sent, d.lost) /\ HeldBy(d) = HeldBy(c) \union {b}
    BY <2>2, <2>4 DEF HeldBy
  <2>6. Heard(d)
    BY <1>1, <2>4 DEF Heard
  <2> QED
    BY <1>1, <2>4, <2>5, <2>6 DEF Acted, Sound
<1> QED
  BY <1>2, <1>3 DEF SendOutcomes

\* A callback of c makes d of it, which has been handed X, and sees Y freed.
UserMade(c, d, X, Y) == /\ X \subseteq Unused /\ Y \subseteq Unused /\ X \intersect Y = {}
                        /\ Acted(c, d, X)

LEMMA UserActsOutcomes ==
    ASSUME NEW c, Sound(c), HeldBy(c) \intersect Unused = {}, NEW o \in UserActs(c)
    PROVE  \E X : UserMade(c, o[1], X, o[2])
<1>1. Acted(c, c, {})
  BY DEF Acted
<1>2. CASE o = <<c, {}>>
  <2>1. o[1] = c /\ o[2] = {}
    BY <1>2
  <2> QED
    BY <1>1, <2>1 DEF UserMade
<1>3. CASE c.owned /\ \E b \in Unused : \E d \in SendOutcomes(c, b) : o = <<d, {}>>
  <2>1. PICK b \in Unused : \E d \in SendOutcomes(c, b) : o = <<d, {}>>
    BY <1>3
  <2>2. PICK d \in SendOutcomes(c, b) : o = <<d, {}>>
    BY <2>1
  <2>3. b \in Bufs /\ b \notin HeldBy(c)
    BY DEF Unused
  <2>4. Acted(c, d, {b})
    BY <1>3, <2>2, <2>3, SendActs
  <2>5. o[1] = d /\ o[2] = {}
    BY <2>2
  <2>6. UserMade(c, o[1], {b}, o[2])
    BY <2>4, <2>5 DEF UserMade
  <2> QED
    BY <2>6
<1>4. CASE ~c.owned /\ \E b \in Unused : o = <<c, {b}>>
  <2>1. o[1] = c /\ o[2] \subseteq Unused
    BY <1>4
  <2>2. UserMade(c, o[1], {}, o[2])
    BY <1>1, <2>1 DEF UserMade
  <2> QED
    BY <2>2
<1> QED
  BY <1>2, <1>3, <1>4 DEF UserActs

LEMMA ActedOutcome ==
    ASSUME NEW c, NEW e, NEW d, NEW X, c.last # "none", Acted(e, d, X), Outcome(c, e, {})
    PROVE  Outcome(c, d, X)
<1>1. HeldBy(d) = HeldBy(c) \union X
  BY DEF Acted, Outcome
<1> QED
  BY <1>1 DEF Acted, Outcome, Hears

LEMMA SentOutcome ==
    ASSUME NEW c, Sound(c), ~c.closing, c.sends # <<>>, NEW b, b = Head(c.sends).buf,
           NEW d,
           \/ d = [c EXCEPT !.sends = Tail(@), !.sent = @ \union {b}]
           \/ d = [[c EXCEPT !.sends = Tail(@)]
                     EXCEPT !.lost = @ \union {b}, !.last = "sendError"]
    PROVE  Outcome(c, d, {})
<1>1. PICK w, v, x, y : w = c.sends /\ v = Tail(c.sends) /\ x = c.sent /\ y = c.lost
  OBVIOUS
<1>2. /\ c \in Sock /\ Heard(c) /\ w \in Seq(Datagrams) /\ w # <<>> /\ Fate(w, x, y)
      /\ x \in SUBSET Bufs /\ y \in SUBSET Bufs /\ v = Others(w) /\ b = Oldest(w)
  BY <1>1 DEF Sound, Sock, Datagrams, Others, Oldest
<1>3. /\ v \in Seq(Datagrams) /\ b \in Bufs
      /\ Fate(v, x \union {b}, y) /\ Fate(v, x, y \union {b})
      /\ Held(v, x \union {b}, y) = Held(w, x, y)
      /\ Held(v, x, y \union {b}) = Held(w, x, y)
  <2>1. Handled(w, x, y)
    BY <1>2, TailFate
  <2> QED
    BY <1>2, <2>1 DEF Handled
<1>4. /\ d \in Sock /\ d.obj = c.obj /\ d.owned = c.owned /\ d.closing = c.closing
      /\ d.active = c.active /\ d.stopped = c.stopped /\ d.sends = v
      /\ \/ d.sent = x \union {b} /\ d.lost = y /\ d.last = c.last
         \/ d.sent = x /\ d.lost = y \union {b} /\ d.last = "sendError"
  <2>1. CASE d = [c EXCEPT !.sends = Tail(@), !.sent = @ \union {b}]
    BY <1>1, <1>2, <1>3, <2>1 DEF Sock, Datagrams
  <2>2. CASE d = [[c EXCEPT !.sends = Tail(@)]
                    EXCEPT !.lost = @ \union {b}, !.last = "sendError"]
    BY <1>1, <1>2, <1>3, <2>2 DEF Sock, Datagrams
  <2> QED
    BY <2>1, <2>2
<1>5. Fate(d.sends, d.sent, d.lost) /\ HeldBy(d) = HeldBy(c) \union {}
  BY <1>1, <1>3, <1>4 DEF HeldBy
<1>6. c.obj = "live" /\ c.last # "none"
  BY <1>2 DEF Heard
<1>7. Heard(d)
  BY <1>2, <1>4, <1>6 DEF Heard
<1> QED
  BY <1>4, <1>5, <1>6, <1>7 DEF Outcome, Hears, Sound

LEMMA KernelSendsOutcome ==
    ASSUME NEW c, Sound(c), NEW i \in DOMAIN c.sends, NEW result \in {"sent", "failed"},
           NEW d, d = [c EXCEPT !.sends[i].state = result]
    PROVE  Outcome(c, d, {})
<1>1. PICK w, v : /\ w = c.sends
                  /\ v = [w EXCEPT ![i] = [w[i] EXCEPT !.state = result]]
  OBVIOUS
<1>2. c \in Sock /\ Heard(c) /\ w \in Seq(Datagrams) /\ i \in DOMAIN w
  BY <1>1 DEF Sound, Sock, Datagrams
<1>3. PICK r : r = [w[i] EXCEPT !.state = result]
  OBVIOUS
<1>4. w[i] \in Datagrams
  BY <1>2
<1>5. r \in Datagrams /\ r.buf = w[i].buf
  BY <1>3, <1>4 DEF Datagrams
<1>6. v \in Seq(Datagrams) /\ DOMAIN v = DOMAIN w /\ \A j \in DOMAIN w : v[j].buf = w[j].buf
  BY <1>1, <1>2, <1>3, <1>5
<1>7. Names(v) = Names(w)
  BY <1>6 DEF Names
<1>8. d = [c EXCEPT !.sends = v]
  BY <1>1, <1>2 DEF Sock
<1>9. /\ d \in Sock /\ d.obj = c.obj /\ d.owned = c.owned /\ d.closing = c.closing
      /\ d.active = c.active /\ d.stopped = c.stopped /\ d.last = c.last
      /\ d.sends = v /\ d.sent = c.sent /\ d.lost = c.lost
  BY <1>2, <1>6, <1>8 DEF Sock, Datagrams
<1>10. Fate(v, c.sent, c.lost) /\ Held(v, c.sent, c.lost) = Held(w, c.sent, c.lost)
  <2>1. Fate(w, c.sent, c.lost)
    BY <1>1 DEF Sound
  <2> QED
    BY <1>6, <1>7, <2>1 DEF Fate, Held
<1>11. Fate(d.sends, d.sent, d.lost) /\ HeldBy(d) = HeldBy(c) \union {}
  BY <1>1, <1>9, <1>10 DEF HeldBy
<1>12. c.sends # <<>>
  BY <1>1, <1>2
<1>13. Heard(d)
  BY <1>2, <1>9, <1>12 DEF Heard
<1> QED
  BY <1>9, <1>11, <1>13 DEF Outcome, Hears, Sound

LEMMA ClosedOutcome ==
    ASSUME NEW c, Sound(c), c.closing, NEW d, d = Closed(c)
    PROVE  Outcome(c, d, {})
<1>1. PICK all, gone : all = Sending(c) /\ gone = SentBy(c)
  OBVIOUS
<1>2. c \in Sock /\ Heard(c) /\ Fate(c.sends, c.sent, c.lost) /\ ~c.owned /\ ~c.active
  BY DEF Sound, Heard
<1>3. all = Names(c.sends) /\ gone \subseteq all /\ all \subseteq Bufs
  <2>1. all = Names(c.sends) /\ gone \subseteq all
    BY <1>1 DEF Sending, SentBy, Names
  <2>2. \A i \in DOMAIN c.sends : c.sends[i].buf \in Bufs
    <3>1. c.sends \in Seq(Datagrams)
      BY <1>2 DEF Sock, Datagrams
    <3>2. \A i \in DOMAIN c.sends : c.sends[i] \in Datagrams
      BY <3>1
    <3> QED
      BY <3>2 DEF Datagrams
  <2> QED
    BY <2>1, <2>2 DEF Names
<1>4. c.sends = <<>> => all = gone
  BY <1>1 DEF Sending, SentBy
<1>5. /\ d \in Sock /\ d.obj = "freed" /\ d.owned = c.owned /\ d.closing = c.closing
      /\ d.active = c.active /\ d.stopped = c.stopped
      /\ d.sends = <<>> /\ d.sent = c.sent \union gone /\ d.lost = c.lost \union (all \ gone)
      /\ d.last = IF all = gone THEN c.last ELSE "sendError"
  <2>1. PICK x, y, e, l : /\ x = c.sent \union gone /\ y = c.lost \union (all \ gone)
                          /\ e = <<>>
                          /\ l = IF all = gone THEN c.last ELSE "sendError"
    OBVIOUS
  <2>2. /\ x \in SUBSET Bufs /\ y \in SUBSET Bufs /\ e \in Seq(Datagrams)
        /\ l \in {"none", "startup", "event", "sendError", "shutdown"}
    BY <1>2, <1>3, <2>1 DEF Sock
  <2>3. d = [c EXCEPT !.obj = "freed", !.sends = e, !.sent = x, !.lost = y, !.last = l]
    BY <1>1, <1>2, <2>1 DEF Closed, Sock
  <2>4. /\ d \in Sock /\ d.obj = "freed" /\ d.owned = c.owned /\ d.closing = c.closing
        /\ d.active = c.active /\ d.stopped = c.stopped
        /\ d.sends = e /\ d.sent = x /\ d.lost = y /\ d.last = l
    BY <1>2, <2>2, <2>3, ZenonT(60) DEF Sock, Datagrams
  <2> QED
    BY <2>1, <2>4
<1>6. Names(d.sends) = {}
  BY <1>5 DEF Names
<1>7. Fate(d.sends, d.sent, d.lost)
  BY <1>2, <1>3, <1>5, <1>6 DEF Fate
<1>8. HeldBy(d) = HeldBy(c) \union {}
  BY <1>3, <1>5, <1>6 DEF HeldBy, Held
<1>9. Heard(d)
  BY <1>2, <1>4, <1>5 DEF Heard
<1> QED
  BY <1>2, <1>4, <1>5, <1>7, <1>8, <1>9 DEF Outcome, Hears, Sound, Heard

-----------------------------------------------------------------------------
(* What a step makes of the places.                                        *)

Filed == InRequests(pendingSendUdp)
InBatch == InRequests(batch)

LEMMA UnusedIsNowhere ==
    /\ Unused \subseteq Bufs
    /\ Unused \intersect (Filed \union InBatch \union discarded) = {}
    /\ \A s \in Ids : HeldBy(sock[s]) \intersect Unused = {}
<1>1. \A s \in Ids : HeldBy(sock[s]) = Sending(sock[s]) \union sock[s].sent \union sock[s].lost
  BY DEF HeldBy, Held, Names, Sending
<1> QED
  BY <1>1 DEF Unused, Filed, InBatch

\* Every socket that a step leaves is sound, and has heard what it should.
Heed == \A s \in Ids : Sound(sock'[s]) /\ Hears(sock[s], sock'[s])

\* A step in which the sockets keep their datagrams.
LEMMA QuietKeeps ==
    ASSUME Apart, \A s \in Ids : HeldBy(sock'[s]) = HeldBy(sock[s]),
           Filed' \intersect InBatch' = {},
           (Filed' \union InBatch') \intersect discarded' = {},
           Filed' \union InBatch' \union discarded'
             \subseteq Filed \union InBatch \union discarded \union Unused
    PROVE  Apart'
<1>1. ASSUME NEW s \in Ids
      PROVE  HeldBy(sock'[s]) \intersect (Filed' \union InBatch' \union discarded') = {}
  <2>1. HeldBy(sock[s]) \intersect (Filed \union InBatch \union discarded) = {}
    BY DEF Apart, Filed, InBatch
  <2>2. HeldBy(sock[s]) \intersect Unused = {}
    BY UnusedIsNowhere
  <2>3. HeldBy(sock'[s]) = HeldBy(sock[s])
    OBVIOUS
  <2> QED
    BY <2>1, <2>2, <2>3
<1>2. \A s, t \in Ids : s # t => HeldBy(sock'[s]) \intersect HeldBy(sock'[t]) = {}
  BY DEF Apart
<1> QED
  BY <1>1, <1>2 DEF Apart, Filed, InBatch

\* One socket moves, and of the datagrams F, which no other place has any
\* more, takes some; some are freed.
Moves(s, F) == \E d, X, Y :
    /\ Outcome(sock[s], d, X)
    /\ X \subseteq F /\ Y \subseteq F /\ X \intersect Y = {}
    /\ sock' = [sock EXCEPT ![s] = d]
    /\ discarded' = discarded \union Y

LEMMA MovesKeep ==
    ASSUME IInv, NEW s \in Ids, NEW F, F \subseteq Bufs, Moves(s, F),
           Filed' \subseteq Filed, InBatch' \subseteq InBatch,
           F \intersect (Filed' \union InBatch' \union discarded) = {},
           \A t \in Ids : HeldBy(sock[t]) \intersect F = {}
    PROVE  /\ Apart' /\ Heed
           /\ sock' \in [Ids -> Sock] /\ discarded' \in SUBSET Bufs
           /\ \A t \in Ids : t # s => sock'[t] = sock[t]
<1>1. PICK d, X, Y : /\ Outcome(sock[s], d, X)
                     /\ X \subseteq F /\ Y \subseteq F /\ X \intersect Y = {}
                     /\ sock' = [sock EXCEPT ![s] = d]
                     /\ discarded' = discarded \union Y
  BY DEF Moves
<1>2. /\ sock \in [Ids -> Sock] /\ Sound(d) /\ Hears(sock[s], d) /\ d \in Sock
      /\ HeldBy(d) = HeldBy(sock[s]) \union X /\ discarded \in SUBSET Bufs
  BY <1>1 DEF IInv, TypeOK, Outcome, Sound
<1>3. sock'[s] = d /\ \A t \in Ids : t # s => sock'[t] = sock[t]
  BY <1>1, <1>2
<1>4. sock' \in [Ids -> Sock] /\ discarded' \in SUBSET Bufs
  BY <1>1, <1>2
<1>5. Heed
  <2>1. \A t \in Ids : Sound(sock[t]) /\ Hears(sock[t], sock[t])
    BY DEF IInv, Hears
  <2> QED
    BY <1>2, <1>3, <2>1 DEF Heed
<1>6. ASSUME NEW t \in Ids PROVE HeldBy(sock'[t]) \subseteq HeldBy(sock[t]) \union X
  BY <1>2, <1>3
<1>7. /\ Filed' \intersect InBatch' = {}
      /\ (Filed' \union InBatch') \intersect discarded' = {}
  BY <1>1 DEF IInv, Apart, Filed, InBatch
<1>8. ASSUME NEW t \in Ids
      PROVE  HeldBy(sock'[t]) \intersect (Filed' \union InBatch' \union discarded') = {}
  <2>1. HeldBy(sock[t]) \intersect (Filed \union InBatch \union discarded) = {}
    BY DEF IInv, Apart, Filed, InBatch
  <2>2. HeldBy(sock[t]) \intersect F = {}
    OBVIOUS
  <2> QED
    BY <1>1, <1>6, <2>1, <2>2
<1>9. ASSUME NEW t \in Ids, NEW u \in Ids, t # u
      PROVE  HeldBy(sock'[t]) \intersect HeldBy(sock'[u]) = {}
  <2>1. HeldBy(sock[t]) \intersect HeldBy(sock[u]) = {}
    BY <1>9 DEF IInv, Apart
  <2>2. HeldBy(sock[t]) \intersect F = {} /\ HeldBy(sock[u]) \intersect F = {}
    OBVIOUS
  <2>3. sock'[t] = sock[t] \/ sock'[u] = sock[u]
    BY <1>3, <1>9
  <2> QED
    BY <1>1, <1>6, <2>1, <2>2, <2>3
<1>10. Apart'
  BY <1>7, <1>8, <1>9 DEF Apart, Filed, InBatch
<1> QED
  BY <1>3, <1>4, <1>5, <1>10

-----------------------------------------------------------------------------
(* Requests.                                                               *)

\* The part of the invariant that is about the requests alone.
QueueInv ==
    /\ submitted \subseteq Requests
    /\ pendingBind \in Seq(Binds) /\ pendingSendUdp \in Seq(Sends) /\ batch \in Seq(Requests)
    /\ Single(pendingSendUdp) /\ Single(batch)

LEMMA InvHasQueue == IInv => QueueInv
  BY DEF IInv, TypeOK, QueueInv, Binds, Sends

\* A step that leaves all of this puts the invariant together again.
LEMMA Assembled ==
    ASSUME QueueInv', Apart', Heed, sock' \in [Ids -> Sock], discarded' \in SUBSET Bufs,
           exited' \in BOOLEAN, socketIdCounter' \in 0 .. MaxId,
           \A s \in Ids : s > socketIdCounter' => sock'[s] = NoSock
    PROVE  IInv'
<1>1. TypeOK'
  BY DEF QueueInv, TypeOK, Binds, Sends
<1> QED
  BY <1>1 DEF IInv, Heed, QueueInv

LEMMA EmptyRequests == Single(<<>>) /\ InRequests(<<>>) = {}
  BY DEF Single, InRequests

LEMMA SubmitKeeps ==
    ASSUME IInv, NEW r \in Requests, Submit(r)
    PROVE  IInv' /\ Heed
<1>1. QueueInv
  BY InvHasQueue
<1>2. /\ submitted' = submitted \union {r} /\ batch' = batch /\ discarded' = discarded
      /\ sock' = sock /\ exited' = exited /\ socketIdCounter' = socketIdCounter
  BY DEF Submit
<1>3. Heed
  BY <1>2 DEF Heed, IInv, Hears
<1>4. CASE IsSend(r)
  <2>1. /\ pendingSendUdp' = Append(pendingSendUdp, r) /\ pendingBind' = pendingBind
        /\ r.buf \in Unused /\ r \in Sends
    BY <1>4 DEF Submit, Sends
  <2>2. r.buf \notin Filed \union InBatch \union discarded
    BY <2>1, UnusedIsNowhere
  <2>3. /\ pendingSendUdp' \in Seq(Sends) /\ Single(pendingSendUdp')
        /\ InRequests(pendingSendUdp') = Filed \union {r.buf}
    <3>1. pendingSendUdp \in Seq(Sends) /\ Single(pendingSendUdp)
          /\ r.buf \notin InRequests(pendingSendUdp)
      BY <1>1, <2>2 DEF QueueInv, Filed
    <3> QED
      BY <2>1, <3>1, FileDatagram DEF Filed
  <2>4. QueueInv'
    BY <1>1, <1>2, <2>1, <2>3 DEF QueueInv
  <2>5. Filed' = Filed \union {r.buf} /\ InBatch' = InBatch
    BY <1>2, <2>3 DEF Filed, InBatch
  <2>6. /\ Filed \intersect InBatch = {} /\ (Filed \union InBatch) \intersect discarded = {}
    BY DEF IInv, Apart, Filed, InBatch
  <2>7. Apart'
    <3>1. \A s \in Ids : HeldBy(sock'[s]) = HeldBy(sock[s])
      BY <1>2
    <3> QED
      BY <1>2, <2>1, <2>2, <2>5, <2>6, <3>1, QuietKeeps DEF IInv
  <2> QED
    BY <1>2, <1>3, <2>4, <2>7, Assembled DEF IInv, TypeOK
<1>5. CASE ~IsSend(r)
  <2>1. pendingBind' = Append(pendingBind, r) /\ pendingSendUdp' = pendingSendUdp /\ r \in Binds
    BY <1>5 DEF Submit, Binds
  <2>2. QueueInv'
    BY <1>1, <1>2, <2>1 DEF QueueInv
  <2>3. Apart'
    BY <1>2, <2>1 DEF IInv, Apart
  <2> QED
    BY <1>2, <1>3, <2>2, <2>3, Assembled DEF IInv, TypeOK
<1> QED
  BY <1>4, <1>5

LEMMA TakeBatchKeeps ==
    ASSUME IInv, TakeBatch
    PROVE  IInv' /\ Heed
<1>1. QueueInv
  BY InvHasQueue
<1>2. /\ batch = <<>> /\ batch' = pendingBind \o pendingSendUdp /\ pendingBind' = <<>>
      /\ pendingSendUdp' = <<>> /\ submitted' = submitted /\ discarded' = discarded
      /\ sock' = sock /\ exited' = exited /\ socketIdCounter' = socketIdCounter
  BY DEF TakeBatch, Idle
<1>3. Heed
  BY <1>2 DEF Heed, IInv, Hears
<1>4. batch' \in Seq(Requests) /\ Single(batch') /\ InRequests(batch') = Filed
  BY <1>1, <1>2, TakeAll DEF QueueInv, Filed
<1>5. QueueInv'
  BY <1>1, <1>2, <1>4, EmptyRequests DEF QueueInv
<1>6. Filed' = {} /\ InBatch' = Filed
  BY <1>2, <1>4, EmptyRequests DEF Filed, InBatch
<1>7. Filed \intersect discarded = {}
  BY DEF IInv, Apart, Filed
<1>8. Apart'
  <2>1. \A s \in Ids : HeldBy(sock'[s]) = HeldBy(sock[s])
    BY <1>2
  <2> QED
    BY <1>2, <1>6, <1>7, <2>1, QuietKeeps DEF IInv
<1> QED
  BY <1>2, <1>3, <1>5, <1>8, Assembled DEF IInv, TypeOK

LEMMA ExitKeeps ==
    ASSUME IInv, Exit
    PROVE  IInv' /\ Heed
<1>1. QueueInv
  BY InvHasQueue
<1>2. /\ batch = <<>> /\ batch' = <<>> /\ pendingBind' = <<>> /\ pendingSendUdp' = <<>>
      /\ submitted' = submitted /\ exited' = TRUE /\ socketIdCounter' = socketIdCounter
      /\ discarded' = discarded \union Filed
      /\ sock' = [s \in Ids |-> IF sock[s].owned THEN Retire(sock[s]) ELSE sock[s]]
  BY DEF Exit, Idle, Filed
<1>3. QueueInv'
  BY <1>1, <1>2, EmptyRequests DEF QueueInv
<1>4. Filed' = {} /\ InBatch' = {}
  BY <1>2, EmptyRequests DEF Filed, InBatch
<1>5. ASSUME NEW s \in Ids PROVE Outcome(sock[s], sock'[s], {})
  <2>1. Sound(sock[s])
    BY DEF IInv
  <2>2. CASE sock[s].owned
    <3>1. sock'[s] = Retire(sock[s])
      BY <1>2, <2>2
    <3> QED
      BY <2>1, <2>2, <3>1, RetireOutcome
  <2>3. CASE ~sock[s].owned
    <3>1. sock'[s] = sock[s]
      BY <1>2, <2>3
    <3> QED
      BY <2>1, <3>1, SameOutcome
  <2> QED
    BY <2>2, <2>3
<1>6. Heed /\ \A s \in Ids : HeldBy(sock'[s]) = HeldBy(sock[s]) /\ sock'[s] \in Sock
  BY <1>5 DEF Outcome, Heed, Sound
<1>7. sock' \in [Ids -> Sock]
  BY <1>2, <1>6
<1>8. Filed \subseteq Bufs
  <2>1. \A i \in DOMAIN pendingSendUdp : pendingSendUdp[i] \in Sends
    BY <1>1 DEF QueueInv
  <2> QED
    BY <2>1, RequestFields DEF Filed, InRequests
<1>9. Apart'
  BY <1>2, <1>4, <1>6, QuietKeeps DEF IInv
<1>10. \A s \in Ids : s > socketIdCounter' => sock'[s] = NoSock
  <2> SUFFICES ASSUME NEW s \in Ids, s > socketIdCounter' PROVE sock'[s] = NoSock
    OBVIOUS
  <2>1. sock[s] = NoSock /\ ~NoSock.owned
    BY <1>2 DEF IInv, TypeOK, NoSock
  <2> QED
    BY <1>2, <2>1
<1> QED
  BY <1>2, <1>3, <1>6, <1>7, <1>8, <1>9, <1>10, Assembled DEF IInv, TypeOK

-----------------------------------------------------------------------------
(* Requests that the loop handles.                                         *)

LEMMA StepKeeps ==
    ASSUME IInv, QueueInv', NEW s \in Ids, NEW F, F \subseteq Bufs, Moves(s, F),
           Filed' \subseteq Filed, InBatch' \subseteq InBatch,
           F \intersect (Filed' \union InBatch' \union discarded) = {},
           \A t \in Ids : HeldBy(sock[t]) \intersect F = {},
           exited' = exited, socketIdCounter' \in 0 .. MaxId,
           socketIdCounter <= socketIdCounter', s <= socketIdCounter'
    PROVE  IInv' /\ Heed
<1>1. /\ Apart' /\ Heed
      /\ sock' \in [Ids -> Sock] /\ discarded' \in SUBSET Bufs
      /\ \A t \in Ids : t # s => sock'[t] = sock[t]
  BY MovesKeep
<1>2. ASSUME NEW t \in Ids, t > socketIdCounter' PROVE sock'[t] = NoSock
  <2>1. t # s /\ t > socketIdCounter
    BY <1>2, MaxIdAssumption DEF IInv, TypeOK, Ids
  <2> QED
    BY <1>1, <2>1 DEF IInv, TypeOK
<1>3. exited' \in BOOLEAN
  BY DEF IInv, TypeOK
<1> QED
  BY <1>1, <1>2, <1>3, Assembled

\* The usual case: the datagrams handed over or freed are new ones.
LEMMA CallbackKeeps ==
    ASSUME IInv, QueueInv', NEW s \in Ids, Moves(s, Unused),
           Filed' \subseteq Filed, InBatch' \subseteq InBatch,
           exited' = exited, socketIdCounter' \in 0 .. MaxId,
           socketIdCounter <= socketIdCounter', s <= socketIdCounter'
    PROVE  IInv' /\ Heed
<1>1. /\ Unused \subseteq Bufs
      /\ Unused \intersect (Filed' \union InBatch' \union discarded) = {}
      /\ \A t \in Ids : HeldBy(sock[t]) \intersect Unused = {}
  BY UnusedIsNowhere
<1> QED
  BY <1>1, StepKeeps

LEMMA HandlingTakes ==
    ASSUME IInv, NEW op, Handling(op)
    PROVE  /\ QueueInv' /\ Filed' = Filed /\ InBatch' \subseteq InBatch
           /\ Head(batch) \in Requests /\ Head(batch).op = op
           /\ IsSend(Head(batch)) => Head(batch).buf \in InBatch \ InBatch'
           /\ exited' = exited
<1>1. /\ batch # <<>> /\ Head(batch).op = op /\ batch' = Tail(batch)
      /\ submitted' = submitted /\ pendingBind' = pendingBind
      /\ pendingSendUdp' = pendingSendUdp /\ exited' = exited
  BY DEF Handling
<1>2. QueueInv
  BY InvHasQueue
<1>3. /\ batch' \in Seq(Requests) /\ Single(batch')
      /\ InRequests(batch') \subseteq InRequests(batch)
      /\ IsSend(Head(batch)) => Head(batch).buf \in InRequests(batch) \ InRequests(batch')
      /\ Head(batch) \in Requests
  BY <1>1, <1>2, TakeNext DEF QueueInv
<1> QED
  BY <1>1, <1>2, <1>3 DEF QueueInv, Filed, InBatch

\* The id that is given out next belongs to no socket yet.
LEMMA NewId ==
    ASSUME IInv, NextId \in Ids
    PROVE  /\ NextId \in 0 .. MaxId /\ socketIdCounter <= NextId
           /\ sock[NextId] = NoSock
  BY MaxIdAssumption DEF IInv, TypeOK, NextId, Ids

LEMMA KnownId ==
    ASSUME IInv, NEW s \in Ids, sock[s] # NoSock
    PROVE  s <= socketIdCounter
  BY MaxIdAssumption DEF IInv, TypeOK, Ids

LEMMA NoSockSound == Sound(NoSock) /\ HeldBy(NoSock) = {}
<1>1. NoSock \in Sock
  BY DEF NoSock, Sock
<1>2. NoSock.sends = <<>> /\ NoSock.sent = {} /\ NoSock.lost = {}
  BY DEF NoSock
<1>3. Names(NoSock.sends) = {}
  BY <1>2 DEF Names
<1>4. Fate(NoSock.sends, NoSock.sent, NoSock.lost)
  BY <1>2, <1>3 DEF Fate
<1>5. Heard(NoSock)
  BY DEF Heard, NoSock
<1> QED
  BY <1>1, <1>2, <1>3, <1>4, <1>5 DEF Sound, HeldBy, Held

\* The socket c, which has its id from now on, has nothing under way yet.
Empty(c) == /\ c \in Sock /\ c.obj = "live" /\ ~c.closing /\ ~c.owned /\ ~c.stopped
            /\ c.sends = NoSock.sends /\ c.sent = NoSock.sent /\ c.lost = NoSock.lost

LEMMA NoSockOutcome ==
    ASSUME NEW d \in Sock, Heard(d), d.last \in {"none", "startup"},
           d.sends = NoSock.sends, d.sent = NoSock.sent, d.lost = NoSock.lost
    PROVE  Outcome(NoSock, d, {})
<1>1. Fate(d.sends, d.sent, d.lost)
  BY NoSockSound DEF Sound
<1>2. HeldBy(d) = HeldBy(NoSock) \union {}
  BY DEF HeldBy
<1>3. Hears(NoSock, d)
  BY DEF Hears, NoSock
<1> QED
  BY <1>1, <1>2, <1>3 DEF Outcome, Sound

LEMMA NeverUp ==
    ASSUME NEW c, Empty(c), ~c.active, c.last = "none", NEW d, d = CloseSock(c)
    PROVE  Outcome(NoSock, d, {})
<1>1. /\ d \in Sock /\ ~d.owned /\ ~d.active /\ d.last = "none" /\ ~d.stopped
      /\ d.sends = c.sends /\ d.sent = c.sent /\ d.lost = c.lost
  BY CloseSockFields DEF Empty
<1>2. Heard(d)
  BY <1>1 DEF Heard, Empty, NoSock
<1> QED
  BY <1>1, <1>2, NoSockOutcome DEF Empty

LEMMA NowUp ==
    ASSUME NEW c, Empty(c), c.last = "startup", NEW d, d = [c EXCEPT !.owned = TRUE]
    PROVE  Outcome(NoSock, d, {})
<1>1. /\ d \in Sock /\ d.owned /\ d.last = "startup" /\ ~d.stopped /\ d.obj = "live"
      /\ ~d.closing /\ d.sends = c.sends /\ d.sent = c.sent /\ d.lost = c.lost
  BY DEF Empty, Sock
<1>2. Heard(d)
  BY <1>1 DEF Heard
<1> QED
  BY <1>1, <1>2, NoSockOutcome DEF Empty

\* A new socket before it is opened, and when startup() is called.
LEMMA BoundEmpty ==
    ASSUME NEW kind \in {"tcp", "udp"},
           NEW c, c = [NoSock EXCEPT !.kind = kind, !.obj = "live"],
           NEW up, up = [c EXCEPT !.active = TRUE, !.last = "startup"]
    PROVE  /\ Empty(c) /\ ~c.active /\ c.last = "none"
           /\ Empty(up) /\ up.last = "startup"
<1>1. Empty(c) /\ ~c.active /\ c.last = "none"
  <2>1. NoSock \in Sock
    BY NoSockSound DEF Sound
  <2> QED
    BY <2>1 DEF Empty, NoSock, Sock
<1>2. Empty(up) /\ up.last = "startup"
  BY <1>1 DEF Empty, Sock
<1> QED
  BY <1>1, <1>2

LEMMA BoundMoves ==
    ASSUME IInv, NextId \in Ids, NEW kind \in {"tcp", "udp"}, Becomes(NextId, Bound(kind))
    PROVE  Moves(NextId, Unused)
<1>1. sock[NextId] = NoSock
  BY NewId
<1>2. PICK c, up : /\ c = [NoSock EXCEPT !.kind = kind, !.obj = "live"]
                   /\ up = [c EXCEPT !.active = TRUE, !.last = "startup"]
  OBVIOUS
<1>3. /\ Outcome(NoSock, CloseSock(c), {})
      /\ Outcome(NoSock, [up EXCEPT !.owned = TRUE], {})
      /\ ~up.owned
  <2>1. Empty(c) /\ ~c.active /\ c.last = "none" /\ Empty(up) /\ up.last = "startup"
    BY <1>2, BoundEmpty
  <2> QED
    BY <2>1, NeverUp, NowUp DEF Empty
<1>4. PICK o \in Bound(kind) : /\ sock' = [sock EXCEPT ![NextId] = o[1]]
                               /\ discarded' = discarded \union o[2]
  BY DEF Becomes
<1>5. \/ o = <<CloseSock(c), {}>>
      \/ \E p \in UserActs(up) : o = <<[p[1] EXCEPT !.owned = TRUE], p[2]>>
  BY <1>2, <1>4 DEF Bound
<1>6. Outcome(NoSock, o[1], {}) /\ o[2] \subseteq Unused
  <2>1. CASE o = <<CloseSock(c), {}>>
    <3>1. o[1] = CloseSock(c) /\ o[2] = {}
      BY <2>1
    <3> QED
      BY <1>3, <3>1
  <2>2. CASE \E p \in UserActs(up) : o = <<[p[1] EXCEPT !.owned = TRUE], p[2]>>
    <3>1. PICK p \in UserActs(up) : o = <<[p[1] EXCEPT !.owned = TRUE], p[2]>>
      BY <2>2
    <3>2. p = <<up, {}>> \/ \E b \in Unused : p = <<up, {b}>>
      BY <1>3 DEF UserActs
    <3>3. p[1] = up /\ p[2] \subseteq Unused
      BY <3>2
    <3>4. o[1] = [up EXCEPT !.owned = TRUE] /\ o[2] \subseteq Unused
      BY <3>1, <3>3
    <3> QED
      BY <1>3, <3>4
  <2> QED
    BY <1>5, <2>1, <2>2
<1>7. Outcome(sock[NextId], o[1], {}) /\ {} \subseteq Unused /\ {} \intersect o[2] = {}
  BY <1>1, <1>6
<1> QED
  BY <1>4, <1>6, <1>7 DEF Moves

\* The socket s runs a callback of the user in the state e.
LEMMA UserMoves ==
    ASSUME IInv, NEW s \in Ids, NEW e, Outcome(sock[s], e, {}), sock[s].last # "none",
           Becomes(s, UserActs(e))
    PROVE  Moves(s, Unused)
<1>1. PICK o \in UserActs(e) : /\ sock' = [sock EXCEPT ![s] = o[1]]
                               /\ discarded' = discarded \union o[2]
  BY DEF Becomes
<1>2. Sound(e) /\ HeldBy(e) \intersect Unused = {}
  <2>1. HeldBy(e) = HeldBy(sock[s])
    BY DEF Outcome
  <2> QED
    BY <2>1, UnusedIsNowhere DEF Outcome
<1>3. PICK X : UserMade(e, o[1], X, o[2])
  BY <1>1, <1>2, UserActsOutcomes
<1>4. Outcome(sock[s], o[1], X)
  BY <1>3, ActedOutcome DEF UserMade
<1> QED
  BY <1>1, <1>3, <1>4 DEF Moves, UserMade

LEMMA SocketsKept ==
    ASSUME IInv, QueueInv', sock' = sock, discarded' = discarded, exited' = exited,
           Filed' \subseteq Filed, InBatch' \subseteq InBatch,
           socketIdCounter' \in 0 .. MaxId, socketIdCounter <= socketIdCounter'
    PROVE  IInv' /\ Heed
<1>1. Heed
  BY DEF Heed, IInv, Hears
<1>2. Apart'
  <2>1. \A s \in Ids : HeldBy(sock'[s]) = HeldBy(sock[s])
    OBVIOUS
  <2>2. /\ Filed \intersect InBatch = {} /\ (Filed \union InBatch) \intersect discarded = {}
    BY DEF IInv, Apart, Filed, InBatch
  <2>3. /\ Filed' \intersect InBatch' = {} /\ (Filed' \union InBatch') \intersect discarded' = {}
        /\ Filed' \union InBatch' \union discarded'
             \subseteq Filed \union InBatch \union discarded \union Unused
    BY <2>2
  <2> QED
    BY <2>1, <2>3, QuietKeeps DEF IInv
<1>3. \A s \in Ids : s > socketIdCounter' => s > socketIdCounter
  BY MaxIdAssumption DEF IInv, TypeOK, Ids
<1> QED
  BY <1>1, <1>2, <1>3, Assembled DEF IInv, TypeOK

LEMMA BindKeeps ==
    ASSUME IInv, BindTcp \/ BindUdp
    PROVE  IInv' /\ Heed
<1>1. PICK op \in {"bindTcp", "bindUdp"} : Handling(op)
  BY DEF BindTcp, BindUdp
<1>2. NextId \in Ids /\ socketIdCounter' = NextId
  BY DEF BindTcp, BindUdp
<1>3. PICK kind \in {"tcp", "udp"} : Becomes(NextId, Bound(kind))
  BY DEF BindTcp, BindUdp
<1>4. Moves(NextId, Unused)
  BY <1>2, <1>3, BoundMoves
<1>5. QueueInv' /\ Filed' = Filed /\ InBatch' \subseteq InBatch /\ exited' = exited
  BY <1>1, HandlingTakes
<1>6. socketIdCounter' \in 0 .. MaxId /\ socketIdCounter <= socketIdCounter'
      /\ NextId <= socketIdCounter'
  BY <1>2, NewId DEF NextId, Ids
<1> QED
  BY <1>2, <1>4, <1>5, <1>6, CallbackKeeps

LEMMA BindFailsKeeps ==
    ASSUME IInv, BindFails
    PROVE  IInv' /\ Heed
<1>1. PICK op \in {"bindTcp", "bindUdp"} : Handling(op)
  BY DEF BindFails
<1>2. QueueInv' /\ Filed' = Filed /\ InBatch' \subseteq InBatch /\ exited' = exited
  BY <1>1, HandlingTakes
<1>3. sock' = sock /\ discarded' = discarded
      /\ socketIdCounter' = IF NextId \in Ids THEN NextId ELSE socketIdCounter
  BY DEF BindFails
<1>4. socketIdCounter' \in 0 .. MaxId /\ socketIdCounter <= socketIdCounter'
  BY <1>3, MaxIdAssumption DEF IInv, TypeOK, NextId, Ids
<1> QED
  BY <1>2, <1>3, <1>4, SocketsKept

LEMMA UnbindKeeps ==
    ASSUME IInv, NEW kind \in {"tcp", "udp"}, Unbind(kind)
    PROVE  IInv' /\ Heed
<1>1. PICK op \in {"unbindTcp", "unbindUdp"} : Handling(op)
  BY DEF Unbind
<1>2. /\ QueueInv' /\ Filed' = Filed /\ InBatch' \subseteq InBatch /\ exited' = exited
      /\ Head(batch) \in Requests /\ Head(batch).op = op
  BY <1>1, HandlingTakes
<1>3. PICK s : s = Head(batch).id
  OBVIOUS
<1>4. s \in Ids
  BY <1>2, <1>3, RequestsAssumption
<1>5. socketIdCounter' = socketIdCounter /\ socketIdCounter \in 0 .. MaxId
      /\ socketIdCounter <= socketIdCounter'
  BY MaxIdAssumption DEF Unbind, IInv, TypeOK
<1>6. CASE sock[s].owned /\ sock[s].kind = kind
  <2>1. Becomes(s, UserActs(Retire(sock[s])))
    BY <1>3, <1>6 DEF Unbind
  <2>2. Sound(sock[s])
    BY <1>4 DEF IInv
  <2>3. Outcome(sock[s], Retire(sock[s]), {}) /\ sock[s].last # "none"
    BY <1>6, <2>2, RetireOutcome DEF Sound, Heard
  <2>4. Moves(s, Unused)
    BY <1>4, <2>1, <2>3, UserMoves
  <2>5. s <= socketIdCounter'
    BY <1>4, <1>5, <2>3, KnownId DEF NoSock
  <2> QED
    BY <1>2, <1>4, <1>5, <2>4, <2>5, CallbackKeeps
<1>7. CASE ~(sock[s].owned /\ sock[s].kind = kind)
  <2>1. sock' = sock /\ discarded' = discarded
    BY <1>3, <1>7 DEF Unbind
  <2> QED
    BY <1>2, <1>5, <2>1, SocketsKept
<1> QED
  BY <1>6, <1>7

LEMMA SendUdpKeeps ==
    ASSUME IInv, SendUdp
    PROVE  IInv' /\ Heed
<1>1. PICK r, c : r = Head(batch) /\ c = sock[r.id]
  OBVIOUS
<1>2. Handling("sendUdp")
  BY DEF SendUdp
<1>3. /\ QueueInv' /\ Filed' = Filed /\ InBatch' \subseteq InBatch /\ exited' = exited
      /\ r \in Requests /\ IsSend(r) /\ r.buf \in InBatch \ InBatch'
  BY <1>1, <1>2, HandlingTakes DEF IsSend
<1>4. r.id \in Ids /\ r.buf \in Bufs
  BY <1>3, RequestFields DEF Sends
<1>5. /\ Filed \intersect InBatch = {} /\ InBatch \intersect discarded = {}
      /\ \A t \in Ids : HeldBy(sock[t]) \intersect InBatch = {}
  BY DEF IInv, Apart, Filed, InBatch
<1>6. /\ {r.buf} \subseteq Bufs
      /\ {r.buf} \intersect (Filed' \union InBatch' \union discarded) = {}
      /\ \A t \in Ids : HeldBy(sock[t]) \intersect {r.buf} = {}
  BY <1>3, <1>4, <1>5
<1>7. Sound(c) /\ r.buf \notin HeldBy(c)
  BY <1>1, <1>4, <1>6 DEF IInv
<1>8. socketIdCounter' = socketIdCounter /\ socketIdCounter \in 0 .. MaxId
      /\ socketIdCounter <= socketIdCounter'
  BY MaxIdAssumption DEF SendUdp, IInv, TypeOK
<1>9. CASE c.owned /\ c.kind = "udp"
  <2>1. Becomes(r.id, {<<d, {}>> : d \in SendOutcomes(c, r.buf)})
    BY <1>1, <1>9 DEF SendUdp
  <2>2. PICK d \in SendOutcomes(c, r.buf) : /\ sock' = [sock EXCEPT ![r.id] = d]
                                            /\ discarded' = discarded \union {}
    <3>1. PICK o \in {<<d, {}>> : d \in SendOutcomes(c, r.buf)} :
                 /\ sock' = [sock EXCEPT ![r.id] = o[1]]
                 /\ discarded' = discarded \union o[2]
      BY <2>1 DEF Becomes
    <3>2. PICK d \in SendOutcomes(c, r.buf) : o = <<d, {}>>
      OBVIOUS
    <3>3. o[1] = d /\ o[2] = {}
      BY <3>2
    <3> QED
      BY <3>1, <3>3
  <2>3. Acted(c, d, {r.buf})
    BY <1>4, <1>7, <1>9, <2>2, SendActs
  <2>4. c.last # "none"
    BY <1>7, <1>9 DEF Sound, Heard
  <2>5. Outcome(c, d, {r.buf})
    BY <1>7, <2>3, <2>4, SameOutcome, ActedOutcome
  <2>6. Moves(r.id, {r.buf})
    <3>1. {r.buf} \intersect {} = {} /\ {} \subseteq {r.buf}
      OBVIOUS
    <3> QED
      BY <1>1, <2>2, <2>5, <3>1 DEF Moves
  <2>7. r.id <= socketIdCounter'
    BY <1>1, <1>4, <1>8, <2>4, KnownId DEF NoSock
  <2> QED
    BY <1>3, <1>4, <1>6, <1>8, <2>6, <2>7, StepKeeps
<1>10. CASE ~(c.owned /\ c.kind = "udp")
  <2>1. Becomes(r.id, {<<c, {r.buf}>>})
    BY <1>1, <1>10 DEF SendUdp
  <2>2. sock' = [sock EXCEPT ![r.id] = c] /\ discarded' = discarded \union {r.buf}
    <3>1. PICK o : /\ o = <<c, {r.buf}>>
                   /\ sock' = [sock EXCEPT ![r.id] = o[1]]
                   /\ discarded' = discarded \union o[2]
      BY <2>1 DEF Becomes
    <3>2. o[1] = c /\ o[2] = {r.buf}
      BY <3>1
    <3> QED
      BY <3>1, <3>2
  <2>3. sock' = sock
    BY <1>1, <2>2 DEF IInv, TypeOK
  <2>4. Heed
    BY <2>3 DEF Heed, IInv, Hears
  <2>5. Filed' \intersect InBatch' = {} /\ (Filed' \union InBatch') \intersect discarded' = {}
    BY <1>3, <1>5, <2>2 DEF IInv, Apart, Filed, InBatch
  <2>6. Filed' \union InBatch' \union discarded'
          \subseteq Filed \union InBatch \union discarded \union Unused
    BY <1>3, <2>2
  <2>7. Apart'
    <3>1. \A s \in Ids : HeldBy(sock'[s]) = HeldBy(sock[s])
      BY <2>3
    <3> QED
      BY <2>5, <2>6, <3>1, QuietKeeps DEF IInv
  <2> QED
    BY <1>3, <1>4, <1>8, <2>2, <2>3, <2>4, <2>7, Assembled DEF IInv, TypeOK
<1> QED
  BY <1>9, <1>10

-----------------------------------------------------------------------------
(* Callbacks.                                                              *)

\* A step that is not about requests.
LEMMA RequestsKept ==
    ASSUME IInv, UNCHANGED requests
    PROVE  QueueInv' /\ Filed' = Filed /\ InBatch' = InBatch
<1>1. /\ submitted' = submitted /\ pendingBind' = pendingBind
      /\ pendingSendUdp' = pendingSendUdp /\ batch' = batch
  BY DEF requests
<1> QED
  BY <1>1, InvHasQueue DEF QueueInv, Filed, InBatch

\* A callback of the socket s.
LEMMA OwnCallbackKeeps ==
    ASSUME IInv, NEW s \in Ids, sock[s] # NoSock, Moves(s, Unused),
           UNCHANGED <<requests, exited>>,
           socketIdCounter' \in 0 .. MaxId, socketIdCounter <= socketIdCounter'
    PROVE  IInv' /\ Heed
<1>1. s <= socketIdCounter /\ socketIdCounter \in Nat /\ socketIdCounter' \in Nat /\ s \in Nat
  BY KnownId, MaxIdAssumption DEF IInv, TypeOK, Ids
<1>2. s <= socketIdCounter'
  BY <1>1
<1> QED
  BY <1>2, RequestsKept, CallbackKeeps

\* One without datagrams.
LEMMA PlainMoves ==
    ASSUME NEW s \in Ids, NEW d, Outcome(sock[s], d, {}), sock' = [sock EXCEPT ![s] = d],
           discarded' = discarded
    PROVE  Moves(s, Unused)
<1>1. {} \subseteq Unused /\ {} \intersect {} = {} /\ discarded' = discarded \union {}
  OBVIOUS
<1> QED
  BY <1>1 DEF Moves

LEMMA Listening ==
    ASSUME IInv, NEW s \in Ids, sock[s].active
    PROVE  /\ Sound(sock[s]) /\ sock[s].owned /\ sock[s].obj = "live" /\ ~sock[s].closing
           /\ sock[s].last # "none" /\ ~sock[s].stopped /\ sock[s] # NoSock
  BY DEF IInv, Sound, Heard, NoSock

\* What newTcpCallback(), listenError() and packet() leave: nothing but the
\* event, and who waits at the socket.
LEMMA EventOutcome ==
    ASSUME NEW c, Sound(c), c.owned, NEW w \in BOOLEAN, NEW h \in BOOLEAN,
           NEW l \in {"event", c.last},
           NEW d, d = [c EXCEPT !.waiting = w, !.stalled = h, !.last = l]
    PROVE  Outcome(c, d, {})
<1>1. c \in Sock /\ Heard(c) /\ c.last # "none" /\ ~c.stopped
  BY DEF Sound, Heard
<1>2. /\ d \in Sock /\ d.obj = c.obj /\ d.owned = c.owned /\ d.closing = c.closing
      /\ d.active = c.active /\ d.stopped = c.stopped /\ d.last = l
      /\ d.sends = c.sends /\ d.sent = c.sent /\ d.lost = c.lost
  BY <1>1 DEF Sock
<1>3. Heard(d)
  BY <1>1, <1>2 DEF Heard
<1>4. HeldBy(d) = HeldBy(c) \union {} /\ Fate(d.sends, d.sent, d.lost)
  BY <1>2 DEF HeldBy, Sound
<1> QED
  BY <1>1, <1>2, <1>3, <1>4 DEF Outcome, Hears, Sound

LEMMA ArrivesKeeps ==
    ASSUME IInv, NEW s \in Ids, Arrives(s)
    PROVE  IInv' /\ Heed
<1>1. PICK c : c = sock[s]
  OBVIOUS
<1>2. Sound(c) /\ c.owned /\ c # NoSock
  BY <1>1, Listening DEF Arrives
<1>3. PICK d : d = [c EXCEPT !.waiting = TRUE]
  OBVIOUS
<1>4. d = [c EXCEPT !.waiting = TRUE, !.stalled = c.stalled, !.last = c.last]
      /\ c.stalled \in BOOLEAN
  BY <1>2, <1>3 DEF Sound, Sock
<1>5. Outcome(c, d, {})
  BY <1>2, <1>4, EventOutcome
<1>6. sock' = [sock EXCEPT ![s] = d] /\ discarded' = discarded
  BY <1>1, <1>3 DEF Arrives
<1>7. Moves(s, Unused)
  BY <1>1, <1>5, <1>6, PlainMoves
<1>8. /\ UNCHANGED <<requests, exited>> /\ socketIdCounter' \in 0 .. MaxId
      /\ socketIdCounter <= socketIdCounter'
  BY MaxIdAssumption DEF Arrives, IInv, TypeOK
<1> QED
  BY <1>1, <1>2, <1>7, <1>8, OwnCallbackKeeps

LEMMA CallsBackUnchanged ==
    ASSUME NEW s \in Ids, NEW kind, CallsBack(s, kind)
    PROVE  UNCHANGED <<requests, exited>> /\ discarded' = discarded /\ sock[s].active
  BY DEF CallsBack, requests

\* Accept makes two records new: the socket's and the one of the id given out.
LEMMA AcceptKeeps ==
    ASSUME IInv, NEW s \in Ids, Accept(s)
    PROVE  IInv' /\ Heed
<1>1. PICK c, n : c = sock[s] /\ n = NextId
  OBVIOUS
<1>2. /\ CallsBack(s, "tcp") /\ n \in Ids /\ socketIdCounter' = n
      /\ sock' = [sock EXCEPT ![s] = Taken(s), ![n].kind = "client"]
  BY <1>1 DEF Accept
<1>3. UNCHANGED <<requests, exited>> /\ discarded' = discarded /\ sock[s].active
  BY <1>2, CallsBackUnchanged
<1>4. Sound(c) /\ c.owned /\ c # NoSock
  BY <1>1, <1>3, Listening
<1>5. sock[n] = NoSock /\ n # s /\ n \in 0 .. MaxId /\ socketIdCounter <= n
  BY <1>1, <1>2, <1>4, NewId
<1>6. PICK d, e : d = Taken(s) /\ e = [NoSock EXCEPT !.kind = "client"]
  OBVIOUS
<1>7. sock'[s] = d /\ sock'[n] = e /\ \A t \in Ids : t # s /\ t # n => sock'[t] = sock[t]
  BY <1>2, <1>5, <1>6 DEF IInv, TypeOK
<1>8. Outcome(c, d, {})
  <2>1. d = [c EXCEPT !.waiting = FALSE, !.stalled = c.stalled, !.last = "event"]
        /\ c.stalled \in BOOLEAN
    BY <1>1, <1>4, <1>6 DEF Taken, Sound, Sock
  <2> QED
    BY <1>4, <2>1, EventOutcome
<1>9. Outcome(NoSock, e, {})
  <2>1. /\ e \in Sock /\ e.last = "none" /\ e.sends = NoSock.sends /\ e.sent = NoSock.sent
        /\ e.lost = NoSock.lost
    BY <1>6, NoSockSound DEF Sound, Sock, NoSock
  <2>2. Heard(e)
    BY <1>6 DEF Heard, NoSock
  <2> QED
    BY <2>1, <2>2, NoSockOutcome
<1>10. ASSUME NEW t \in Ids PROVE Outcome(sock[t], sock'[t], {})
  <2>1. CASE t = s
    BY <1>1, <1>7, <1>8, <2>1
  <2>2. CASE t = n
    BY <1>5, <1>7, <1>9, <2>2
  <2>3. CASE t # s /\ t # n
    BY <1>7, <2>3, SameOutcome DEF IInv
  <2> QED
    BY <2>1, <2>2, <2>3
<1>11. Heed /\ \A t \in Ids : HeldBy(sock'[t]) = HeldBy(sock[t]) /\ sock'[t] \in Sock
  BY <1>10 DEF Outcome, Heed, Sound
<1>12. sock' \in [Ids -> Sock]
  BY <1>2, <1>11 DEF IInv, TypeOK
<1>13. QueueInv' /\ Filed' = Filed /\ InBatch' = InBatch
  BY <1>3, RequestsKept
<1>14. Apart'
  <2>1. Filed \intersect InBatch = {} /\ (Filed \union InBatch) \intersect discarded = {}
    BY DEF IInv, Apart, Filed, InBatch
  <2> QED
    BY <1>3, <1>11, <1>13, <2>1, QuietKeeps DEF IInv
<1>15. ASSUME NEW t \in Ids, t > socketIdCounter' PROVE sock'[t] = NoSock
  <2>1. t > n /\ t > socketIdCounter /\ s <= socketIdCounter
    BY <1>1, <1>2, <1>4, <1>5, <1>15, KnownId, MaxIdAssumption DEF IInv, TypeOK, Ids
  <2>2. t # n /\ t # s
    BY <1>2, <2>1, MaxIdAssumption DEF IInv, TypeOK, Ids
  <2> QED
    BY <1>7, <2>1, <2>2 DEF IInv, TypeOK
<1> QED
  BY <1>2, <1>3, <1>5, <1>11, <1>12, <1>13, <1>14, <1>15, Assembled DEF IInv, TypeOK

LEMMA ListenKeeps ==
    ASSUME IInv, NEW s \in Ids, AcceptGivesUp(s) \/ ListenError(s)
    PROVE  IInv' /\ Heed
<1>1. PICK c : c = sock[s]
  OBVIOUS
<1>2. UNCHANGED <<requests, exited>> /\ discarded' = discarded /\ sock[s].active
  BY CallsBackUnchanged DEF AcceptGivesUp, ListenError
<1>3. Sound(c) /\ c.owned /\ c # NoSock /\ c.stalled \in BOOLEAN /\ c.waiting \in BOOLEAN
  BY <1>1, <1>2, Listening DEF Sound, Sock
<1>4. PICK d : /\ sock' = [sock EXCEPT ![s] = d]
               /\ \/ d = [c EXCEPT !.stalled = TRUE, !.last = "event"]
                  \/ d = [c EXCEPT !.waiting = FALSE, !.last = "event"]
  <2>1. CASE AcceptGivesUp(s)
    <3>1. sock' = [sock EXCEPT ![s] = [c EXCEPT !.stalled = TRUE, !.last = "event"]]
      BY <1>1, <2>1 DEF AcceptGivesUp
    <3> QED
      BY <3>1
  <2>2. CASE ListenError(s)
    <3>1. sock' = [sock EXCEPT ![s] = [c EXCEPT !.waiting = FALSE, !.last = "event"]]
      BY <1>1, <2>2 DEF ListenError, Taken
    <3> QED
      BY <3>1
  <2> QED
    BY <2>1, <2>2
<1>5. Outcome(c, d, {})
  <2>1. CASE d = [c EXCEPT !.stalled = TRUE, !.last = "event"]
    <3>1. d = [c EXCEPT !.waiting = c.waiting, !.stalled = TRUE, !.last = "event"]
      BY <1>3, <2>1 DEF Sound, Sock
    <3> QED
      BY <1>3, <3>1, EventOutcome
  <2>2. CASE d = [c EXCEPT !.waiting = FALSE, !.last = "event"]
    <3>1. d = [c EXCEPT !.waiting = FALSE, !.stalled = c.stalled, !.last = "event"]
      BY <1>3, <2>2 DEF Sound, Sock
    <3> QED
      BY <1>3, <3>1, EventOutcome
  <2> QED
    BY <1>4, <2>1, <2>2
<1>6. Moves(s, Unused)
  BY <1>1, <1>2, <1>4, <1>5, PlainMoves
<1>7. socketIdCounter' \in 0 .. MaxId /\ socketIdCounter <= socketIdCounter'
  BY MaxIdAssumption DEF AcceptGivesUp, ListenError, IInv, TypeOK, NextId, Ids
<1> QED
  BY <1>1, <1>2, <1>3, <1>6, <1>7, OwnCallbackKeeps

LEMMA ReceiveKeeps ==
    ASSUME IInv, NEW s \in Ids, Receive(s)
    PROVE  IInv' /\ Heed
<1>1. PICK c, e : c = sock[s] /\ e = [c EXCEPT !.last = "event"]
  OBVIOUS
<1>2. Sound(c) /\ c.owned /\ c # NoSock /\ c.last # "none"
  BY <1>1, Listening DEF Receive
<1>3. Outcome(c, e, {})
  <2>1. e = [c EXCEPT !.waiting = c.waiting, !.stalled = c.stalled, !.last = "event"]
        /\ c.stalled \in BOOLEAN /\ c.waiting \in BOOLEAN
    BY <1>1, <1>2 DEF Sound, Sock
  <2> QED
    BY <1>2, <2>1, EventOutcome
<1>4. Becomes(s, UserActs(e))
  BY <1>1 DEF Receive
<1>5. Moves(s, Unused)
  BY <1>1, <1>2, <1>3, <1>4, UserMoves
<1>6. /\ UNCHANGED <<requests, exited>> /\ socketIdCounter' \in 0 .. MaxId
      /\ socketIdCounter <= socketIdCounter'
  BY MaxIdAssumption DEF Receive, IInv, TypeOK
<1> QED
  BY <1>1, <1>2, <1>5, <1>6, OwnCallbackKeeps

LEMMA KernelSendsKeeps ==
    ASSUME IInv, NEW s \in Ids, KernelSends(s)
    PROVE  IInv' /\ Heed
<1>1. PICK c : c = sock[s]
  OBVIOUS
<1>2. PICK i \in DOMAIN sock[s].sends, result \in {"sent", "failed"} :
         sock' = [sock EXCEPT ![s].sends[i].state = result]
  BY DEF KernelSends
<1>3. PICK d : d = [c EXCEPT !.sends[i].state = result]
  OBVIOUS
<1>4. sock' = [sock EXCEPT ![s] = d]
  BY <1>1, <1>2, <1>3
<1>5. Sound(c) /\ c # NoSock
  <2>1. Sound(c) /\ c.sends \in Seq(Datagrams)
    BY <1>1 DEF IInv, Sound, Sock, Datagrams
  <2>2. c.sends # <<>>
    BY <1>1, <1>2, <2>1
  <2> QED
    BY <2>1, <2>2 DEF NoSock
<1>6. Outcome(c, d, {})
  BY <1>1, <1>2, <1>3, <1>5, KernelSendsOutcome
<1>7. /\ UNCHANGED <<requests, exited>> /\ discarded' = discarded
      /\ socketIdCounter' \in 0 .. MaxId /\ socketIdCounter <= socketIdCounter'
  BY MaxIdAssumption DEF KernelSends, IInv, TypeOK
<1>8. Moves(s, Unused)
  BY <1>1, <1>4, <1>6, <1>7, PlainMoves
<1> QED
  BY <1>1, <1>5, <1>7, <1>8, OwnCallbackKeeps

LEMMA SendCallbackKeeps ==
    ASSUME IInv, NEW s \in Ids, SendCallback(s)
    PROVE  IInv' /\ Heed
<1>1. PICK c, b, e, f : /\ c = sock[s] /\ b = Head(c.sends).buf
                        /\ e = [c EXCEPT !.sends = Tail(@), !.sent = @ \union {b}]
                        /\ f = [[c EXCEPT !.sends = Tail(@)]
                                  EXCEPT !.lost = @ \union {b}, !.last = "sendError"]
  OBVIOUS
<1>2. Sound(c) /\ ~c.closing /\ c.sends # <<>>
  BY <1>1 DEF IInv, SendCallback
<1>3. c.last # "none" /\ c # NoSock
  BY <1>2 DEF Sound, Heard, NoSock
<1>4. Outcome(c, e, {}) /\ Outcome(c, f, {})
  BY <1>1, <1>2, SentOutcome
<1>5. /\ UNCHANGED <<requests, exited>>
      /\ socketIdCounter' \in 0 .. MaxId /\ socketIdCounter <= socketIdCounter'
  BY MaxIdAssumption DEF SendCallback, IInv, TypeOK
<1>6. Becomes(s, {<<e, {}>>}) \/ Becomes(s, UserActs(f))
  BY <1>1 DEF SendCallback
<1>7. Moves(s, Unused)
  <2>1. CASE Becomes(s, {<<e, {}>>})
    <3>1. PICK o : /\ o = <<e, {}>>
                   /\ sock' = [sock EXCEPT ![s] = o[1]]
                   /\ discarded' = discarded \union o[2]
      BY <2>1 DEF Becomes
    <3>2. o[1] = e /\ o[2] = {}
      BY <3>1
    <3>3. sock' = [sock EXCEPT ![s] = e] /\ discarded' = discarded
      BY <3>1, <3>2
    <3> QED
      BY <1>1, <1>4, <3>3, PlainMoves
  <2>2. CASE Becomes(s, UserActs(f))
    BY <1>1, <1>3, <1>4, <2>2, UserMoves
  <2> QED
    BY <1>6, <2>1, <2>2
<1> QED
  BY <1>1, <1>3, <1>5, <1>7, OwnCallbackKeeps

LEMMA SocketClosedKeeps ==
    ASSUME IInv, NEW s \in Ids, SocketClosed(s)
    PROVE  IInv' /\ Heed
<1>1. PICK c, d : c = sock[s] /\ d = Closed(c)
  OBVIOUS
<1>2. Sound(c) /\ c.closing /\ c # NoSock
  BY <1>1 DEF SocketClosed, IInv, NoSock
<1>3. Outcome(c, d, {})
  BY <1>1, <1>2, ClosedOutcome
<1>4. /\ sock' = [sock EXCEPT ![s] = d] /\ discarded' = discarded
      /\ UNCHANGED <<requests, exited>> /\ socketIdCounter' \in 0 .. MaxId
      /\ socketIdCounter <= socketIdCounter'
  BY <1>1, MaxIdAssumption DEF SocketClosed, IInv, TypeOK
<1>5. Moves(s, Unused)
  BY <1>1, <1>3, <1>4, PlainMoves
<1> QED
  BY <1>1, <1>2, <1>4, <1>5, OwnCallbackKeeps

-----------------------------------------------------------------------------
(* The invariant.                                                          *)

LEMMA InitIInv == Init => IInv
<1> SUFFICES ASSUME Init PROVE IInv
  OBVIOUS
<1>1. \A s \in Ids : sock[s] = NoSock /\ Sound(sock[s]) /\ HeldBy(sock[s]) = {}
  BY NoSockSound DEF Init
<1>2. sock \in [Ids -> Sock]
  BY NoSockSound DEF Init, Sound
<1>3. TypeOK
  <2>1. /\ pendingBind \in Seq({r \in Requests : ~IsSend(r)})
        /\ pendingSendUdp \in Seq({r \in Requests : IsSend(r)})
        /\ batch \in Seq(Requests)
    BY DEF Init
  <2>2. socketIdCounter \in 0 .. MaxId /\ exited \in BOOLEAN
    <3>1. socketIdCounter = 0 /\ exited = FALSE
      BY DEF Init
    <3>2. socketIdCounter \in 0 .. MaxId
      BY <3>1, MaxIdAssumption
    <3> QED
      BY <3>1, <3>2
  <2>3. submitted \subseteq Requests /\ discarded \in SUBSET Bufs
    BY DEF Init
  <2> QED
    BY <1>1, <1>2, <2>1, <2>2, <2>3 DEF TypeOK
<1>4. Single(pendingSendUdp) /\ Single(batch) /\ Filed = {} /\ InBatch = {}
  BY EmptyRequests DEF Init, Filed, InBatch
<1>5. Apart
  BY <1>1, <1>4 DEF Init, Apart, Filed, InBatch
<1> QED
  BY <1>1, <1>3, <1>4, <1>5 DEF IInv

LEMMA NextKeeps ==
    ASSUME IInv, [Next]_vars
    PROVE  IInv' /\ Heed
<1>1. ASSUME NEW r \in Requests, Submit(r) PROVE IInv' /\ Heed
  BY <1>1, SubmitKeeps
<1>2. CASE TakeBatch
  BY <1>2, TakeBatchKeeps
<1>3. CASE Dispatch
  BY <1>3, BindKeeps, BindFailsKeeps, UnbindKeeps, SendUdpKeeps DEF Dispatch
<1>4. CASE Exit
  BY <1>4, ExitKeeps
<1>5. CASE LoopEnded \/ UNCHANGED vars
  <2>1. UNCHANGED <<requests, exited>> /\ sock' = sock /\ discarded' = discarded
        /\ socketIdCounter' = socketIdCounter
    BY <1>5 DEF LoopEnded, vars, requests
  <2>2. socketIdCounter' \in 0 .. MaxId /\ socketIdCounter <= socketIdCounter'
    BY <2>1, MaxIdAssumption DEF IInv, TypeOK
  <2> QED
    BY <2>1, <2>2, RequestsKept, SocketsKept
<1>6. ASSUME NEW s \in Ids,
             \/ Arrives(s) \/ Listens(s) \/ Receive(s)
             \/ KernelSends(s) \/ SendCallback(s) \/ SocketClosed(s)
      PROVE  IInv' /\ Heed
  BY <1>6, ArrivesKeeps, AcceptKeeps, ListenKeeps, ReceiveKeeps, KernelSendsKeeps,
     SendCallbackKeeps, SocketClosedKeeps DEF Listens
<1> QED
  BY <1>1, <1>2, <1>3, <1>4, <1>5, <1>6 DEF Next

\* The holders of b that Places lists, one by one.
LEMMA PlacesOf ==
    ASSUME IInv, NEW b \in Bufs, NEW p \in Places(b)
    PROVE  \/ /\ b \in Filed
              /\ \E i \in DOMAIN pendingSendUdp :
                    pendingSendUdp[i].buf = b /\ p = <<"pending", i>>
           \/ /\ b \in InBatch
              /\ \E i \in DOMAIN batch :
                    IsSend(batch[i]) /\ batch[i].buf = b /\ p = <<"batch", i>>
           \/ \E s \in Ids : /\ b \in HeldBy(sock[s])
                             /\ \E i \in DOMAIN sock[s].sends :
                                   sock[s].sends[i].buf = b /\ p = <<"sends", s, i>>
           \/ \E s \in Ids : b \in sock[s].sent /\ p = <<"sent", s>>
           \/ \E s \in Ids : b \in sock[s].lost /\ p = <<"lost", s>>
           \/ b \in discarded /\ p = <<"discarded">>
<1>1. \A i \in DOMAIN pendingSendUdp : IsSend(pendingSendUdp[i])
  <2>1. pendingSendUdp \in Seq(Sends)
    BY InvHasQueue DEF QueueInv
  <2> QED
    BY <2>1 DEF Sends
<1>2. CASE p \in {<<"pending", i>> : i \in {j \in DOMAIN pendingSendUdp : pendingSendUdp[j].buf = b}}
  BY <1>1, <1>2, InRequestsOf DEF Filed
<1>3. CASE p \in {<<"batch", i>> : i \in {j \in DOMAIN batch : IsSend(batch[j]) /\ batch[j].buf = b}}
  BY <1>3, InRequestsOf DEF InBatch
<1>4. CASE p \in UNION {{<<"sends", s, i>> : i \in {j \in DOMAIN sock[s].sends :
                            sock[s].sends[j].buf = b}} : s \in Ids}
  <2>1. PICK s \in Ids : \E i \in DOMAIN sock[s].sends :
                            sock[s].sends[i].buf = b /\ p = <<"sends", s, i>>
    BY <1>4
  <2>2. b \in HeldBy(sock[s])
    BY <2>1 DEF HeldBy, Held, Names
  <2> QED
    BY <2>1, <2>2
<1>5. CASE p \in {<<"sent", s>> : s \in {t \in Ids : b \in sock[t].sent}}
  BY <1>5
<1>6. CASE p \in {<<"lost", s>> : s \in {t \in Ids : b \in sock[t].lost}}
  BY <1>6
<1>7. CASE b \in discarded /\ p = <<"discarded">>
  BY <1>7
<1> QED
  <2> DEFINE pending == {<<"pending", i>> : i \in {j \in DOMAIN pendingSendUdp :
                                                      pendingSendUdp[j].buf = b}}
             inBatch == {<<"batch", i>> : i \in {j \in DOMAIN batch :
                                                    IsSend(batch[j]) /\ batch[j].buf = b}}
             sends == UNION {{<<"sends", s, i>> : i \in {j \in DOMAIN sock[s].sends :
                                                    sock[s].sends[j].buf = b}} : s \in Ids}
             sent == {<<"sent", s>> : s \in {t \in Ids : b \in sock[t].sent}}
             lost == {<<"lost", s>> : s \in {t \in Ids : b \in sock[t].lost}}
             freed == IF b \in discarded THEN {<<"discarded">>} ELSE {}
  <2>1. Places(b) = pending \union inBatch \union sends \union sent \union lost \union freed
    BY Zenon DEF Places
  <2>2. p \in freed => b \in discarded /\ p = <<"discarded">>
    OBVIOUS
  <2> HIDE DEF pending, inBatch, sends, sent, lost, freed
  <2>3. \/ p \in pending \/ p \in inBatch \/ p \in sends
        \/ p \in sent \/ p \in lost \/ p \in freed
    BY <2>1
  <2> QED
    BY <1>2, <1>3, <1>4, <1>5, <1>6, <1>7, <2>2, <2>3
       DEF pending, inBatch, sends, sent, lost

LEMMA FateFollows ==
    ASSUME IInv
    PROVE  DatagramFate
<1>1. ASSUME NEW b \in Bufs, NEW p \in Places(b), NEW q \in Places(b)
      PROVE  p = q
  <2>1. /\ ~(b \in Filed /\ b \in InBatch) /\ ~(b \in Filed \union InBatch /\ b \in discarded)
        /\ \A s \in Ids : b \in HeldBy(sock[s]) =>
              b \notin Filed /\ b \notin InBatch /\ b \notin discarded
        /\ \A s, t \in Ids : b \in HeldBy(sock[s]) /\ b \in HeldBy(sock[t]) => s = t
    BY DEF IInv, Apart, Filed, InBatch
  <2>2. \A s \in Ids : /\ b \in sock[s].sent => b \in HeldBy(sock[s])
                       /\ b \in sock[s].lost => b \in HeldBy(sock[s])
    BY DEF HeldBy, Held
  <2>3. ASSUME NEW s \in Ids
        PROVE  /\ b \in sock[s].sent => b \notin sock[s].lost /\ b \notin Names(sock[s].sends)
               /\ b \in sock[s].lost => b \notin Names(sock[s].sends)
               /\ \A i, j \in DOMAIN sock[s].sends :
                    sock[s].sends[i].buf = b /\ sock[s].sends[j].buf = b => i = j
    <3>1. Fate(sock[s].sends, sock[s].sent, sock[s].lost)
      BY DEF IInv, Sound
    <3> QED
      BY <3>1 DEF Fate
  <2>4. \A s \in Ids : \A i \in DOMAIN sock[s].sends :
           sock[s].sends[i].buf = b => b \in Names(sock[s].sends)
    BY DEF Names
  <2>5. CASE b \in Filed
    <3>1. \A i, j \in DOMAIN pendingSendUdp :
             pendingSendUdp[i].buf = b /\ pendingSendUdp[j].buf = b => i = j
      <4>1. pendingSendUdp \in Seq(Sends) /\ Single(pendingSendUdp)
        BY InvHasQueue DEF QueueInv
      <4>2. \A i \in DOMAIN pendingSendUdp : IsSend(pendingSendUdp[i])
        BY <4>1 DEF Sends
      <4> QED
        BY <4>1, <4>2 DEF Single
    <3> QED
      BY <2>1, <2>2, <2>5, <3>1, PlacesOf
  <2>6. CASE b \in InBatch
    <3>1. \A i, j \in DOMAIN batch :
             /\ IsSend(batch[i]) /\ batch[i].buf = b
             /\ IsSend(batch[j]) /\ batch[j].buf = b
             => i = j
      BY DEF IInv, Single
    <3> QED
      BY <2>1, <2>2, <2>6, <3>1, PlacesOf
  <2>7. CASE b \in discarded
    BY <2>1, <2>2, <2>7, PlacesOf
  <2>8. ASSUME NEW s \in Ids, b \in HeldBy(sock[s])
        PROVE  p = q
    <3>1. \A r \in {p, q} :
            \/ /\ b \in Names(sock[s].sends)
               /\ \E i \in DOMAIN sock[s].sends :
                     sock[s].sends[i].buf = b /\ r = <<"sends", s, i>>
            \/ b \in sock[s].sent /\ r = <<"sent", s>>
            \/ b \in sock[s].lost /\ r = <<"lost", s>>
      BY <2>1, <2>2, <2>4, <2>8, PlacesOf
    <3> QED
      BY <2>3, <3>1
  <2> QED
    BY <2>2, <2>5, <2>6, <2>7, <2>8, PlacesOf
<1>2. \A s \in Ids : sock[s].obj = "freed" => sock[s].sends = <<>>
  BY DEF IInv, Sound, Heard
<1> QED
  BY <1>1, <1>2 DEF DatagramFate

-----------------------------------------------------------------------------
(* The theorems.                                                           *)

\* The invariant holds: every socket is Sound and the places are Apart.
LEMMA Inductive == Spec => []IInv
<1>1. IInv /\ [Next]_vars => IInv'
  BY NextKeeps
<1> QED
  BY InitIInv, <1>1, PTL DEF Spec

\* Every variable keeps its type, and the sockets have the ids that
\* ++m_socketIdCounter has given out, no two the same.
THEOREM TypeCorrect == Spec => []TypeOK
<1>1. IInv => TypeOK
  BY DEF IInv
<1> QED
  BY <1>1, Inductive, PTL

\* A datagram handed to sendUdp is in one place, from the deque or the direct
\* call to the callback of uv_udp_send, so its memory is freed once; and no
\* such callback is left when on_close deletes the Cudp.
THEOREM DatagramsAccounted == Spec => []DatagramFate
  BY FateFollows, Inductive, PTL

\* The user's callback object hears startup() first, shutdown() when the socket
\* leaves its map, by unbind or in the exit branch, and after it nothing but
\* sendError() for what uv_close cancelled.
THEOREM CallbacksInOrder == Spec => CallbackProtocol
<1>1. ASSUME IInv, [Next]_vars
      PROVE  [\A s \in Ids :
                LET c == sock[s]
                    d == sock'[s]
                IN  /\ c.last = "none" => d.last \in {"none", "startup"}
                    /\ d.last = "startup" => c.last \in {"none", "startup"}
                    /\ c.stopped => d.stopped /\ d.last \in {c.last, "sendError"}
                    /\ d.last # "none" => (d.owned <=> ~d.stopped)
                    /\ d.owned => d.last # "none"]_vars
  <2>1. Heed
    BY <1>1, NextKeeps
  <2> QED
    BY <2>1 DEF Heed, Hears, Sound, Heard
<1> QED
  BY <1>1, Inductive, PTL DEF Spec, CallbackProtocol
=============================================================================
