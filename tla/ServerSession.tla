---------------------------- MODULE ServerSession ----------------------------
(***************************************************************************)
(* What CjsonSession and ChttpSession, and the first half of CjsonTask and *)
(* ChttpTask, have in common (json_server.h, http_server.h).               *)
(*                                                                         *)
(* One connection.  The loop thread files every packet in m_rawBuffers and *)
(* then pushes a task.  The workers of the CworkQueue run the tasks;       *)
(* m_contextLock lets one of them at a time merge the packets that have    *)
(* come and look for complete messages.  The session and its tasks share   *)
(* the context through CmtSharedPtr; a task that finds itself the only     *)
(* holder gives up.                                                        *)
(***************************************************************************)
EXTENDS RecvBuffer, FiniteSets

CONSTANTS
    Workers,        \* threads of the work queue
    Packets,        \* what a packet may hold: sequences of bytes
    MaxPackets      \* bound on the packets of a run

ASSUME PacketAssumption == Packets \subseteq Seq(STRING) \ {<<>>} /\ MaxPackets \in Nat
ASSUME WorkersAssumption == IsFiniteSet(Workers) /\ "nobody" \notin Workers

VARIABLES
    session,    \* does the session hold m_context?
    callback,   \* where the loop thread is in packet
    raw,        \* m_rawBuffers
    queued,     \* tasks of this session in the work queue
    at,         \* where each worker is in the task's run
    lock,       \* m_contextLock: the worker that holds it, or Nobody
    context,    \* what the lock protects
    closes,     \* history: has a task asked the pool to close the socket?
    received,   \* history: the packets of the connection
    handled     \* history: the messages that were handled

sessionVars == <<session, callback, raw, queued, at, lock, context, closes,
                 received, handled>>

Nobody == "nobody"

InitSession(freshContext) ==
    /\ session = TRUE
    /\ callback = "idle"
    /\ raw = <<>>
    /\ queued = 0
    /\ at = [w \in Workers |-> "idle"]
    /\ lock = Nobody
    /\ context = freshContext
    /\ closes = FALSE
    /\ received = <<>>
    /\ handled = <<>>

Running == {w \in Workers : at[w] # "idle"}

\* m_context.unique() for a task: neither the session nor another task has it.
Unique == ~session /\ queued = 0 /\ Cardinality(Running) = 1

-----------------------------------------------------------------------------
(* The loop thread: packet, and the release of m_context by shutdown or by *)
(* the destructor of the session.                                          *)

\* pushBuffer.
Packet(p) ==
    /\ session
    /\ callback = "idle"
    /\ Len(received) < MaxPackets
    /\ received' = Append(received, p)
    /\ raw' = Append(raw, p)
    /\ callback' = "pushing"
    /\ UNCHANGED <<session, queued, at, lock, context, closes, handled>>

\* pushTask, with a task that holds m_context too.
PushTask ==
    /\ callback = "pushing"
    /\ queued' = queued + 1
    /\ callback' = "idle"
    /\ UNCHANGED <<session, raw, at, lock, context, closes, received, handled>>

Release ==
    /\ session
    /\ callback = "idle"
    /\ session' = FALSE
    /\ UNCHANGED <<callback, raw, queued, at, lock, context, closes, received, handled>>

-----------------------------------------------------------------------------
(* A task, up to the analysis.                                             *)

Goes(w, from, to) == at[w] = from /\ at' = [at EXCEPT ![w] = to]

TakeTask(w) ==
    /\ queued > 0
    /\ Goes(w, "idle", "started")
    /\ queued' = queued - 1
    /\ UNCHANGED <<session, callback, raw, lock, context, closes, received, handled>>

\* Nobody is left who would read an answer.
ReturnsAtOnce(w) ==
    /\ Goes(w, "started", "idle")
    /\ Unique
    /\ UNCHANGED <<session, callback, raw, queued, lock, context, closes, received, handled>>

WantsLock(w) ==
    /\ Goes(w, "started", "want")
    /\ ~Unique
    /\ UNCHANGED <<session, callback, raw, queued, lock, context, closes, received, handled>>

\* Mutant of Locks: the guard is forgotten.
LocksNothing(w) ==
    /\ Goes(w, "want", "merge")
    /\ lock' = w
    /\ UNCHANGED <<session, callback, raw, queued, context, closes, received, handled>>

Locks(w) ==
    /\ Goes(w, "want", "merge")
    /\ lock = Nobody
    /\ lock' = w
    /\ UNCHANGED <<session, callback, raw, queued, context, closes, received, handled>>

\* The packets are taken, and freed whether they fit or not.
Merge(w) ==
    /\ Goes(w, "merge", "analysis")
    /\ context' = Merged(context, raw)
    /\ raw' = <<>>
    /\ UNCHANGED <<session, callback, queued, lock, closes, received, handled>>

\* The second look at unique(), before the analysis.
Analyses(w) ==
    /\ Goes(w, "analysis", IF Unique THEN "end" ELSE "scan")
    /\ UNCHANGED <<session, callback, raw, queued, lock, context, closes, received,
                   handled>>

-----------------------------------------------------------------------------
(* After run.                                                              *)

\* The worker lets go of the task, and the task of m_context.
Drops(w) ==
    /\ Goes(w, "return", "idle")
    /\ UNCHANGED <<session, callback, raw, queued, lock, context, closes, received,
                   handled>>

\* All of a task but the guard and what it does with the messages.
CommonStep(w) == \/ TakeTask(w) \/ ReturnsAtOnce(w) \/ WantsLock(w)
                 \/ Merge(w) \/ Analyses(w) \/ Drops(w)

LoopThread == (\E p \in Packets : Packet(p)) \/ PushTask \/ Release

Places == {"idle", "started", "want", "merge", "analysis", "scan", "found", "end",
           "return"}

\* One worker at a time is past the guard of m_contextLock.
SessionTypeOK ==
    /\ session \in BOOLEAN /\ closes \in BOOLEAN
    /\ callback \in {"idle", "pushing"}
    /\ queued \in Nat
    /\ at \in [Workers -> Places]
    /\ lock \in Workers \union {Nobody}
    /\ \A w \in Workers : at[w] \in {"merge", "analysis", "scan", "found", "end"}
                              <=> lock = w

\* Nothing is under way.
Quiet == session /\ callback = "idle" /\ queued = 0 /\ Running = {}
=============================================================================
