--------------------------- MODULE ConnectionPool ---------------------------
(***************************************************************************)
(* The per-address connection pool of neobolt (AbstractConnectionPool in  *)
(* src/neobolt/direct.py), used by several threads at once.               *)
(*                                                                         *)
(* The pool's dict `connections` maps an address to a deque object; deque *)
(* objects have identity (a thread in acquire_direct keeps a reference to *)
(* one across cond.wait), so deques are ids in DequeIds with contents dq. *)
(* Connection objects are ids in ConnIds; an id is reused only after the  *)
(* object is garbage (no thread and no reachable deque refers to it).     *)
(*                                                                         *)
(* Every section the code runs under the pool's RLock is one step taken   *)
(* while `lock` is free; the re-entrant calls it makes under that lock    *)
(* (close -> send_all -> pool.deactivate -> remove ...) are recursive      *)
(* state transformers over a record [conn, dq, connections].             *)
(***************************************************************************)
EXTENDS Integers, Sequences, FiniteSets, SequencesExt

CONSTANTS
    Threads,          \* threads sharing the pool (model values)
    Addresses,        \* server addresses (model values)
    MaxPoolSize,      \* max_connection_pool_size; INFINITE = -1
    AcquisitionTimeoutPositive, \* connection_acquisition_timeout > 0
    LifetimeEnabled,  \* max_connection_lifetime >= 0, so timedout() can hold
    ProtocolVersion,  \* Bolt version agreed by every connection (1..3)
    ConnIds,          \* bound: Connection objects alive at once
    DequeIds,         \* bound: deque objects alive at once
    None              \* model value: no thread / no deque / no connection

INFINITE == -1

ASSUME /\ MaxPoolSize \in Int /\ MaxPoolSize >= INFINITE
       /\ AcquisitionTimeoutPositive \in BOOLEAN
       /\ LifetimeEnabled \in BOOLEAN
       /\ ProtocolVersion \in 1..3
       /\ None \notin ConnIds \cup DequeIds \cup Threads

VARIABLES
    lock,         \* holder of the pool's RLock, or None
    poolClosed,   \* AbstractConnectionPool._closed
    connections,  \* the dict: address -> deque id, or None when absent
    dq,           \* deque id -> sequence of connection ids
    conn,         \* connection id -> its flags
    serverUp,     \* address -> the server accepts and answers I/O
    pc,           \* thread -> where it is in its program
    held,         \* thread -> connection it acquired, or None
    local,        \* thread -> the deque bound to `connections` in acquire_direct
    target,       \* thread -> address it acquires
    late,         \* threads whose connection_acquisition_timeout has elapsed
    valueError    \* some pool call has raised ValueError (history)

vars == <<lock, poolClosed, connections, dq, conn, serverUp, pc, held, local,
          target, late, valueError>>

ConnRec == [alloc: BOOLEAN, addr: Addresses, inUse: BOOLEAN, closed: BOOLEAN,
            defunct: BOOLEAN, expired: BOOLEAN]

FreshConn(a) == [alloc |-> TRUE, addr |-> a, inUse |-> TRUE, closed |-> FALSE,
                 defunct |-> FALSE, expired |-> FALSE]

NoConn == [alloc |-> FALSE, addr |-> CHOOSE a \in Addresses : TRUE,
           inUse |-> FALSE, closed |-> FALSE, defunct |-> FALSE,
           expired |-> FALSE]

-----------------------------------------------------------------------------
(* Connection predicates and the re-entrant sections run under the lock.  *)

\* connection.closed() or connection.defunct() or connection.timedout()
Dead(c) == conn[c].closed \/ conn[c].defunct \/ conn[c].expired

\* Connection.close() sends GOODBYE (v3, not defunct) before closing.
SendsGoodbye(s, c) == ~s.conn[c].defunct /\ ProtocolVersion >= 3

RECURSIVE CloseConn(_, _), Deactivate(_, _), DeactivateLoop(_, _, _),
          CloseEach(_, _)

(* Connection.close(): with GOODBYE queued, send_all's sendall fails when  *)
(* the server is gone; send_all then calls pool.deactivate(address) and   *)
(* re-raises the OSError, so socket.close() and `_closed = True` are never *)
(* reached. A ValueError raised by that nested deactivate replaces it.    *)
CloseConn(s, c) ==
    IF s.conn[c].closed THEN [st |-> s, error |-> "none"]
    ELSE IF SendsGoodbye(s, c) /\ ~serverUp[s.conn[c].addr]
    THEN LET r == Deactivate(s, s.conn[c].addr)
         IN  [st |-> r.st,
              error |-> IF r.error = "ValueError" THEN "ValueError" ELSE "OSError"]
    ELSE [st |-> [s EXCEPT !.conn[c].closed = TRUE], error |-> "none"]

(* remove(address): pop the deque, close every connection in it (the      *)
(* deque object itself is left as it was), swallowing IOError.            *)
CloseEach(s, q) ==
    IF q = <<>> THEN s ELSE CloseEach(CloseConn(s, Head(q)).st, Tail(q))

RemoveAddr(s, a) ==
    IF s.connections[a] = None THEN s
    ELSE CloseEach([s EXCEPT !.connections[a] = None], s.dq[s.connections[a]])

(* The loop of deactivate over list(connections): an idle connection is   *)
(* removed from the deque (ValueError when it is no longer there) and     *)
(* closed; IOError from close is swallowed, ValueError is not.            *)
DeactivateLoop(s, d, snap) ==
    IF snap = <<>> THEN [st |-> s, error |-> "none"]
    ELSE LET c == Head(snap) IN
         IF s.conn[c].inUse THEN DeactivateLoop(s, d, Tail(snap))
         ELSE IF ~Contains(s.dq[d], c) THEN [st |-> s, error |-> "ValueError"]
         ELSE LET r == CloseConn([s EXCEPT !.dq[d] = Remove(@, c)], c)
              IN  IF r.error = "ValueError" THEN r
                  ELSE DeactivateLoop(r.st, d, Tail(snap))

\* deactivate(address)
Deactivate(s, a) ==
    IF s.connections[a] = None THEN [st |-> s, error |-> "none"]
    ELSE LET d == s.connections[a]
             r == DeactivateLoop(s, d, s.dq[d])
         IN  IF r.error = "none" /\ r.st.dq[d] = <<>>
             THEN [st |-> RemoveAddr(r.st, a), error |-> "none"]
             ELSE r

\* The element of a singleton. Binding a pool state by \in {s0} evaluates it
\* once, however often the body refers to it.
TheOne(S) == CHOOSE x \in S : TRUE

PoolState == [conn |-> conn, dq |-> dq, connections |-> connections]

\* Which free id a new object gets is immaterial; take the least one.
Least(S) == CHOOSE x \in S : \A y \in S : x <= y

(* Garbage. CPython frees an object when its last reference goes: a       *)
(* connection no thread holds and no live deque (the dict's, or one a     *)
(* thread keeps in acquire_direct) contains is collected, and its         *)
(* __del__ calls close() and swallows whatever that raises. This is the   *)
(* reference-counting view: the inbox's on_error callback puts each       *)
(* connection in a cycle, so CPython may run __del__ later, at a cyclic   *)
(* collection; those later points are not modelled.                       *)
LiveDq(s, l) == ({s.connections[a] : a \in Addresses} \cup {l[t] : t \in Threads})
                    \ {None}

Garbage(s, h, l) ==
    {c \in ConnIds : /\ s.conn[c].alloc
                     /\ \A t \in Threads : h[t] # c
                     /\ \A d \in LiveDq(s, l) : ~Contains(s.dq[d], c)}

RECURSIVE Collect(_, _, _)
Collect(s0, h, l) ==
    TheOne({IF Garbage(s, h, l) = {}
            THEN [s EXCEPT !.dq = [d \in DequeIds |->
                                     IF d \in LiveDq(s, l) THEN @[d] ELSE <<>>]]
            ELSE LET c == Least(Garbage(s, h, l))
                 IN  Collect([CloseConn(s, c).st EXCEPT !.conn[c] = NoConn], h, l)
            : s \in {s0}})

(* A step leaves the pool state s and the thread references h (held) and  *)
(* l (local) behind; what they no longer reach is collected.              *)
Settle(s, h, l) ==
    LET g == Collect(s, h, l) IN
    /\ conn' = g.conn
    /\ dq' = g.dq
    /\ connections' = g.connections
    /\ held' = h
    /\ local' = l

FreeConnIds == {c \in ConnIds : ~conn[c].alloc}

FreeDequeIds == DequeIds \ LiveDq(PoolState, local)

Init ==
    /\ lock = None
    /\ poolClosed = FALSE
    /\ connections = [a \in Addresses |-> None]
    /\ dq = [d \in DequeIds |-> <<>>]
    /\ conn = [c \in ConnIds |-> NoConn]
    /\ serverUp = [a \in Addresses |-> TRUE]
    /\ pc = [t \in Threads |-> "idle"]
    /\ held = [t \in Threads |-> None]
    /\ local = [t \in Threads |-> None]
    /\ target = [t \in Threads |-> CHOOSE a \in Addresses : TRUE]
    /\ late = {}
    /\ valueError = FALSE

-----------------------------------------------------------------------------
(* acquire_direct(address)                                                *)

\* `if self.closed(): raise ServiceUnavailable` -- closed() takes the lock,
\* which is released again before `with self.lock:`.
AcquireBegin(t, a) ==
    /\ pc[t] = "idle"
    /\ lock = None
    /\ target' = [target EXCEPT ![t] = a]
    /\ pc' = [pc EXCEPT ![t] = IF poolClosed THEN "idle"     \* ServiceUnavailable
                                             ELSE "locking"]
    /\ UNCHANGED <<lock, poolClosed, connections, dq, conn, serverUp, held, local, late, valueError>>

\* `with self.lock:` then find or create the deque for the address.
EnterLock(t) ==
    /\ pc[t] = "locking"
    /\ lock = None
    /\ LET a == target[t] IN
       IF connections[a] # None
       THEN /\ local' = [local EXCEPT ![t] = connections[a]]
            /\ UNCHANGED <<connections, dq>>
       ELSE LET d == Least(FreeDequeIds) IN
            /\ FreeDequeIds # {}
            /\ connections' = [connections EXCEPT ![a] = d]
            /\ dq' = [dq EXCEPT ![d] = <<>>]
            /\ local' = [local EXCEPT ![t] = d]
    /\ lock' = t
    /\ pc' = [pc EXCEPT ![t] = "scan"]
    \* connection_acquisition_start_timestamp: a zero timeout is already past.
    /\ late' = IF AcquisitionTimeoutPositive THEN late ELSE late \cup {t}
    /\ UNCHANGED <<poolClosed, conn, serverUp, held, target, valueError>>

\* Faulty variant: the scan ignores in_use.
FirstFreeAnyUse(q) == SelectInSeq(q, LAMBDA c : ~Dead(c))

\* Position of the first connection that is neither dead nor in use, or 0.
FirstFree(q) == SelectInSeq(q, LAMBDA c : ~Dead(c) /\ ~conn[c].inUse)

\* The scan of list(connections) removes every dead connection it passes
\* before it returns the first free one (or reaches the end).
Purged(q) ==
    LET i == FirstFree(q) IN
    IF i = 0 THEN SelectSeq(q, LAMBDA c : ~Dead(c))
    ELSE SelectSeq(SubSeq(q, 1, i - 1), LAMBDA c : ~Dead(c)) \o SubSeq(q, i, Len(q))

\* The pool state once the scan of thread t has purged its deque.
AfterScan(t) == [PoolState EXCEPT !.dq[local[t]] = Purged(@)]

\* Faulty variant: the deque reference outlives the call (kept on an object).
LeftKeepsDeque(t) == local

\* The threads' locals once t leaves acquire_direct (returning or raising).
Left(t) == [local EXCEPT ![t] = None]

\* A free connection is found: mark it in use and return it.
ScanTake(t) ==
    LET c == dq[local[t]][FirstFree(dq[local[t]])] IN
    /\ pc[t] = "scan"
    /\ FirstFree(dq[local[t]]) # 0
    /\ pc' = [pc EXCEPT ![t] = "holding"]
    /\ lock' = None
    /\ Settle([AfterScan(t) EXCEPT !.conn[c].inUse = TRUE],
              [held EXCEPT ![t] = c], Left(t))
    /\ late' = late \ {t}
    /\ UNCHANGED <<poolClosed, serverUp, target, valueError>>

\* can_create_new_connection, evaluated on the purged deque
CanCreate(t) == MaxPoolSize = INFINITE \/ Len(Purged(dq[local[t]])) < MaxPoolSize

NoneFree(t) == pc[t] = "scan" /\ FirstFree(dq[local[t]]) = 0

\* self.connector(address) succeeds: the new connection is appended.
ScanConnect(t) ==
    LET c == Least(FreeConnIds) IN
    /\ NoneFree(t)
    /\ CanCreate(t)
    /\ serverUp[target[t]]
    /\ FreeConnIds # {}
    /\ pc' = [pc EXCEPT ![t] = "holding"]
    /\ lock' = None
    /\ Settle([AfterScan(t) EXCEPT !.conn[c] = FreshConn(target[t]),
                                   !.dq[local[t]] = Append(@, c)],
              [held EXCEPT ![t] = c], Left(t))
    /\ late' = late \ {t}
    /\ UNCHANGED <<poolClosed, serverUp, target, valueError>>

\* The connector raises ServiceUnavailable: remove(address), re-raise.
ScanConnectFail(t) ==
    /\ NoneFree(t)
    /\ CanCreate(t)
    /\ ~serverUp[target[t]]
    /\ pc' = [pc EXCEPT ![t] = "idle"]
    /\ lock' = None
    /\ Settle(RemoveAddr(AfterScan(t), target[t]), held, Left(t))
    /\ late' = late \ {t}
    /\ UNCHANGED <<poolClosed, serverUp, target, valueError>>

\* The connector raises another error (ProtocolError, AuthError,
\* SecurityError, or the raw OSError or AttributeError connect lets out,
\* whether or not the server is up): it propagates, nothing is removed.
ScanConnectError(t) ==
    /\ NoneFree(t)
    /\ CanCreate(t)
    /\ pc' = [pc EXCEPT ![t] = "idle"]
    /\ lock' = None
    /\ Settle(AfterScan(t), held, Left(t))
    /\ late' = late \ {t}
    /\ UNCHANGED <<poolClosed, serverUp, target, valueError>>

\* The deque is full: wait on the condition (span_timeout > 0) ...
ScanWait(t) ==
    /\ NoneFree(t)
    /\ ~CanCreate(t)
    /\ t \notin late
    /\ pc' = [pc EXCEPT ![t] = "waiting"]
    /\ lock' = None
    /\ Settle(AfterScan(t), held, local)
    /\ UNCHANGED <<poolClosed, serverUp, target, late, valueError>>

\* ... or, with no time left, raise ClientError.
ScanGiveUp(t) ==
    /\ NoneFree(t)
    /\ ~CanCreate(t)
    /\ t \in late
    /\ pc' = [pc EXCEPT ![t] = "idle"]
    /\ lock' = None
    /\ Settle(AfterScan(t), held, Left(t))
    /\ late' = late \ {t}
    /\ UNCHANGED <<poolClosed, serverUp, target, valueError>>

\* Faulty variant: cond.wait() without a timeout returns only when notified.
WaitUntilNotified(t) == pc[t] = "waiting" /\ FALSE /\ UNCHANGED vars

\* The acquisition timeout elapses for a thread inside acquire_direct.
DeadlinePasses(t) ==
    /\ pc[t] \in {"scan", "waiting", "notified"}
    /\ t \notin late
    /\ late' = late \cup {t}
    /\ UNCHANGED <<lock, poolClosed, connections, dq, conn, serverUp, pc, held,
                   local, target, valueError>>

\* cond.wait times out; on re-acquiring the lock the elapsed time is at
\* least the acquisition timeout, so ClientError is raised.
WaitTimeout(t) ==
    /\ pc[t] = "waiting"
    /\ t \in late
    /\ lock = None
    /\ pc' = [pc EXCEPT ![t] = "idle"]
    /\ late' = late \ {t}
    /\ Settle(PoolState, held, Left(t))
    /\ UNCHANGED <<lock, poolClosed, serverUp, target, valueError>>

\* A notified waiter re-acquires the lock and compares the elapsed time
\* with the acquisition timeout: rescan, or raise ClientError.
Resume(t) ==
    /\ pc[t] = "notified"
    /\ lock = None
    /\ \/ /\ t \notin late
          /\ pc' = [pc EXCEPT ![t] = "scan"]
          /\ lock' = t
          /\ UNCHANGED <<conn, dq, connections, held, local, late>>
       \/ /\ t \in late
          /\ pc' = [pc EXCEPT ![t] = "idle"]          \* ClientError
          /\ late' = late \ {t}
          /\ UNCHANGED lock
          /\ Settle(PoolState, held, Left(t))
    /\ UNCHANGED <<poolClosed, serverUp, target, valueError>>

-----------------------------------------------------------------------------
(* A thread holding a connection.                                         *)

\* release(connection): clear in_use and notify_all waiters.
Release(t) ==
    /\ pc[t] = "holding"
    /\ lock = None
    /\ pc' = [u \in Threads |->
               IF u = t THEN "idle"
               ELSE IF pc[u] = "waiting" THEN "notified" ELSE pc[u]]
    /\ Settle([PoolState EXCEPT !.conn[held[t]].inUse = FALSE],
              [held EXCEPT ![t] = None], local)
    /\ UNCHANGED <<lock, poolClosed, serverUp, target, late, valueError>>

\* The connection can still do I/O: neither closed nor defunct (send_all and
\* fetch_message otherwise raise at once and touch nothing).
Usable(t) == ~conn[held[t]].closed /\ ~conn[held[t]].defunct

\* Record a ValueError that deactivate raised.
NoteError(r) == valueError' = (valueError \/ r.error = "ValueError")

\* send_all: sendall raises an OSError on a broken socket; the handler calls
\* pool.deactivate(unresolved_address) and re-raises.
SendFail(t) ==
    LET r == Deactivate(PoolState, conn[held[t]].addr) IN
    /\ pc[t] = "holding"
    /\ lock = None
    /\ Usable(t)
    /\ ~serverUp[conn[held[t]].addr]
    /\ NoteError(r)
    /\ Settle(r.st, held, local)
    /\ UNCHANGED <<lock, poolClosed, serverUp, pc, target, late>>

\* fetch_message: recv_into returns 0, the Inbox calls _set_defunct: set
\* _defunct, close() (no GOODBYE on a defunct connection), then
\* pool.deactivate(address), then raise ServiceUnavailable; a ValueError
\* from deactivate escapes fetch_message's handlers instead.
ReceiveFail(t) ==
    LET c == held[t]
        r == Deactivate([PoolState EXCEPT !.conn[c].defunct = TRUE,
                                          !.conn[c].closed = TRUE],
                        conn[c].addr)
    IN /\ pc[t] = "holding"
       /\ lock = None
       /\ Usable(t)
       /\ ~serverUp[conn[c].addr]
       /\ NoteError(r)
       /\ pc' = [pc EXCEPT ![t] = IF r.error = "ValueError" THEN "holding"
                                                          ELSE "redeactivate"]
       /\ Settle(r.st, held, local)
       /\ UNCHANGED <<lock, poolClosed, serverUp, target, late>>

\* fetch_message's `except ServiceUnavailable` handler deactivates again,
\* in a second locked section after _set_defunct's.
DeactivateAgain(t) ==
    LET r == Deactivate(PoolState, conn[held[t]].addr) IN
    /\ pc[t] = "redeactivate"
    /\ lock = None
    /\ NoteError(r)
    /\ pc' = [pc EXCEPT ![t] = "holding"]
    /\ Settle(r.st, held, local)
    /\ UNCHANGED <<lock, poolClosed, serverUp, target, late>>

-----------------------------------------------------------------------------
(* The owner of the pool and the environment.                             *)

RECURSIVE RemoveAll(_, _)
RemoveAll(s, A) ==
    IF A = {} THEN s
    ELSE LET a == CHOOSE x \in A : TRUE IN RemoveAll(RemoveAddr(s, a), A \ {a})

\* close(): set _closed, then remove(address) for every address in the dict.
PoolClose ==
    /\ ~poolClosed
    /\ lock = None
    /\ poolClosed' = TRUE
    /\ Settle(RemoveAll(PoolState, {a \in Addresses : connections[a] # None}),
              held, local)
    /\ UNCHANGED <<lock, serverUp, pc, target, late, valueError>>

\* The server at an address stops answering (or comes back).
ServerDown(a) ==
    /\ serverUp[a]
    /\ serverUp' = [serverUp EXCEPT ![a] = FALSE]
    /\ UNCHANGED <<lock, poolClosed, connections, dq, conn, pc, held, local, target, late, valueError>>

ServerUp(a) ==
    /\ ~serverUp[a]
    /\ serverUp' = [serverUp EXCEPT ![a] = TRUE]
    /\ UNCHANGED <<lock, poolClosed, connections, dq, conn, pc, held, local, target, late, valueError>>

\* max_connection_lifetime passes for a connection: timedout() holds from now on.
Expire(c) ==
    /\ LifetimeEnabled
    /\ conn[c].alloc
    /\ ~conn[c].expired
    /\ conn' = [conn EXCEPT ![c].expired = TRUE]
    /\ UNCHANGED <<lock, poolClosed, connections, dq, serverUp, pc, held, local, target, late, valueError>>

-----------------------------------------------------------------------------

Acquiring(t) ==
    \/ \E a \in Addresses : AcquireBegin(t, a)
    \/ EnterLock(t)
    \/ ScanTake(t) \/ ScanConnect(t) \/ ScanConnectFail(t) \/ ScanConnectError(t)
    \/ ScanWait(t) \/ ScanGiveUp(t) \/ DeadlinePasses(t) \/ WaitTimeout(t)
    \/ Resume(t)

Using(t) == Release(t) \/ SendFail(t) \/ ReceiveFail(t) \/ DeactivateAgain(t)

Environment ==
    \/ PoolClose
    \/ \E a \in Addresses : ServerDown(a) \/ ServerUp(a)
    \/ \E c \in ConnIds : Expire(c)

Next == (\E t \in Threads : Acquiring(t) \/ Using(t)) \/ Environment

(* Inside acquire_direct a thread is not stopped by the user: the locked  *)
(* sections run to their end, cond.wait(timeout) returns when its timeout *)
(* passes, and the lock, released by every other section after a finite  *)
(* step, is eventually granted to a thread that keeps asking for it.      *)
(* Time passes, so the acquisition timeout of a waiting thread elapses.   *)
(* Releasing a connection is up to the user and is not assumed.           *)
Fairness ==
    \A t \in Threads :
        /\ SF_vars(EnterLock(t) \/ Resume(t) \/ WaitTimeout(t))
        /\ WF_vars(ScanTake(t) \/ ScanConnect(t) \/ ScanConnectFail(t)
                   \/ ScanConnectError(t) \/ ScanWait(t) \/ ScanGiveUp(t))
        /\ WF_vars(DeadlinePasses(t))

Spec == Init /\ [][Next]_vars /\ Fairness

-----------------------------------------------------------------------------
(* The pool as its users see it (PoolContract): a thread inside           *)
(* acquire_direct is acquiring, one that returned with a connection holds *)
(* it until release; a connection is dead once closed, defunct, expired or *)
(* freed.                                                                  *)

UserState(t) ==
    CASE pc[t] = "idle" -> "idle"
      [] pc[t] \in {"holding", "redeactivate"} -> "holding"
      [] OTHER -> "acquiring"

DeadConns == {c \in ConnIds : ~conn[c].alloc \/ Dead(c)}

Contract == INSTANCE PoolContract
              WITH Conns <- ConnIds,
                   state <- [t \in Threads |-> UserState(t)],
                   owner <- held,
                   dead <- DeadConns

-----------------------------------------------------------------------------
(* Properties                                                             *)

PC == {"idle", "locking", "scan", "waiting", "notified", "holding", "redeactivate"}

\* Every variable has its type, and a thread's locals match where it is:
\* it holds a connection exactly while it uses one, and keeps a deque
\* exactly while it is inside acquire_direct.
TypeOK ==
    /\ lock \in Threads \cup {None}
    /\ poolClosed \in BOOLEAN
    /\ connections \in [Addresses -> DequeIds \cup {None}]
    /\ dq \in [DequeIds -> Seq(ConnIds)]
    /\ conn \in [ConnIds -> ConnRec]
    /\ serverUp \in [Addresses -> BOOLEAN]
    /\ pc \in [Threads -> PC]
    /\ valueError \in BOOLEAN
    /\ target \in [Threads -> Addresses]
    /\ late \subseteq {t \in Threads : pc[t] \in {"scan", "waiting", "notified"}}
    /\ \A t \in Threads :
         /\ (held[t] # None) = (pc[t] \in {"holding", "redeactivate"})
         /\ held[t] \in ConnIds \cup {None}
         /\ (local[t] # None) = (pc[t] \in {"scan", "waiting", "notified"})
         /\ local[t] \in DequeIds \cup {None}
         /\ (lock = t) = (pc[t] = "scan")

\* The in_use flag, set and cleared under the lock by acquire_direct and
\* release, is a token of exclusive ownership: no two threads hold the same
\* connection, and a held connection is marked in use.
ExclusiveOwnership ==
    /\ \A t, u \in Threads : t # u /\ held[t] # None => held[t] # held[u]
    /\ \A t \in Threads : held[t] # None => conn[held[t]].inUse

\* Every call of acquire_direct returns a connection or raises: no thread
\* waits for a connection forever, whatever the holders do.
AcquireCompletes ==
    \A t \in Threads :
        pc[t] \in {"locking", "scan", "waiting", "notified"} ~>
            pc[t] \in {"idle", "holding"}

\* The pool implements its contract: every acquire_direct is answered, and
\* a connection it hands out is alive and held by no other thread; a held
\* connection is never recycled, and it stays held until release.
ImplementsContract == Contract!Spec

\* Spec 4.6/8: after pool.close(), acquire_direct raises ServiceUnavailable;
\* no acquire may hand out a connection once the pool is closed.
NoAcquireAfterClose ==
    [][poolClosed => \A t \in Threads : ~(pc[t] = "scan" /\ pc'[t] = "holding")]_vars

\* max_connection_pool_size bounds the connections to an address that
\* threads hold at once, counting only live ones (not closed, not
\* defunct, within their lifetime).
LiveConnectionCap ==
    MaxPoolSize # INFINITE =>
        \A a \in Addresses :
            Cardinality({t \in Threads : held[t] # None
                                        /\ conn[held[t]].addr = a
                                        /\ ~Dead(held[t])}) <= MaxPoolSize

\* deactivate(address) closes the idle connections of an address and
\* raises nothing but what close() raises and swallows; it never raises
\* ValueError from deque.remove.
DeactivateNeverRaises == ~valueError

=============================================================================
