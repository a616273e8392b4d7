----------------------------- MODULE Connection -----------------------------
(***************************************************************************)
(* One neobolt Connection (src/neobolt/direct.py) and the Bolt server at   *)
(* the other end of its socket.                                            *)
(*                                                                         *)
(* The user thread that acquired the connection calls run, pull_all,       *)
(* discard_all, begin, commit, rollback, reset, send_all, fetch_all and    *)
(* close. Each call that only appends is one step. fetch_all is a frame on *)
(* `stack` that takes one message per step, because the server, a          *)
(* separate process, answers concurrently. Response.on_failure calls       *)
(* reset(), which sends RESET and runs a nested fetch_all before the       *)
(* failure is raised; that nested fetch_all is a further frame.            *)
(*                                                                         *)
(* A message is a request id and a kind; a Response is an id and its      *)
(* class. Payloads, metadata and the handlers' arguments are left out.     *)
(***************************************************************************)
EXTENDS Integers, Sequences, FiniteSets, SequencesExt

CONSTANTS
    Versions,         \* the Bolt versions the connection may have agreed
    UserRequests,     \* bound on the requests the user appends
    MaxFailures,      \* bound on the FAILURE replies of the server
    ResetMayFail,     \* the server may answer RESET with FAILURE
    MaxBookmarks,     \* bound on the length of the bookmark lists of begin
    None

ASSUME /\ Versions \subseteq {1, 2, 3}
       /\ UserRequests \in Nat /\ MaxFailures \in Nat
       /\ ResetMayFail \in BOOLEAN /\ MaxBookmarks \in Nat

VARIABLES
    protocol_version,  \* Connection.protocol_version, fixed by the handshake
    outbox,     \* messages packed into the Outbox and not yet sent
    responses,  \* the `responses` deque: Response records, or None
    wire,       \* messages sent that the server has not yet processed
    inbound,    \* messages the server sent that the Inbox has not read
    dropped,    \* the server has closed the socket
    srvFailed,  \* the server is in its FAILED state (until RESET)
    failures,   \* FAILURE replies sent so far
    closed,     \* Connection._closed
    defunct,    \* Connection._defunct
    stack,      \* the fetch_all frames of the running call, innermost last
    result,     \* how the user's last call ended
    skipped,    \* responses whose failure was received but never reported
    nextId      \* id of the next request

vars == <<protocol_version, outbox, responses, wire, inbound, dropped, srvFailed, failures,
          closed, defunct, stack, result, skipped, nextId>>

\* Request kinds, as far as the server treats them differently.
Kinds == {"pull", "reset", "goodbye", "other"}

\* Response classes: Response, CommitResponse, and the Response of RESET
\* whose on_failure handler is `fail`.
Classes == {"plain", "commit", "reset"}

Results == {"none", "running", "ok", "CypherError", "ProtocolError",
            "ServiceUnavailable", "IncompleteCommitError", "OSError",
            "AttributeError", "ValueError"}

\* User calls take ids 1..UserRequests; each FAILURE adds at most one RESET.
MaxId == UserRequests + MaxFailures

-----------------------------------------------------------------------------
(* Outbox and response queue                                              *)

\* A request as packed into the Outbox: its id, its kind and, for the RUN
\* "BEGIN" of v1, the `extra` map; the other fields are left out (None).
Request(id, kind, extra) == [id |-> id, kind |-> kind, extra |-> extra]

\* _append(signature, fields, response): pack the message into the Outbox
\* and push `response` onto the deque, even when it is None (GOODBYE).
Append1(kind, cls) ==
    /\ outbox' = Append(outbox, Request(nextId, kind, None))
    /\ responses' = Append(responses,
                           IF cls = None THEN None ELSE [id |-> nextId, cls |-> cls])
    /\ nextId' = nextId + 1

\* Two _append calls in one step (the v1/v2 RUN + DISCARD_ALL pairs); the
\* first request carries `extra1`.
Append2(kind1, extra1, cls1, kind2, cls2) ==
    /\ outbox' = outbox \o <<Request(nextId, kind1, extra1),
                             Request(nextId + 1, kind2, None)>>
    /\ responses' = responses \o <<[id |-> nextId, cls |-> cls1],
                                   [id |-> nextId + 1, cls |-> cls2]>>
    /\ nextId' = nextId + 2

\* Faulty variant: the Outbox is cleared even when sendall raises.
SendOutcomesClearAlways(ob) ==
    IF ob = <<>> THEN {[ob |-> ob, sent |-> <<>>, error |-> "none"]}
    ELSE IF closed \/ defunct
    THEN {[ob |-> ob, sent |-> <<>>, error |-> "ServiceUnavailable"]}
    ELSE {[ob |-> <<>>, sent |-> ob, error |-> "none"]}
         \cup (IF dropped THEN {[ob |-> <<>>, sent |-> <<>>, error |-> "OSError"]}
               ELSE {})

\* The outcomes of send_all on a given outbox: the new outbox, the
\* messages put on the wire, and the error raised ("none" when it returns).
\* An empty view returns at once; a closed or defunct connection raises
\* ServiceUnavailable; sendall on a socket the server has closed may still
\* succeed into the kernel buffer, or raise OSError, which send_all
\* re-raises after pool.deactivate, leaving the Outbox uncleared.
SendOutcomes(ob) ==
    IF ob = <<>> THEN {[ob |-> ob, sent |-> <<>>, error |-> "none"]}
    ELSE IF closed \/ defunct
    THEN {[ob |-> ob, sent |-> <<>>, error |-> "ServiceUnavailable"]}
    ELSE {[ob |-> <<>>, sent |-> ob, error |-> "none"]}
         \cup (IF dropped THEN {[ob |-> ob, sent |-> <<>>, error |-> "OSError"]}
               ELSE {})

\* A user call may start only when no call is running.
Idle == stack = <<>>

UserStep(n) == Idle /\ nextId + n <= UserRequests + 1

-----------------------------------------------------------------------------
(* Calls that append only                                                 *)

\* run(statement, ...): a CommitResponse when statement.upper() == "COMMIT".
Run(isCommit) ==
    /\ UserStep(1)
    /\ Append1("other", IF isCommit THEN "commit" ELSE "plain")
    /\ result' = "ok"
    /\ UNCHANGED <<wire, inbound, dropped, srvFailed, failures, closed, defunct,
                   stack, skipped>>

\* pull_all and discard_all.
PullAll ==
    /\ UserStep(1)
    /\ Append1("pull", "plain")
    /\ result' = "ok"
    /\ UNCHANGED <<wire, inbound, dropped, srvFailed, failures, closed, defunct,
                   stack, skipped>>

DiscardAll ==
    /\ UserStep(1)
    /\ Append1("other", "plain")
    /\ result' = "ok"
    /\ UNCHANGED <<wire, inbound, dropped, srvFailed, failures, closed, defunct,
                   stack, skipped>>

\* Bookmarks "a:1", "b:2" and "z:x": `int` tells whether int() accepts
\* the text after the last colon, `n` is its value.
Bookmarks == {[name |-> "a", int |-> TRUE, n |-> 1],
              [name |-> "b", int |-> TRUE, n |-> 2],
              [name |-> "z", int |-> FALSE, n |-> 0]}

\* The bookmark lists begin is given (an empty one is falsy, like None).
BookmarkLists == UNION {[1..k -> Bookmarks] : k \in 0..MaxBookmarks}

\* Faulty variant: the comparison reversed, keeping the smaller number.
LastBookmarkOfTwoReversed(b0, b1) ==
    IF ~b0.int \/ ~b1.int THEN [raised |-> TRUE, value |-> None]
    ELSE [raised |-> FALSE, value |-> IF b0.n < b1.n THEN b0 ELSE b1]

\* _last_bookmark(b0, b1): int() of both suffixes (ValueError if either is
\* not an integer), then b0 if its number is greater, else b1.
LastBookmarkOfTwo(b0, b1) ==
    IF ~b0.int \/ ~b1.int THEN [raised |-> TRUE, value |-> None]
    ELSE [raised |-> FALSE, value |-> IF b0.n > b1.n THEN b0 ELSE b1]

\* last_bookmark(bookmarks): `last` starts as None, takes the first
\* bookmark, then _last_bookmark(last, bookmark) of each next one; a
\* ValueError ends the loop.
RECURSIVE LastBookmarkFrom(_, _)
LastBookmarkFrom(last, bs) ==
    IF bs = <<>> THEN [raised |-> FALSE, value |-> last]
    ELSE IF last = None THEN LastBookmarkFrom(Head(bs), Tail(bs))
    ELSE LET r == LastBookmarkOfTwo(last, Head(bs)) IN
         IF r.raised THEN r ELSE LastBookmarkFrom(r.value, Tail(bs))

last_bookmark(bs) == LastBookmarkFrom(None, bs)

\* begin(bookmarks=bs): BEGIN in v3 (its extra map left out). Otherwise
\* RUN "BEGIN" with extra {"bookmarks": bs}, plus in v1 "bookmark":
\* last_bookmark(bs), which runs first and may raise ValueError before
\* anything is appended; then DISCARD_ALL.
Begin(bs) ==
    LET lb == last_bookmark(bs)
        extra == IF bs = <<>> THEN None
                 ELSE [bookmark |-> IF protocol_version < 2 THEN lb.value ELSE None,
                       bookmarks |-> bs]
    IN
    \/ /\ protocol_version >= 3
       /\ UserStep(1) /\ Append1("other", "plain")
       /\ result' = "ok"
       /\ UNCHANGED <<wire, inbound, dropped, srvFailed, failures, closed, defunct,
                   stack, skipped>>
    \/ /\ protocol_version < 3
       /\ ~(protocol_version < 2 /\ lb.raised)
       /\ UserStep(2) /\ Append2("other", extra, "plain", "other", "plain")
       /\ result' = "ok"
       /\ UNCHANGED <<wire, inbound, dropped, srvFailed, failures, closed, defunct,
                   stack, skipped>>
    \/ /\ protocol_version < 2 /\ lb.raised
       /\ Idle
       /\ result' = "ValueError"
       /\ UNCHANGED <<outbox, responses, wire, inbound, dropped, srvFailed,
                      failures, closed, defunct, stack, skipped, nextId>>

\* rollback: ROLLBACK in v3, else run("ROLLBACK") and DISCARD_ALL.
Rollback ==
    /\ IF protocol_version >= 3
       THEN UserStep(1) /\ Append1("other", "plain")
       ELSE UserStep(2) /\ Append2("other", None, "plain", "other", "plain")
    /\ result' = "ok"
    /\ UNCHANGED <<wire, inbound, dropped, srvFailed, failures, closed, defunct,
                   stack, skipped>>

\* commit: COMMIT with a CommitResponse in v3, else run("COMMIT") (a
\* CommitResponse) followed by DISCARD_ALL (a plain Response).
Commit ==
    /\ IF protocol_version >= 3
       THEN UserStep(1) /\ Append1("other", "commit")
       ELSE UserStep(2) /\ Append2("other", None, "commit", "other", "plain")
    /\ result' = "ok"
    /\ UNCHANGED <<wire, inbound, dropped, srvFailed, failures, closed, defunct,
                   stack, skipped>>

-----------------------------------------------------------------------------
(* send_all, reset, fetch_all                                              *)

\* The failed responses whose on_failure is waiting for a nested reset().
Owed(frames) == {f.failed : f \in ToSet(frames)} \ {None}

\* An exception leaves every frame of the running call: the on_failure
\* calls waiting in them never reach their handlers.
Unwind(err, extra) ==
    /\ stack' = <<>>
    /\ result' = err
    /\ skipped' = skipped \cup Owed(stack) \cup extra

\* The send_all of a user call.
SendAll ==
    /\ Idle
    /\ \E o \in SendOutcomes(outbox) :
          /\ outbox' = o.ob
          /\ wire' = wire \o o.sent
          /\ result' = IF o.error = "none" THEN "ok" ELSE o.error
    /\ UNCHANGED <<responses, inbound, dropped, srvFailed, failures, closed,
                   defunct, stack, skipped, nextId>>

\* Faulty variant: reset() sends RESET but does not drain the replies.
ResetSkipsFetch(rs, failed) ==
    LET ob == Append(outbox, Request(nextId, "reset", None)) IN
    /\ responses' = Append(rs, [id |-> nextId, cls |-> "reset"])
    /\ nextId' = nextId + 1
    /\ \E o \in SendOutcomes(ob) :
          /\ outbox' = o.ob
          /\ wire' = wire \o o.sent
          /\ IF failed.id = None /\ o.error = "none"
             THEN stack' = stack /\ result' = "ok" /\ UNCHANGED skipped
             ELSE Unwind(IF o.error # "none" THEN o.error
                         ELSE IF failed.cls = "reset" THEN "ProtocolError"
                         ELSE "CypherError", {})

\* reset() after the deque has become rs: append RESET (its Response's
\* on_failure handler is `fail`), send_all, then run fetch_all as a new
\* frame; `failed` is the response whose on_failure called reset(), if any.
ResetCall(rs, failed) ==
    LET ob == Append(outbox, Request(nextId, "reset", None)) IN
    /\ responses' = Append(rs, [id |-> nextId, cls |-> "reset"])
    /\ nextId' = nextId + 1
    /\ \E o \in SendOutcomes(ob) :
          /\ outbox' = o.ob
          /\ wire' = wire \o o.sent
          /\ IF o.error = "none"
             THEN /\ stack' = Append(stack, [failed |-> failed.id, cls |-> failed.cls])
                  /\ result' = "running"
                  /\ UNCHANGED skipped
             ELSE Unwind(o.error, {failed.id} \ {None})

\* The user calls reset().
Reset ==
    /\ UserStep(1)
    /\ ResetCall(responses, [id |-> None, cls |-> None])
    /\ UNCHANGED <<inbound, dropped, srvFailed, failures, closed, defunct>>

\* The user calls fetch_all() (sync() is SendAll then FetchAll).
FetchAll ==
    /\ Idle
    /\ stack' = <<[failed |-> None, cls |-> None]>>
    /\ result' = "running"
    /\ UNCHANGED <<outbox, responses, wire, inbound, dropped, srvFailed,
                   failures, closed, defunct, skipped, nextId>>

\* fetch_message on a connection whose frame still has responses to wait for.
Fetching == stack # <<>> /\ responses # <<>>

\* Faulty variant: fetch_message without its closed/defunct checks reads
\* the closed socket, which never delivers a message.
FetchDeadUnchecked == Fetching /\ Head(responses) # None /\ (closed \/ defunct) /\ FALSE /\ UNCHANGED vars

\* fetch_message: a closed or defunct connection raises at once.
FetchDead ==
    /\ Fetching
    /\ Head(responses) # None
    /\ closed \/ defunct
    /\ Unwind("ServiceUnavailable", {})
    /\ UNCHANGED <<outbox, responses, wire, inbound, dropped, srvFailed,
                   failures, closed, defunct, nextId>>

Readable == Fetching /\ Head(responses) # None /\ ~closed /\ ~defunct /\ inbound # <<>>

\* A RECORD goes to the head response's on_records; nothing is popped.
ReadRecord ==
    /\ Readable
    /\ Head(inbound).msg = "RECORD"
    /\ inbound' = Tail(inbound)
    /\ UNCHANGED <<outbox, responses, wire, dropped, srvFailed, failures,
                   closed, defunct, stack, result, skipped, nextId>>

\* fetch_all reads `response.complete` on the head of the deque before it
\* calls fetch_message: the None that GOODBYE pushed raises AttributeError.
FetchOnNone ==
    /\ Fetching
    /\ Head(responses) = None
    /\ Unwind("AttributeError", {})
    /\ UNCHANGED <<outbox, responses, wire, inbound, dropped, srvFailed,
                   failures, closed, defunct, nextId>>

\* SUCCESS or IGNORED: on_success / on_ignored, then on_summary.
ReadSuccess ==
    /\ Readable
    /\ Head(inbound).msg \in {"SUCCESS", "IGNORED"}
    /\ inbound' = Tail(inbound)
    /\ responses' = Tail(responses)
    /\ UNCHANGED <<outbox, wire, dropped, srvFailed, failures, closed, defunct,
                   stack, result, skipped, nextId>>

\* FAILURE: Response.on_failure first calls connection.reset().
ReadFailure ==
    /\ Readable
    /\ Head(inbound).msg = "FAILURE"
    /\ inbound' = Tail(inbound)
    /\ ResetCall(Tail(responses), Head(responses))
    /\ UNCHANGED <<dropped, srvFailed, failures, closed, defunct>>

\* The Inbox's recv_into returns 0: _set_defunct sets _defunct, closes
\* (no GOODBYE on a defunct connection), and raises IncompleteCommitError
\* if any outstanding response is a CommitResponse, else ServiceUnavailable.

CommitPending(rs) == \E i \in 1..Len(rs) : rs[i] # None /\ rs[i].cls = "commit"

\* Faulty variant: _set_defunct sets _defunct but does not close.
ReadEofNoClose ==
    /\ Fetching
    /\ Head(responses) # None
    /\ ~closed /\ ~defunct
    /\ inbound = <<>>
    /\ dropped
    /\ defunct' = TRUE
    /\ Unwind(IF CommitPending(responses) THEN "IncompleteCommitError"
              ELSE "ServiceUnavailable", {})
    /\ UNCHANGED <<outbox, responses, wire, inbound, dropped, srvFailed,
                   failures, closed, nextId>>

ReadEof ==
    /\ Fetching
    /\ Head(responses) # None
    /\ ~closed /\ ~defunct
    /\ inbound = <<>>
    /\ dropped
    /\ defunct' = TRUE
    /\ closed' = TRUE
    /\ Unwind(IF CommitPending(responses) THEN "IncompleteCommitError"
              ELSE "ServiceUnavailable", {})
    /\ UNCHANGED <<outbox, responses, wire, inbound, dropped, srvFailed,
                   failures, nextId>>

\* The innermost fetch_all finds the deque empty and returns. For the
\* user's own fetch_all the call ends; for a nested one, reset() returns
\* to on_failure, which calls the on_failure and on_summary handlers and
\* raises: ProtocolError through `fail` for a RESET, else CypherError.
FetchReturn ==
    /\ stack # <<>>
    /\ responses = <<>>
    /\ LET f == Last(stack) IN
       IF f.failed = None
       THEN /\ stack' = <<>>
            /\ result' = "ok"
            /\ UNCHANGED skipped
       ELSE /\ stack' = <<>>
            /\ result' = IF f.cls = "reset" THEN "ProtocolError" ELSE "CypherError"
            /\ skipped' = skipped \cup Owed(Front(stack))
    /\ UNCHANGED <<outbox, responses, wire, inbound, dropped, srvFailed,
                   failures, closed, defunct, nextId>>

\* close(): unless closed, send GOODBYE (v3, not defunct), swallowing
\* ServiceUnavailable only; an OSError from send_all escapes before
\* `_closed = True`.
Close ==
    /\ Idle
    /\ ~closed
    /\ IF ~defunct /\ protocol_version >= 3
       THEN /\ UserStep(1)
            /\ responses' = Append(responses, None)
            /\ nextId' = nextId + 1
            /\ \E o \in SendOutcomes(Append(outbox, Request(nextId, "goodbye", None))) :
                  /\ outbox' = o.ob
                  /\ wire' = wire \o o.sent
                  /\ closed' = (o.error # "OSError")
                  /\ result' = IF o.error = "OSError" THEN "OSError" ELSE "ok"
       ELSE /\ closed' = TRUE
            /\ result' = "ok"
            /\ UNCHANGED <<outbox, responses, wire, nextId>>
    /\ UNCHANGED <<inbound, dropped, srvFailed, failures, defunct, stack, skipped>>

-----------------------------------------------------------------------------
(* The Bolt server: it answers the requests in the order they arrive. A   *)
(* request that fails puts it in the FAILED state, in which it IGNOREs     *)
(* every request until a RESET; PULL_ALL streams a RECORD before SUCCESS;  *)
(* GOODBYE closes the socket. It may also close the socket at any time.    *)

Reply(m, id) == [msg |-> m, req |-> id]

ServerReply ==
    LET q == Head(wire) IN
    /\ wire # <<>>
    /\ ~dropped
    /\ wire' = Tail(wire)
    /\ CASE q.kind = "goodbye" ->
              /\ dropped' = TRUE
              /\ UNCHANGED <<inbound, srvFailed, failures>>
         [] q.kind = "reset" ->
              \/ /\ inbound' = Append(inbound, Reply("SUCCESS", q.id))
                 /\ srvFailed' = FALSE
                 /\ UNCHANGED <<dropped, failures>>
              \/ /\ ResetMayFail /\ failures < MaxFailures
                 /\ inbound' = Append(inbound, Reply("FAILURE", q.id))
                 /\ failures' = failures + 1
                 /\ UNCHANGED <<dropped, srvFailed>>
         [] srvFailed ->
              /\ inbound' = Append(inbound, Reply("IGNORED", q.id))
              /\ UNCHANGED <<dropped, srvFailed, failures>>
         [] OTHER ->
              \/ /\ inbound' = inbound \o (IF q.kind = "pull"
                                           THEN <<Reply("RECORD", q.id), Reply("SUCCESS", q.id)>>
                                           ELSE <<Reply("SUCCESS", q.id)>>)
                 /\ UNCHANGED <<dropped, srvFailed, failures>>
              \/ /\ failures < MaxFailures
                 /\ inbound' = Append(inbound, Reply("FAILURE", q.id))
                 /\ srvFailed' = TRUE
                 /\ failures' = failures + 1
                 /\ UNCHANGED dropped
    /\ UNCHANGED <<outbox, responses, closed, defunct, stack, result, skipped, nextId>>

\* The server closes the socket; what it already sent stays readable.
ServerDrop ==
    /\ ~dropped
    /\ dropped' = TRUE
    /\ UNCHANGED <<outbox, responses, wire, inbound, srvFailed, failures, closed,
                   defunct, stack, result, skipped, nextId>>

-----------------------------------------------------------------------------

\* A connection just returned by connect(): the handshake and INIT/HELLO
\* have completed, nothing is queued.
Init ==
    /\ protocol_version \in Versions
    /\ outbox = <<>>
    /\ responses = <<>>
    /\ wire = <<>>
    /\ inbound = <<>>
    /\ dropped = FALSE
    /\ srvFailed = FALSE
    /\ failures = 0
    /\ closed = FALSE
    /\ defunct = FALSE
    /\ stack = <<>>
    /\ result = "none"
    /\ skipped = {}
    /\ nextId = 1

UserCall ==
    \/ \E isCommit \in BOOLEAN : Run(isCommit)
    \/ PullAll \/ DiscardAll \/ Commit \/ Rollback
    \/ \E bs \in BookmarkLists : Begin(bs)
    \/ SendAll \/ Reset \/ FetchAll \/ Close

FetchStep ==
    \/ FetchOnNone \/ FetchDead \/ ReadRecord \/ ReadSuccess
    \/ ReadFailure \/ ReadEof \/ FetchReturn

Server == ServerReply \/ ServerDrop

Next == (UserCall \/ FetchStep \/ Server) /\ UNCHANGED protocol_version

(* Inside fetch_all the user thread keeps reading: a fetch step that can   *)
(* be taken is taken. The server answers what it receives (the socket has *)
(* no read timeout, so without this a fetch_all may block for ever).      *)
Fairness == WF_vars(FetchStep /\ UNCHANGED protocol_version)
            /\ WF_vars(ServerReply /\ UNCHANGED protocol_version)

Spec == Init /\ [][Next]_vars /\ Fairness

-----------------------------------------------------------------------------
(* Properties                                                             *)

Msg == [msg : {"RECORD", "SUCCESS", "FAILURE", "IGNORED"}, req : 1..MaxId]

Extra == [bookmark : Bookmarks \cup {None}, bookmarks : BookmarkLists]

Req == [id : 1..MaxId, kind : Kinds, extra : Extra \cup {None}]

\* Every variable has its type.
TypeOK ==
    /\ outbox \in Seq(Req)
    /\ \A i \in 1..Len(responses) :
          responses[i] = None \/ responses[i] \in [id : 1..MaxId, cls : Classes]
    /\ wire \in Seq(Req)
    /\ inbound \in Seq(Msg)
    /\ {dropped, srvFailed, closed, defunct} \subseteq BOOLEAN
    /\ failures \in 0..MaxFailures
    /\ \A i \in 1..Len(stack) :
          stack[i].failed \in 1..MaxId \cup {None}
    /\ result \in Results
    /\ skipped \subseteq 1..MaxId
    /\ nextId \in 1..MaxId + 1
    /\ defunct => closed

\* The ids of a sequence of requests that expect a reply (all but GOODBYE),
\* and of the summaries among a sequence of replies.
Ids(s) == LET t == SelectSeq(s, LAMBDA m : m.kind # "goodbye") IN
          [i \in 1..Len(t) |-> t[i].id]

SummaryIds(s) == LET t == SelectSeq(s, LAMBDA m : m.msg # "RECORD") IN
                 [i \in 1..Len(t) |-> t[i].req]

QueuedIds == LET t == SelectSeq(responses, LAMBDA r : r # None) IN
             [i \in 1..Len(t) |-> t[i].id]

\* The deque of pending responses stays aligned with the conversation:
\* its entries are, in order, the requests whose summary is waiting in the
\* Inbox, then those on their way to or at the server, then those still in
\* the Outbox. So the summary fetch_message pops always belongs to the
\* request of the response it dispatches to, through failures, nested
\* RESETs, failed sends and drops.
QueueMatchesWire ==
    QueuedIds = SummaryIds(inbound) \o Ids(wire) \o Ids(outbox)

\* on_failure resets before it raises: when a CypherError reaches the
\* user, every queued request has been answered and the server has left
\* its FAILED state, so the connection is ready for the next request.
FailureLeavesConnectionReady ==
    [][stack # <<>> /\ result' = "CypherError" =>
          /\ responses' = <<>>
          /\ wire' = <<>> /\ inbound' = <<>>
          /\ ~srvFailed']_vars

\* A fetch_all running with nothing left unsent (the user's after
\* send_all, or the one reset() runs after its send_all) returns or raises.
\* With requests still in the Outbox it waits for replies to messages the
\* server never got, and blocks for ever.
FetchReturns == stack # <<>> /\ outbox = <<>> ~> stack = <<>>

\* Spec 4.5: on_success, on_failure and on_ignored each call on_summary,
\* "guaranteeing a terminal callback": no response whose FAILURE was
\* received goes without its on_failure/on_summary handlers.
TerminalCallbackGuaranteed == skipped = {}

\* Spec 4.4: the v1 BEGIN carries as `bookmark` the bookmark of its list
\* with the greatest integer suffix. Every RUN "BEGIN" in the Outbox or on
\* the wire whose bookmarks all end in an integer carries one of them as
\* `bookmark`, and none of the others has a greater number.
BeginCarriesLatestBookmark ==
    \A r \in ToSet(outbox \o wire) :
        /\ r.extra # None
        /\ r.extra.bookmark # None
        /\ \A c \in ToSet(r.extra.bookmarks) : c.int
        => /\ r.extra.bookmark \in ToSet(r.extra.bookmarks)
           /\ \A c \in ToSet(r.extra.bookmarks) : c.n <= r.extra.bookmark.n

\* Spec 4.4: when `response` is None (GOODBYE) _append pushes nothing, so
\* fetch_all never finds a None at the head of the deque: a fetch_all after
\* close() reaches fetch_message, which fails fast on the closed connection.
FetchAllNeverMeetsNone == result # "AttributeError"

====
