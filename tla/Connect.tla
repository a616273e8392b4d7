------------------------------ MODULE Connect ------------------------------
(***************************************************************************)
(* connect(address) of src/neobolt/direct.py: for each resolved address,   *)
(* _connect opens a TCP socket, _secure optionally wraps it in TLS,        *)
(* _handshake sends the preamble and the four version proposals, polls    *)
(* with select until the socket is readable, reads the 4-byte reply once, *)
(* and builds a Connection that sends INIT (v1/v2) or HELLO (v3) and waits *)
(* for its reply. An attempt that raises is remembered in last_error and   *)
(* the next address is tried.                                              *)
(*                                                                         *)
(* The server of each attempt is a process: it may reply to the handshake *)
(* in several TCP segments, send a short garbled reply, close the socket  *)
(* at any point, and answer INIT/HELLO with SUCCESS or FAILURE. Socket     *)
(* options, host names, certificates and messages are left out.           *)
(***************************************************************************)
EXTENDS Integers, Sequences, SequencesExt, ServerInfo

CONSTANTS
    MaxAddresses   \* bound on the addresses the resolver returns

ASSUME MaxAddresses \in Nat

VARIABLES
    n,          \* number of resolved addresses
    tls,        \* an SSL context was configured (security_plan.ssl_context)
    authOk,     \* the auth config is accepted by Connection.__init__
    i,          \* the address being tried (0 before the first)
    phase,      \* where connect is
    sock,       \* the socket of the current attempt: "none", "open", "closed"
    version,    \* the version the Connection was built with
    initMsg,    \* INIT or HELLO, once sent
    errors,     \* the error each failed attempt raised, in order
    outcome,    \* what connect returned or raised
    srvClosed,  \* the server has closed its end
    replyLen,   \* length of the server's handshake reply (0: none yet)
    reply,      \* the value of a 4-byte reply
    avail,      \* reply bytes received and not yet read
    initReply,  \* the server's answer to INIT/HELLO
    agent,      \* ServerInfo.metadata["server"] of this attempt's Connection
    supports_bytes \* packer.supports_bytes, set after INIT/HELLO succeeded

vars == <<n, tls, authOk, i, phase, sock, version, initMsg, errors, outcome, srvClosed, replyLen, reply, avail, initReply,
         agent, supports_bytes>>

cfg == <<n, tls, authOk>>
srv == <<srvClosed, replyLen, reply, avail, initReply, agent>>

\* The handshake replies that matter: versions 0..3, 0x48545450 (ASCII
\* "HTTP"), and 4 standing for any other value.
HTTP == 1213486160
Replies == {0, 1, 2, 3, 4, HTTP}

Errors == {"ServiceUnavailable", "ProtocolError", "SecurityError",
           "AuthError", "OSError", "AttributeError", "TypeError"}

\* The agents a server may report in its SUCCESS metadata: none, another
\* product, and Neo4j versions below, at and above 3.2, one with a
\* pre-release suffix, and a development build ("Neo4j/dev").
Agents ==
    {None, [product |-> "Other", tokens |-> <<"1", "0">>]}
    \cup {[product |-> "Neo4j", tokens |-> t] :
           t \in {<<"3", "1", "9">>, <<"3", "2">>, <<"3", "5", "0">>,
                  <<"4", "0", "0", "alpha01">>, <<"dev">>}}

Phases == {"next", "connect", "secure", "handshake", "select", "recv",
           "init", "initwait", "returned", "raised"}

-----------------------------------------------------------------------------
(* The client                                                              *)

\* The current attempt raises err, leaving its socket in state s. connect
\* catches every Exception into last_error and goes on with the next one.
Fail(err, s) ==
    /\ errors' = Append(errors, err)
    /\ sock' = s
    /\ phase' = "next"
    /\ UNCHANGED outcome

Goto(p) == phase' = p

\* A new attempt talks to a server that has not answered yet.
ServerFresh ==
    /\ srvClosed' = FALSE /\ replyLen' = 0 /\ reply' = None
    /\ avail' = 0 /\ initReply' = None /\ agent' = None

\* Faulty variant: connect raises the first attempt's error.
AttemptStopsAtFirstError ==
    /\ phase = "next"
    /\ IF i < n /\ errors = <<>>
       THEN /\ i' = i + 1
            /\ Goto("connect")
            /\ sock' = "none"
            /\ ServerFresh
            /\ UNCHANGED <<version, initMsg, supports_bytes, outcome>>
       ELSE /\ Goto("raised")
            /\ outcome' = IF errors = <<>> THEN "ServiceUnavailable" ELSE Last(errors)
            /\ UNCHANGED <<i, sock, version, initMsg, supports_bytes, srv>>
    /\ UNCHANGED <<cfg, errors>>

\* Faulty variant: the address loop runs one index past the end.
AttemptPastEnd ==
    /\ phase = "next"
    /\ IF i <= n
       THEN /\ i' = i + 1
            /\ Goto("connect")
            /\ sock' = "none"
            /\ ServerFresh
            /\ UNCHANGED <<version, initMsg, supports_bytes, outcome>>
       ELSE /\ Goto("raised")
            /\ outcome' = IF errors = <<>> THEN "ServiceUnavailable" ELSE Last(errors)
            /\ UNCHANGED <<i, sock, version, initMsg, supports_bytes, srvClosed, replyLen, reply, avail, initReply, agent>>
    /\ UNCHANGED <<cfg, errors>>

\* The loop over resolver.addresses: try the next one, or, when all have
\* failed, raise last_error (ServiceUnavailable when nothing resolved).
Attempt ==
    /\ phase = "next"
    /\ IF i < n
       THEN /\ i' = i + 1
            /\ Goto("connect")
            /\ sock' = "none"
            /\ ServerFresh
            /\ UNCHANGED <<version, initMsg, supports_bytes, outcome>>
       ELSE /\ Goto("raised")
            /\ outcome' = IF errors = <<>> THEN "ServiceUnavailable" ELSE Last(errors)
            /\ UNCHANGED <<i, sock, version, initMsg, supports_bytes, srv>>
    /\ UNCHANGED <<cfg, errors>>

\* _connect: socket() itself may raise OSError (e.g. no file descriptors
\* left); s is then still None and the handler's s.close() raises
\* AttributeError. A timeout or an OSError of connect() closes the socket
\* and raises ServiceUnavailable.
Connect ==
    /\ phase = "connect"
    /\ \/ Fail("AttributeError", "none")
       \/ Fail("ServiceUnavailable", "closed")
       \/ sock' = "open" /\ Goto("secure") /\ UNCHANGED <<errors>>
    /\ UNCHANGED <<cfg, i, version, initMsg, supports_bytes, outcome, srv>>

\* _secure: without an SSL context the socket is used as is; wrap_socket
\* may raise SSLError (SecurityError), and a missing or untrusted server
\* certificate raises ProtocolError; each closes the socket first. A peer
\* that has reset the connection makes wrap_socket raise a plain OSError,
\* which escapes with the socket left open.
Secure ==
    /\ phase = "secure"
    /\ IF tls
       THEN \/ Fail("SecurityError", "closed")
            \/ Fail("ProtocolError", "closed")
            \/ srvClosed /\ Fail("OSError", sock)
            \/ Goto("handshake") /\ UNCHANGED <<sock, errors>>
       ELSE Goto("handshake") /\ UNCHANGED <<sock, errors>>
    /\ UNCHANGED <<cfg, i, version, initMsg, supports_bytes, outcome, srv>>

\* _handshake's s.sendall(preamble + [3, 2, 1, 0]): to a peer that has
\* closed it may still succeed or raise OSError, which nothing catches.
SendHandshake ==
    /\ phase = "handshake"
    /\ \/ Goto("select") /\ UNCHANGED <<sock, errors>>
       \/ srvClosed /\ Fail("OSError", sock)
    /\ UNCHANGED <<cfg, i, version, initMsg, supports_bytes, outcome, srv>>

\* Faulty variant: select is taken to report only received bytes, not
\* the end of the stream.
SelectReadyOnData ==
    /\ phase = "select"
    /\ avail > 0
    /\ Goto("recv")
    /\ UNCHANGED <<cfg, i, sock, version, initMsg, supports_bytes, errors, outcome, srv>>

\* The select loop ends once the socket is readable: bytes have arrived
\* or the server has closed.
SelectReady ==
    /\ phase = "select"
    /\ avail > 0 \/ srvClosed
    /\ Goto("recv")
    /\ UNCHANGED <<cfg, i, sock, version, initMsg, supports_bytes, errors, outcome, srv>>

\* The Connection built for an agreed version; __init__ raises AuthError
\* when the auth config is rejected, leaving the socket open.
Build(v) ==
    IF authOk
    THEN version' = v /\ Goto("init") /\ UNCHANGED <<sock, errors, outcome>>
    ELSE Fail("AuthError", sock) /\ UNCHANGED version

\* s.recv(4) reads once whatever has arrived, up to 4 bytes. An OSError
\* (the peer reset the connection) raises ServiceUnavailable without
\* closing; 0 bytes or a length other than 4 close and raise; then the
\* agreed version decides. Version 0 shuts the socket down and closes it,
\* and _handshake falls off its end: connect returns None.
Recv ==
    /\ phase = "recv"
    /\ \/ srvClosed /\ Fail("ServiceUnavailable", sock) /\ UNCHANGED version
       \/ avail = 0 /\ srvClosed /\ Fail("ServiceUnavailable", "closed")
          /\ UNCHANGED version
       \/ avail \in 1..3 /\ Fail("ProtocolError", "closed") /\ UNCHANGED version
       \/ /\ avail = 4
          /\ \/ reply = 0 /\ sock' = "closed" /\ Goto("returned")
                /\ outcome' = None /\ UNCHANGED <<version, errors>>
             \/ reply \in {1, 2, 3} /\ Build(reply)
             \/ reply = HTTP /\ Fail("ServiceUnavailable", "closed")
                /\ UNCHANGED version
             \/ reply = 4 /\ Fail("ProtocolError", "closed")
                /\ UNCHANGED version
    /\ UNCHANGED <<cfg, i, initMsg, supports_bytes, srv>>

\* Faulty variant: init/hello returns without fetch_all.
InitSendReturns ==
    /\ phase = "init"
    /\ initMsg' = IF version = 3 THEN "HELLO" ELSE "INIT"
    /\ Goto("returned")
    /\ outcome' = "Connection"
    /\ UNCHANGED <<cfg, i, sock, version, errors, supports_bytes, srv>>

\* init() (v1/v2) or hello() (v3): _append INIT/HELLO, then send_all,
\* whose OSError on a closed peer is re-raised as is (no pool yet).
InitSend ==
    /\ phase = "init"
    /\ initMsg' = IF version = 3 THEN "HELLO" ELSE "INIT"
    /\ \/ Goto("initwait") /\ UNCHANGED <<sock, errors>>
       \/ srvClosed /\ Fail("OSError", sock)
    /\ UNCHANGED <<cfg, i, version, outcome, supports_bytes, srv>>

\* fetch_all of the InitResponse, then packer.supports_bytes =
\* server.supports("bytes"). SUCCESS merged the server's metadata (its
\* agent) into ServerInfo, and supports() may raise TypeError, which
\* connect catches like any other error; otherwise the connection returns.
\* InitResponse.on_failure raises AuthError for
\* Neo.ClientError.Security.Unauthorized, else ServiceUnavailable, and
\* sends no RESET; end of stream runs _set_defunct, which closes.
InitFetch ==
    /\ phase = "initwait"
    /\ \/ /\ initReply = "SUCCESS"
          /\ LET b == Supports(agent, version, "bytes")
             IN  IF b = "TypeError"
                 THEN Fail("TypeError", sock) /\ UNCHANGED supports_bytes
                 ELSE /\ supports_bytes' = b
                      /\ Goto("returned") /\ outcome' = "Connection"
                      /\ UNCHANGED <<sock, errors>>
       \/ initReply = "Unauthorized" /\ Fail("AuthError", sock) /\ UNCHANGED supports_bytes
       \/ initReply = "Failure" /\ Fail("ServiceUnavailable", sock) /\ UNCHANGED supports_bytes
       \/ /\ initReply = None /\ srvClosed
          /\ Fail("ServiceUnavailable", "closed") /\ UNCHANGED supports_bytes
    /\ UNCHANGED <<cfg, i, version, initMsg, srv>>

-----------------------------------------------------------------------------
(* The server of the current attempt                                       *)

Talking == phase \in {"secure", "handshake", "select", "recv", "init", "initwait"}

\* It sends its handshake reply, possibly split: a Bolt server's 4-byte
\* version, or 1 to 3 bytes of something else.
ServerReply ==
    /\ phase \in {"select", "recv"}
    /\ ~srvClosed
    /\ IF replyLen = 0
       THEN \/ /\ replyLen' = 4
               /\ reply' \in Replies
               /\ avail' \in 1..4
            \/ /\ replyLen' \in 1..3
               /\ avail' \in 1..replyLen'
               /\ UNCHANGED reply
       ELSE /\ avail < replyLen
            /\ avail' \in avail + 1..replyLen
            /\ UNCHANGED <<replyLen, reply>>
    /\ UNCHANGED <<cfg, i, phase, sock, version, initMsg, supports_bytes, errors, outcome, srvClosed, initReply, agent>>

\* It answers INIT/HELLO.
ServerInitReply ==
    /\ phase = "initwait"
    /\ ~srvClosed /\ initReply = None
    /\ \/ initReply' = "SUCCESS" /\ agent' \in Agents
       \/ initReply' \in {"Unauthorized", "Failure"} /\ UNCHANGED agent
    /\ UNCHANGED <<cfg, i, phase, sock, version, initMsg, supports_bytes, errors, outcome,
                   srvClosed, replyLen, reply, avail>>

\* It closes the socket; what it sent stays readable.
ServerClose ==
    /\ Talking
    /\ ~srvClosed
    /\ srvClosed' = TRUE
    /\ UNCHANGED <<cfg, i, phase, sock, version, initMsg, supports_bytes, errors, outcome, replyLen, reply, avail, initReply, agent>>

-----------------------------------------------------------------------------

\* Any number of resolved addresses up to the bound, with or without TLS,
\* with an accepted or rejected auth config.
Init ==
    /\ n \in 0..MaxAddresses
    /\ tls \in BOOLEAN
    /\ authOk \in BOOLEAN
    /\ i = 0
    /\ phase = "next"
    /\ sock = "none"
    /\ version = None
    /\ initMsg = None
    /\ errors = <<>>
    /\ outcome = "running"
    /\ srvClosed = FALSE /\ replyLen = 0 /\ reply = None
    /\ avail = 0 /\ initReply = None /\ agent = None
    /\ supports_bytes = None

Client == Attempt \/ Connect \/ Secure \/ SendHandshake \/ SelectReady
          \/ Recv \/ InitSend \/ InitFetch

Server == ServerReply \/ ServerInitReply \/ ServerClose

Next == Client \/ Server

(* The calling thread runs connect to its end, and a server that has     *)
(* accepted the TCP connection eventually answers or closes it.          *)
Spec == Init /\ [][Next]_vars /\ WF_vars(Client) /\ WF_vars(Server)

Done == phase \in {"returned", "raised"}

-----------------------------------------------------------------------------
(* Properties                                                             *)

\* Every variable has its type.
TypeOK ==
    /\ n \in 0..MaxAddresses /\ i \in 0..n
    /\ {tls, authOk, srvClosed} \subseteq BOOLEAN
    /\ phase \in Phases
    /\ sock \in {"none", "open", "closed"}
    /\ version \in {None, 1, 2, 3}
    /\ initMsg \in {None, "INIT", "HELLO"}
    /\ errors \in Seq(Errors) /\ Len(errors) <= i
    /\ outcome \in Errors \cup {"running", "Connection", None}
    /\ replyLen \in 0..4 /\ avail \in 0..replyLen
    /\ reply \in Replies \cup {None}
    /\ initReply \in {None, "SUCCESS", "Unauthorized", "Failure"}
    /\ agent \in Agents
    /\ supports_bytes \in {None, "None", "TRUE", "FALSE"}

\* A Connection that connect returns has completed the exchange for the
\* version the server agreed: INIT for 1 and 2, HELLO for 3, answered
\* with SUCCESS, on a socket still open.
ReturnedConnectionReady ==
    phase = "returned" /\ outcome = "Connection" =>
        /\ version \in {1, 2, 3} /\ version = reply
        /\ initMsg = IF version = 3 THEN "HELLO" ELSE "INIT"
        /\ initReply = "SUCCESS"
        /\ sock = "open"

\* A returned Connection encodes raw bytes exactly when its server is
\* Neo4j 3.2 or later (spec 3), as init()/hello() derive it from the agent
\* through ServerInfo.supports("bytes") and Python's tuple comparison.
BytesIffNeo4j32 ==
    phase = "returned" /\ outcome = "Connection" =>
        (supports_bytes = "TRUE" <=> Neo4jAtLeast32(agent))

\* connect raises only after every resolved address has been tried, and
\* what it raises is the last attempt's error (ServiceUnavailable when
\* the resolver returned nothing).
RaisesLastError ==
    phase = "raised" =>
        /\ i = n /\ Len(errors) = n
        /\ outcome = IF n = 0 THEN "ServiceUnavailable" ELSE errors[n]

\* connect returns or raises, when each server eventually answers or
\* closes: the select loop also ends on the end of the stream.
ConnectTerminates == <>Done

\* connect's docstring: it returns "a valid Connection object, assuming a
\* protocol version can be agreed"; the pool then sets `connection.pool`.
ConnectNeverReturnsNone == phase = "returned" => outcome = "Connection"

\* Spec 7: connect fails with ServiceUnavailable (transport),
\* ProtocolError, SecurityError or AuthError.
ConnectErrorKinds ==
    phase = "raised" =>
        outcome \in {"ServiceUnavailable", "ProtocolError", "SecurityError", "AuthError"}

====
