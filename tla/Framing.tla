------------------------------ MODULE Framing ------------------------------
(***************************************************************************)
(* Bolt chunked framing in src/neobolt/direct.py: the Outbox that frames   *)
(* the messages packed by Connection._append and flushed by send_all, and  *)
(* the Inbox that reads a byte stream with recv_into and reassembles       *)
(* messages. The two are composed back to back over one byte stream        *)
(* (`wire`): the Inbox reads what the Outbox sent, in whatever pieces      *)
(* recv_into returns.                                                      *)
(*                                                                         *)
(* Bytes are naturals. Payload bytes get distinct values (the n-th byte    *)
(* ever written has value n), so a reassembled message can be compared     *)
(* with what was written, byte for byte. Indices in `ob` and `ib` are the  *)
(* code's 0-based offsets; slices follow Python's bytearray semantics.     *)
(***************************************************************************)
EXTENDS Integers, Sequences, SequencesExt

CONSTANTS
    MaxChunkSize,   \* Outbox max_chunk_size
    Capacity,       \* Outbox capacity: the initial length of its bytearray
    MaxWriteLen,    \* longest single write by the packer
    MaxWrites,      \* most writes that pack one message
    MaxMessages     \* bound on the messages appended

ASSUME /\ MaxChunkSize \in 1..65535
       /\ Capacity \in Nat /\ MaxWriteLen \in Nat \ {0}
       /\ MaxWrites \in Nat \ {0} /\ MaxMessages \in Nat

VARIABLES
    ob,         \* the Outbox: [data, header, start, end]
    wire,       \* bytes sent and not yet received
    ib,         \* the Inbox buffer and its receive(): [data, used, end]
    written,    \* history: every message appended, as its writes
    sent,       \* history: how many messages send_all has flushed
    delivered   \* history: the payloads the Inbox has yielded, in order

vars == <<ob, wire, ib, written, sent, delivered>>

-----------------------------------------------------------------------------
(* Python slices on bytearrays                                             *)

MinOf(a, b) == IF a < b THEN a ELSE b
MaxOf(a, b) == IF a < b THEN b ELSE a

\* d[i:j] for 0 <= i, j.
Slice(d, i, j) == SubSeq(d, MinOf(i, Len(d)) + 1, MinOf(j, Len(d)))

\* d[i:j] = s: indices are clamped to the array, which grows or shrinks.
SetSlice(d, i, j, s) ==
    LET lo == MinOf(i, Len(d))
        hi == MaxOf(lo, MinOf(j, Len(d)))
    IN  SubSeq(d, 1, lo) \o s \o SubSeq(d, hi + 1, Len(d))

Zeros(n) == [k \in 1..n |-> 0]

\* struct_pack(">H", n)
U16(n) == <<n \div 256, n % 256>>

-----------------------------------------------------------------------------
(* Outbox                                                                  *)

OutboxInit == [data |-> Zeros(Capacity), header |-> 0, start |-> 2, end |-> 2]

\* A chunk() that leaves `end` where it was.
ChunkKeepsEnd(o) ==
    [o EXCEPT !.header = o.end, !.start = o.end + 2,
              !.data = SetSlice(o.data, o.end, o.end + 2, <<0, 0>>)]

Chunk(o) ==
    [o EXCEPT !.header = o.end, !.start = o.end + 2, !.end = o.end + 2,
              !.data = SetSlice(o.data, o.end, o.end + 2, <<0, 0>>)]

\* A write loop that starts a new chunk only when the current one is full.
RECURSIVE WriteFromChunkWhenFull(_, _, _)
WriteFromChunkWhenFull(o, b, pos) ==
    LET to_write == Len(b) - pos
        remaining == MaxChunkSize - (o.end - o.start)
    IN  IF to_write = 0 THEN o
        ELSE IF remaining = 0
        THEN WriteFromChunkWhenFull(Chunk(o), b, pos)
        ELSE LET wrote == MinOf(to_write, remaining)
                 new_end == o.end + wrote
                 d1 == SetSlice(o.data, o.end, new_end, SubSeq(b, pos + 1, pos + wrote))
                 d2 == SetSlice(d1, o.header, o.header + 2, U16(new_end - o.start))
             IN  WriteFromChunkWhenFull([o EXCEPT !.data = d2, !.end = new_end], b, pos + wrote)

\* Outbox.write(b): the loop, one iteration per call, from byte `pos` on.
RECURSIVE WriteFrom(_, _, _)
WriteFrom(o, b, pos) ==
    LET to_write == Len(b) - pos
        remaining == MaxChunkSize - (o.end - o.start)
    IN  IF to_write = 0 THEN o
        ELSE IF remaining = 0 \/ (remaining < to_write /\ to_write <= MaxChunkSize)
        THEN WriteFrom(Chunk(o), b, pos)
        ELSE LET wrote == MinOf(to_write, remaining)
                 new_end == o.end + wrote
                 d1 == SetSlice(o.data, o.end, new_end, SubSeq(b, pos + 1, pos + wrote))
                 d2 == SetSlice(d1, o.header, o.header + 2, U16(new_end - o.start))
             IN  WriteFrom([o EXCEPT !.data = d2, !.end = new_end], b, pos + wrote)

Write(o, b) == WriteFrom(o, b, 0)

\* A view that ignores whether the open chunk is empty.
ViewToEnd(o) == Slice(o.data, 0, o.end)

View(o) ==
    IF o.end - o.start = 0 THEN Slice(o.data, 0, o.header)
                           ELSE Slice(o.data, 0, o.end)

Clear(o) ==
    [o EXCEPT !.header = 0, !.start = 2, !.end = 2,
              !.data = SetSlice(o.data, 0, 2, <<0, 0>>)]

-----------------------------------------------------------------------------
(* Messages                                                                *)

Payload(m) == FlattenSeq(m)

NextByte == 1 + Len(FlattenSeq([k \in DOMAIN written |-> Payload(written[k])]))

\* The writes Packer.pack_struct makes for one message, of the given
\* lengths, carrying fresh byte values from `base` on.
Writes(lens, base) ==
    [i \in DOMAIN lens |->
        LET first == base + FoldLeft(+, 0, SubSeq(lens, 1, i - 1))
        IN  [j \in 1..lens[i] |-> first + j - 1]]

RECURSIVE WriteAll(_, _)
WriteAll(o, ws) == IF ws = <<>> THEN o ELSE WriteAll(Write(o, Head(ws)), Tail(ws))

WriteLengths == {s \in BoundedSeq(1..MaxWriteLen, MaxWrites) : s # <<>>}

\* Connection._append: pack_struct's writes, then chunk() twice.
AppendMessage(lens) ==
    LET ws == Writes(lens, NextByte)
    IN  /\ Len(written) < MaxMessages
        /\ ob' = Chunk(Chunk(WriteAll(ob, ws)))
        /\ written' = Append(written, ws)
        /\ UNCHANGED <<wire, ib, sent, delivered>>

\* Connection.send_all when sendall succeeds: the whole view goes out and
\* the Outbox is cleared. (An empty view returns without a step.)
SendAll ==
    /\ View(ob) # <<>>
    /\ wire' = wire \o View(ob)
    /\ ob' = Clear(ob)
    /\ sent' = Len(written)
    /\ UNCHANGED <<ib, written, delivered>>

-----------------------------------------------------------------------------
(* Inbox                                                                   *)

\* receive(n_bytes) up to its loop: grow the buffer to the target `end`.
Receive(b, n) ==
    LET e == b.used + n
    IN  [b EXCEPT !.end = e,
                  !.data = IF e > Len(b.data) THEN b.data \o Zeros(e - Len(b.data))
                                              ELSE b.data]

\* Unpacker.reset() empties the buffer; the chunk loader, whose chunk_size
\* is 0 after a terminator, then receives the next length prefix.
InboxStart == Receive([data |-> <<>>, used |-> 0, end |-> 0], 2)

\* A receive loop that asks recv_into for one byte too few.
RecvShort(n) ==
    /\ ib.used < ib.end
    /\ n <= Len(wire)
    /\ n <= ib.end - ib.used - 1
    /\ ib' = [ib EXCEPT !.used = ib.used + n,
                        !.data = SetSlice(ib.data, ib.used, ib.used + n, SubSeq(wire, 1, n))]
    /\ wire' = SubSeq(wire, n + 1, Len(wire))
    /\ UNCHANGED <<ob, written, sent, delivered>>

\* One recv_into(view[used:end], end - used) returning n > 0 bytes.
Recv(n) ==
    /\ ib.used < ib.end
    /\ n <= Len(wire)
    /\ n <= ib.end - ib.used
    /\ ib' = [ib EXCEPT !.used = ib.used + n,
                        !.data = SetSlice(ib.data, ib.used, ib.used + n, SubSeq(wire, 1, n))]
    /\ wire' = SubSeq(wire, n + 1, Len(wire))
    /\ UNCHANGED <<ob, written, sent, delivered>>

\* A message assembler that does not reset the unpacker's buffer.
PopNoReset ==
    LET size == 256 * ib.data[ib.used - 1] + ib.data[ib.used]
        b == [ib EXCEPT !.used = ib.used - 2]
    IN  /\ ib.used = ib.end
        /\ IF size > 0
           THEN /\ ib' = Receive(b, size + 2)
                /\ UNCHANGED delivered
           ELSE /\ delivered' = Append(delivered, Slice(b.data, 0, b.used))
                /\ ib' = Receive(b, 2)
        /\ UNCHANGED <<ob, wire, written, sent>>

\* receive() has returned: pop_u16 takes the length prefix just read off
\* the end of the buffer. A nonzero length makes the loader receive the
\* chunk and the prefix after it; zero ends the message, which
\* _yield_messages yields before starting the next one.
Pop ==
    LET size == 256 * ib.data[ib.used - 1] + ib.data[ib.used]
        b == [ib EXCEPT !.used = ib.used - 2]
    IN  /\ ib.used = ib.end
        /\ IF size > 0
           THEN /\ ib' = Receive(b, size + 2)
                /\ UNCHANGED delivered
           ELSE /\ delivered' = Append(delivered, Slice(b.data, 0, b.used))
                /\ ib' = Receive([b EXCEPT !.used = 0], 2)
        /\ UNCHANGED <<ob, wire, written, sent>>

-----------------------------------------------------------------------------

Init ==
    /\ ob = OutboxInit
    /\ wire = <<>>
    /\ ib = InboxStart
    /\ written = <<>>
    /\ sent = 0
    /\ delivered = <<>>

Writer == (\E lens \in WriteLengths : AppendMessage(lens)) \/ SendAll

Reader == (\E n \in 1..MaxChunkSize + 2 : Recv(n)) \/ Pop

Next == Writer \/ Reader

\* The Inbox is read by fetch_message whenever a response is outstanding,
\* and recv_into returns as soon as bytes are available.
Spec == Init /\ [][Next]_vars /\ WF_vars(Reader)

-----------------------------------------------------------------------------
(* Reference: the Bolt framing of a byte stream, as the protocol states    *)
(* it: messages of nonempty length-prefixed chunks, each ended by a zero   *)
(* length. Deframe(s) is [ok, msgs], each message a sequence of chunks.    *)

RECURSIVE DeframeFrom(_, _, _, _)
DeframeFrom(s, p, cur, acc) ==
    IF p > Len(s) THEN [ok |-> cur = <<>>, msgs |-> acc]
    ELSE IF p = Len(s) THEN [ok |-> FALSE, msgs |-> acc]
    ELSE LET n == 256 * s[p] + s[p + 1]
         IN  IF n = 0 THEN DeframeFrom(s, p + 2, <<>>, Append(acc, cur))
             ELSE IF p + 1 + n > Len(s) THEN [ok |-> FALSE, msgs |-> acc]
             ELSE DeframeFrom(s, p + 2 + n, Append(cur, SubSeq(s, p + 2, p + 1 + n)), acc)

Deframe(s) == DeframeFrom(s, 1, <<>>, <<>>)

\* The messages appended since the last successful send_all.
Pending == SubSeq(written, sent + 1, Len(written))

Byte == 0..255

TypeOK ==
    /\ ob.data \in Seq(Byte) /\ {ob.header, ob.start, ob.end} \subseteq Nat
    /\ ob.start = ob.header + 2 /\ ob.start <= ob.end /\ ob.end <= Len(ob.data)
    /\ ib.data \in Seq(Nat) /\ {ib.used, ib.end} \subseteq Nat
    /\ wire \in Seq(Nat)
    /\ sent \in 0..Len(written)
    /\ delivered \in Seq(Seq(Nat))

\* What send_all would put on the wire now is well framed (spec 8): it
\* deframes into exactly the messages appended since the last flush, every
\* chunk is nonempty and at most max_chunk_size long, and the header
\* written by Outbox.write in front of each chunk equals its length.
ViewFramesPending ==
    LET d == Deframe(View(ob))
    IN  /\ d.ok
        /\ Len(d.msgs) = Len(Pending)
        /\ \A k \in DOMAIN d.msgs :
              /\ FlattenSeq(d.msgs[k]) = Payload(Pending[k])
              /\ \A c \in ToSet(d.msgs[k]) : Len(c) \in 1..MaxChunkSize

\* Outbox.write starts a new chunk rather than split a write that fits in
\* one: in the view, every write no longer than max_chunk_size lies within
\* a single chunk.
WriteNotSplit ==
    LET d == Deframe(View(ob))
    IN  \A k \in DOMAIN d.msgs : \A w \in ToSet(Pending[k]) :
            Len(w) <= MaxChunkSize => \E c \in ToSet(d.msgs[k]) : ToSet(w) \subseteq ToSet(c)

\* The Inbox yields the payloads of the messages sent, in order, whatever
\* pieces recv_into returned, with the read-ahead of the next length
\* prefix and the buffer reused across messages.
InboxYieldsSent ==
    IsPrefix(delivered, [k \in 1..sent |-> Payload(written[k])])

\* Every message send_all flushed is eventually yielded by the Inbox: the
\* loader never waits for bytes the Outbox did not send.
SentIsDelivered ==
    \A k \in 1..MaxMessages : (sent >= k ~> Len(delivered) >= k)

====
