----------------------------- MODULE ServerInfo -----------------------------
(***************************************************************************)
(* ServerInfo of src/neobolt/direct.py: what a Connection knows of its     *)
(* server's agent string, and the capabilities derived from it.            *)
(*                                                                         *)
(* An agent string is None (no "server" in the metadata) or a record of    *)
(* its product, the part before "/", and its version tokens, the rest      *)
(* split at "." once "-" is replaced by ".". Tokens are strings; int()     *)
(* parses the single digits. Results of supports() are "None", "TRUE",     *)
(* "FALSE", or "TypeError" when the comparison raises.                     *)
(***************************************************************************)
EXTENDS Integers, Sequences

CONSTANT None

Digits == <<"0", "1", "2", "3", "4", "5", "6", "7", "8", "9">>

\* int(v) succeeds.
IsInt(v) == \E d \in DOMAIN Digits : Digits[d] = v

IntOf(v) == CHOOSE d \in 0..9 : Digits[d + 1] = v

\* version_info(): each token as an int where int() parses it, else kept
\* as the string (the ValueError is passed over).
VersionInfo(agent) ==
    IF agent = None THEN None
    ELSE [k \in DOMAIN agent.tokens |->
            IF IsInt(agent.tokens[k]) THEN [int |-> TRUE, v |-> IntOf(agent.tokens[k])]
                                      ELSE [int |-> FALSE, v |-> agent.tokens[k]]]

\* The comparison written as t > u.
RECURSIVE TupleGT(_, _)
TupleGT(t, u) ==
    IF t = <<>> \/ u = <<>> THEN IF Len(t) > Len(u) THEN "TRUE" ELSE "FALSE"
    ELSE IF Head(t).int /\ Head(t).v = Head(u) THEN TupleGT(Tail(t), Tail(u))
    ELSE IF ~Head(t).int THEN "TypeError"
    ELSE IF Head(t).v > Head(u) THEN "TRUE" ELSE "FALSE"

\* Python's t >= u for a tuple u of ints: the first position where the
\* elements differ decides, and comparing a str with an int there raises
\* TypeError; with no difference the longer tuple is the greater.
RECURSIVE TupleGE(_, _)
TupleGE(t, u) ==
    IF t = <<>> \/ u = <<>> THEN IF Len(t) >= Len(u) THEN "TRUE" ELSE "FALSE"
    ELSE IF Head(t).int /\ Head(t).v = Head(u) THEN TupleGE(Tail(t), Tail(u))
    ELSE IF ~Head(t).int THEN "TypeError"
    ELSE IF Head(t).v > Head(u) THEN "TRUE" ELSE "FALSE"

\* supports(feature)
Supports(agent, protocol_version, feature) ==
    IF agent = None \/ agent.product # "Neo4j" THEN "None"
    ELSE CASE feature = "bytes" -> TupleGE(VersionInfo(agent), <<3, 2>>)
           [] feature = "run_metadata" -> IF protocol_version >= 3 THEN "TRUE" ELSE "FALSE"
           [] OTHER -> "None"

\* Reference for spec 3: raw byte values need a Neo4j server of version
\* 3.2 or later, read off the leading numeric tokens.
Neo4jAtLeast32(agent) ==
    /\ agent # None /\ agent.product = "Neo4j"
    /\ IsInt(agent.tokens[1])
    /\ LET major == IntOf(agent.tokens[1])
           minor == IF Len(agent.tokens) >= 2 /\ IsInt(agent.tokens[2])
                    THEN IntOf(agent.tokens[2]) ELSE 0
       IN  major > 3 \/ (major = 3 /\ minor >= 2)

====
