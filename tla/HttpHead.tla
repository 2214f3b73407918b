------------------------------ MODULE HttpHead ------------------------------
(***************************************************************************)
(* What the eBPF program copies of a TCP segment and what the loader reads *)
(* out of it (ebpf-common/src/lib.rs).  A segment is a sequence of cells:  *)
(* a cell is a blank, a line end, a colon, the five bytes "Host:" in any   *)
(* case, or a fragment of a word.  Both copies cut between any two cells,  *)
(* so names, paths and headers may be cut short.                           *)
(***************************************************************************)
EXTENDS Naturals, Sequences, SequencesExt

CONSTANTS
    SP, EOL, COLON, HOST,  \* ' ' (or tab), '\r' or '\n', ':' and "Host:"
    NonUtf8,        \* a fragment that is not valid UTF-8
    Upper,          \* the fragments that begin with an upper-case letter
    Cells,          \* all cells
    KernelPayload,  \* MAX_PAYLOAD of the eBPF program
    UserPayload     \* MAX_PAYLOAD of the struct the loader reads

ASSUME HttpHeadAssumption ==
    /\ {SP, EOL, COLON, HOST, NonUtf8} \cup Upper \subseteq Cells
    /\ SP \notin {EOL, HOST}
    /\ EOL # HOST
    /\ KernelPayload \in Nat \ {0}
    /\ UserPayload \in Nat \ {0}

Prefix(s, n) == SubSeq(s, 1, IF Len(s) < n THEN Len(s) ELSE n)
Suffix(s, n) == SubSeq(s, n, Len(s))

\* iter().position(...), counted from 1; 0 when no cell is in C.
Position(s, C) == SelectInSeq(s, LAMBDA x : x \in C)

\* The cells before the first one in C, all of them if there is none.
Before(s, C) == IF Position(s, C) = 0 THEN s ELSE Prefix(s, Position(s, C) - 1)

\* from_utf8(...).ok() followed by unwrap_or_default.
Text(s) == IF NonUtf8 \in Range(s) THEN << >> ELSE s

\* bpf_skb_load_bytes of at most MAX_PAYLOAD bytes.
Captured(payload) == Prefix(payload, KernelPayload)

payload_bytes(captured) == Prefix(captured, UserPayload)

\* Without a blank there is no method, nor a path.
parse_method(s) == IF Position(s, {SP}) = 0 THEN << >> ELSE Text(Before(s, {SP}))

\* Mutant: the path ends at the line end only.
parse_path_ToEol(s) ==
    IF Position(s, {SP}) = 0 THEN << >>
    ELSE Text(Before(Suffix(s, Position(s, {SP}) + 1), {EOL}))

parse_path(s) ==
    IF Position(s, {SP}) = 0 THEN << >>
    ELSE Text(Before(Suffix(s, Position(s, {SP}) + 1), {SP}))

\* The value of the first "Host:", wherever it is found, without blanks before
\* it and without a port.
parse_host(s) ==
    LET after == Suffix(s, Position(s, {HOST}) + 1)
        start == Position(after, Cells \ {SP})
    IN  IF Position(s, {HOST}) = 0 \/ start = 0 THEN << >>
        ELSE Before(Text(Before(Suffix(after, start), {EOL})), {COLON})

-----------------------------------------------------------------------------
(* The requests HTTP clients send: the reference for the parser.           *)

\* A header's name is given without its "Host:" or ":", which `end` tells: the
\* header X-Forwarded-Host has the name <<X-Forwarded>> and ends in HOST, and
\* the Host header has no other name.
IsHostHeader(h) == h.name = << >> /\ h.end = HOST

\* A host begins after the one blank that clients write, and holds no "Host:",
\* which as one cell would hide where its name ends.
HostText ==
    {v \in Seq(Cells \ {HOST, EOL}) : v # << >> => Head(v) # SP}

HeaderType == {h \in [name: Seq(Cells), end: Cells, value: Seq(Cells)] :
                 IsHostHeader(h) => h.value \in HostText}

\* The path, another header's name and its value may say "Host:" anywhere; a
\* method has no colon, and the version is HTTP's.
RequestType == [method: Seq(Cells \ {SP, HOST}), path: Seq(Cells \ {SP}),
                version: Cells \ {HOST}, headers: Seq(HeaderType)]

SaysHost(h) == HOST \in Range(h.name) \cup {h.end} \cup Range(h.value)

RenderHeader(h) == h.name \o (<<h.end, SP>> \o h.value \o <<EOL>>)

RenderRequest(r) ==
    r.method \o <<SP>> \o r.path \o <<SP, r.version, EOL>>
        \o FlattenSeq([i \in DOMAIN r.headers |-> RenderHeader(r.headers[i])])
        \o <<EOL>>
=============================================================================
