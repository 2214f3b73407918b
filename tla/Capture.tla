------------------------------ MODULE Capture ------------------------------
(***************************************************************************)
(* From the wire to Core: the eBPF socket filter runs on every CPU and     *)
(* puts HTTP requests into that CPU's perf buffer; the loader reads each   *)
(* buffer in a task of its own, in batches, parses every event and waits   *)
(* for the RPC that hands it to Core before it turns to the next.          *)
(*                                                                         *)
(* A buffer has room for BufferSize events; when it is full the kernel     *)
(* drops the event and nobody looks at the lost count.  An RPC may fail    *)
(* before or after Core accepted the event, and is not repeated.  A read   *)
(* error leaves everything as it is and the task reads again.              *)
(***************************************************************************)
EXTENDS HttpHead

CONSTANTS
    Cpus,         \* the online CPUs
    RunningCpu,   \* a CPU whose reader task runs and whose calls return
    Packets,      \* the segments the raw socket may see, see PacketType
    Requests,     \* the HTTP requests clients send, as their parts
    HttpPorts,    \* the destination ports looked at (80 and 8080)
    OtherPort,    \* any other port
    BufferSize,   \* events a perf buffer has room for
    BatchSize,    \* events read at once (10)
    MaxPackets,   \* bound on the segments captured
    MaxRestarts   \* bound on the restarts of the loader

\* proto: IPv4 and TCP, or anything else (headers that cannot be loaded too).
PacketType == [proto: {"tcp", "other"}, dst_port: HttpPorts \cup {OtherPort},
               payload: Seq(Cells)]

ASSUME CaptureAssumption ==
    /\ RunningCpu \in Cpus
    /\ Packets \subseteq PacketType
    /\ Requests \subseteq RequestType
    /\ OtherPort \notin HttpPorts
    /\ BufferSize \in Nat \ {0}
    /\ BatchSize \in Nat \ {0}
    /\ MaxPackets \in Nat
    /\ MaxRestarts \in Nat

VARIABLES
    captured,  \* history: the packets the filter let pass, and on which CPU;
               \* the index is timestamp_ns
    buffer,    \* per CPU: the perf buffer
    batch,     \* per CPU: the events read and not handled yet
    rpc,       \* per CPU: the RPC the task waits for: none, sent or accepted
    received,  \* history: the events Core accepted, in that order
    excused,   \* history: the timestamps of events given up for a reason
    restarts   \* how often the loader was restarted

vars == <<captured, buffer, batch, rpc, received, excused, restarts>>

\* What the kernel and the loader know of one captured packet.
PerfEvent == [timestamp_ns: 1 .. MaxPackets, payload: Seq(Cells)]

NetworkEvent == [timestamp_ns: 1 .. MaxPackets,
                 method: Seq(Cells), path: Seq(Cells), host: Seq(Cells)]

TypeOK ==
    /\ captured \in Seq([cpu: Cpus, packet: Packets])
    /\ Len(captured) <= MaxPackets
    /\ buffer \in [Cpus -> Seq(PerfEvent)]
    /\ \A c \in Cpus : Len(buffer[c]) <= BufferSize
    /\ batch \in [Cpus -> Seq(PerfEvent)]
    /\ \A c \in Cpus : Len(batch[c]) <= BatchSize
    /\ rpc \in [Cpus -> {"none", "sent", "accepted"}]
    /\ \A c \in Cpus : rpc[c] # "none" => batch[c] # << >>
    /\ received \in Seq(NetworkEvent)
    /\ excused \subseteq 1 .. MaxPackets
    /\ restarts \in 0 .. MaxRestarts

Init ==
    /\ captured = << >>
    /\ buffer = [c \in Cpus |-> << >>]
    /\ batch = [c \in Cpus |-> << >>]
    /\ rpc = [c \in Cpus |-> "none"]
    /\ received = << >>
    /\ excused = {}
    /\ restarts = 0

-----------------------------------------------------------------------------
(* The kernel                                                              *)

\* try_http_filter: everything else is ignored.
IsHttpRequest(p) ==
    /\ p.proto = "tcp"
    /\ p.dst_port \in HttpPorts
    /\ p.payload # << >>
    /\ Head(p.payload) \in Upper

HttpFilter(c, p) ==
    LET now == Len(captured) + 1
        full == Len(buffer[c]) >= BufferSize
        event == [timestamp_ns |-> now, payload |-> Captured(p.payload)]
    IN  /\ Len(captured) < MaxPackets
        /\ IsHttpRequest(p)
        /\ captured' = Append(captured, [cpu |-> c, packet |-> p])
        /\ buffer' = IF full THEN buffer ELSE [buffer EXCEPT ![c] = Append(@, event)]
        /\ excused' = IF full THEN excused \cup {now} ELSE excused
        /\ UNCHANGED <<batch, rpc, received, restarts>>

-----------------------------------------------------------------------------
(* The loader: process_events and handle_tcp_event                         *)

\* read_events fills at most BatchSize buffers and waits when there is nothing.
ReadEvents(c) ==
    /\ batch[c] = << >>
    /\ buffer[c] # << >>
    /\ batch' = [batch EXCEPT ![c] = Prefix(buffer[c], BatchSize)]
    /\ buffer' = [buffer EXCEPT ![c] = Suffix(@, BatchSize + 1)]
    /\ UNCHANGED <<captured, rpc, received, excused, restarts>>

\* The struct read from the buffer and parsed.
Parsed(e) ==
    LET s == payload_bytes(e.payload)
    IN  [timestamp_ns |-> e.timestamp_ns, method |-> parse_method(s),
         path |-> parse_path(s), host |-> parse_host(s)]

\* A sample as long as the struct, with a method.
Reportable(e) ==
    KernelPayload >= UserPayload /\ parse_method(payload_bytes(e.payload)) # << >>

IgnoreEvent(c) ==
    /\ batch[c] # << >>
    /\ rpc[c] = "none"
    /\ ~ Reportable(Head(batch[c]))
    /\ batch' = [batch EXCEPT ![c] = Tail(@)]
    /\ excused' = excused \cup {Head(batch[c]).timestamp_ns}
    /\ UNCHANGED <<captured, buffer, rpc, received, restarts>>

\* Mutant: one client, locked for the duration of the call.
SendEvent_OneClient(c) ==
    /\ batch[c] # << >>
    /\ \A d \in Cpus : rpc[d] = "none"
    /\ Reportable(Head(batch[c]))
    /\ rpc' = [rpc EXCEPT ![c] = "sent"]
    /\ UNCHANGED <<captured, buffer, batch, received, excused, restarts>>

\* record_ebpf_event: every call has a clone of the client.
SendEvent(c) ==
    /\ batch[c] # << >>
    /\ rpc[c] = "none"
    /\ Reportable(Head(batch[c]))
    /\ rpc' = [rpc EXCEPT ![c] = "sent"]
    /\ UNCHANGED <<captured, buffer, batch, received, excused, restarts>>

\* Core's handler answers at once (module Ingest takes over).
CoreAccepts(c) ==
    /\ rpc[c] = "sent"
    /\ received' = Append(received, Parsed(Head(batch[c])))
    /\ rpc' = [rpc EXCEPT ![c] = "accepted"]
    /\ UNCHANGED <<captured, buffer, batch, excused, restarts>>

\* Mutant: the loop skips one event of the batch.
NextEvent_Skip(c) ==
    batch' = [batch EXCEPT ![c] = Suffix(@, 3)]

NextEvent(c) == batch' = [batch EXCEPT ![c] = Tail(@)]

\* Mutant: the task forgets that the call is over.
RpcSucceeds_NoReset(c) ==
    /\ rpc[c] = "accepted"
    /\ NextEvent(c)
    /\ UNCHANGED <<captured, buffer, rpc, received, excused, restarts>>

RpcSucceeds(c) ==
    /\ rpc[c] = "accepted"
    /\ rpc' = [rpc EXCEPT ![c] = "none"]
    /\ NextEvent(c)
    /\ UNCHANGED <<captured, buffer, received, excused, restarts>>

\* Mutant: a failed call is repeated.
RpcFails_Retry(c) ==
    /\ rpc[c] # "none"
    /\ rpc' = [rpc EXCEPT ![c] = "none"]
    /\ UNCHANGED <<captured, buffer, batch, received, excused, restarts>>

\* "Backend unavailable", perhaps after Core accepted the event: given up.
RpcFails(c) ==
    /\ rpc[c] # "none"
    /\ rpc' = [rpc EXCEPT ![c] = "none"]
    /\ excused' = excused \cup {Head(batch[c]).timestamp_ns}
    /\ NextEvent(c)
    /\ UNCHANGED <<captured, buffer, received, restarts>>

\* The buffers belong to the process; a new one starts with empty ones.
LoaderRestart ==
    /\ restarts < MaxRestarts
    /\ restarts' = restarts + 1
    /\ excused' = excused \cup
          UNION {{e.timestamp_ns : e \in Range(buffer[c] \o batch[c])} : c \in Cpus}
    /\ buffer' = [c \in Cpus |-> << >>]
    /\ batch' = [c \in Cpus |-> << >>]
    /\ rpc' = [c \in Cpus |-> "none"]
    /\ UNCHANGED <<captured, received>>

\* The steps of one CPU's task in the loader.
Reader(c) ==
    ReadEvents(c) \/ IgnoreEvent(c) \/ SendEvent(c) \/ RpcSucceeds(c) \/ RpcFails(c)

Next ==
    \/ \E c \in Cpus : (\E p \in Packets : HttpFilter(c, p)) \/ Reader(c) \/ CoreAccepts(c)
    \/ LoaderRestart

Spec == Init /\ [][Next]_vars

\* The runtime polls every reader task.  No call has a deadline, so only the
\* calls of one CPU are assumed to return.
FairSpec == Spec /\ WF_vars(Reader(RunningCpu))

-----------------------------------------------------------------------------
(* Properties                                                              *)

CpuOf(e) == captured[e.timestamp_ns].cpu

\* Core gets the events of one CPU at most once and in the order they were
\* captured, through batches, failed calls and restarts.  (Between CPUs there
\* is no order.)
OrderedPerCpu ==
    \A i, j \in DOMAIN received :
        (i < j /\ CpuOf(received[i]) = CpuOf(received[j]))
            => received[i].timestamp_ns < received[j].timestamp_ns

Waiting(ts) ==
    \E c \in Cpus : \E e \in Range(buffer[c] \o batch[c]) : e.timestamp_ns = ts

\* Every captured request waits in the loader, was accepted by Core, or was
\* given up for a reason: a full buffer, a failed call, a restart, no method.
\* Reading in batches loses none.
NoSilentLoss ==
    \A ts \in DOMAIN captured :
        \/ Waiting(ts)
        \/ ts \in excused
        \/ \E e \in Range(received) : e.timestamp_ns = ts

\* A call to Core that never returns holds up one CPU's task only: the events
\* of a CPU whose own calls return are handled, whatever the other tasks wait for.
CpusIndependent ==
    \A ts \in 1 .. MaxPackets :
        (\E e \in Range(buffer[RunningCpu] \o batch[RunningCpu]) : e.timestamp_ns = ts)
            ~> ~ Waiting(ts)

\* The Host header of a request, 0 if it has none, and what it says.
HostHeader(r) == SelectInSeq(r.headers, IsHostHeader)

HostValue(r) ==
    IF HostHeader(r) = 0 THEN << >> ELSE r.headers[HostHeader(r)].value

\* Nothing before the Host header says "Host:", nothing at all if there is none.
HostFirst(r) ==
    /\ HOST \notin Range(r.path)
    /\ \A i \in 1 .. Len(r.headers) :
          (HostHeader(r) = 0 \/ i < HostHeader(r)) => ~ SaysHost(r.headers[i])

HostName(value) == Before(value, {COLON})

Sent(r, e) == captured[e.timestamp_ns].packet.payload = RenderRequest(r)

\* What Core is told of a request is what the client sent: exactly, when the
\* request's head fits into the bytes that are kept, and otherwise with the
\* path and the host cut short at the end, never altered or mixed up.  (What
\* is kept of them is reported as nothing if it is no text.)  The host is the
\* Host header's where no "Host:" comes before it; see HostHeaderReported.
ReportFaithful ==
    \A e \in Range(received) : \A r \in Requests : Sent(r, e) =>
        /\ e.method = r.method
        /\ IsPrefix(e.path, r.path)
        /\ Len(RenderRequest(r)) <= UserPayload => e.path = Text(r.path)
        /\ HostFirst(r) =>
              /\ IsPrefix(e.host, HostName(HostValue(r)))
              /\ Len(RenderRequest(r)) <= UserPayload =>
                    e.host = HostName(Text(HostValue(r)))

\* "The userspace loader extracts ... HTTP method, path, and Host header": the
\* host that Core is told is the Host header's, wherever the client puts it
\* and whatever else the request says.  The parser searches the raw bytes and
\* takes the end of X-Forwarded-Host, or a "Host:" in the path, for it.
HostHeaderReported ==
    \A e \in Range(received) : \A r \in Requests :
        (Sent(r, e) /\ Len(RenderRequest(r)) <= UserPayload) =>
            e.host = HostName(Text(HostValue(r)))
=============================================================================
