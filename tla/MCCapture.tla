----------------------------- MODULE MCCapture -----------------------------
(***************************************************************************)
(* Instances of Capture for TLC: two CPUs and the segments of a few HTTP   *)
(* requests.                                                               *)
(***************************************************************************)
EXTENDS Capture

CONSTANTS GET, HTTP, slash, sub, b, c, p80, XForwarded, Accept

Header(name, end, value) == [name |-> name, end |-> end, value |-> value]
Request(path, headers) ==
    [method |-> <<GET>>, path |-> path, version |-> HTTP, headers |-> headers]

HostB == Header(<< >>, HOST, <<b, sub, COLON, p80>>)

HostC == Header(<<XForwarded>>, HOST, <<c>>)

\* A request that is too long, and one that fits exactly and passed a proxy.
Long == Request(<<slash, sub, sub, sub, sub, sub, sub>>,
                <<Header(<<Accept>>, COLON, <<c>>), HostB>>)
Forwarded == Request(<<slash, sub>>, <<HostB, HostC>>)

CaptureRequests == {Long, Forwarded}

\* The proxy's header comes before the Host header.
ForwardedFirst == Request(<<slash, sub>>, <<HostC, HostB>>)

HostRequests == {ForwardedFirst}

Segment(port, payload) == [proto |-> "tcp", dst_port |-> port, payload |-> payload]

RequestSegments == {Segment(port, RenderRequest(r)) : port \in HttpPorts, r \in Requests}

\* Beside the requests: the rest of a body that is no text but begins with a
\* capital letter, one that does not, a segment without data, a request on
\* another port, and a packet that is not TCP.
OtherSegments ==
    {Segment(port, s) : port \in HttpPorts, s \in {<<GET, NonUtf8, SP>>, <<sub, SP>>, << >>}}
    \cup {Segment(OtherPort, RenderRequest(r)) : r \in Requests}
    \cup {[Segment(OtherPort, << >>) EXCEPT !.proto = "other"]}

CapturePackets == RequestSegments \cup OtherSegments
=============================================================================
