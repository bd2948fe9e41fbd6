--------------------------- MODULE JudgeConnection ---------------------------
(***************************************************************************)
(* The connections of one judge to the bridge, below JudgeList: how the    *)
(* bytes of a socket become packets (src/judge/bridge/base_handler.py),    *)
(* and how the judge's row in the database follows its connections         *)
(* (_connected and _disconnected in judge_handler.py).  A packet is a size *)
(* and a body, a byte the pair of its packet and its place in it; packet 0 *)
(* is the header line of a proxy.  Every recv returns as many bytes as the *)
(* network pleases.  The first packet is the handshake.  A peer that       *)
(* breaks the protocol (a packet too large, not compressed, a malformed    *)
(* line) ends its connection, as one does that closes it.                  *)
(***************************************************************************)
EXTENDS Naturals, Sequences, SequencesExt

CONSTANTS
  Conns,      \* connections of the judge, old and new
  Proxied,    \* those that come through a proxy of BRIDGED_JUDGE_PROXIES
  SizeBytes,  \* the bytes of a size: 4
  HeaderLen,  \* the bytes of the proxy's line; the first SizeBytes are its tag
  Sizes,      \* per connection the lengths of the bodies its peer sends, at most
  None,       \* no form is being saved
  MaxFaults   \* bound: crashes of the daemon and forms of administrators

ASSUME ConnectionAssumption ==
  /\ Proxied \subseteq Conns
  /\ SizeBytes \in Nat \ {0} /\ HeaderLen \in Nat /\ HeaderLen > SizeBytes
  /\ Sizes \in [Conns -> Seq(Nat)]

VARIABLES
  peer,      \* per connection: "new", "alive", "silent" or "closed"
  sent,      \* the number of packets the peer has sent
  cut,       \* the connection was closed with bytes under way
  wire,      \* the bytes under way
  handler,   \* the handler's place in handle(), its buffer and size
  got,       \* the bodies given to on_packet
  phase,     \* how far the site has come with the connection's name
  up,        \* the daemon runs
  row,       \* the judge's row: [online, is_blocked]
  loaded,    \* per connection the row as _connected read it
  versions,  \* the connections whose runtime versions are stored
  form,      \* the row as an administrator's form read it
  late,      \* history: why the row may be wrong: "leave", "form"
  faults

netVars == <<peer, sent, cut, wire>>
rowVars == <<row, loaded, versions, form, late>>
connectionVars == <<netVars, handler, got, phase, up, rowVars, faults>>

Byte(k, i) == <<k, i>>
Body(c, k) == [i \in 1 .. Sizes[c][k] |-> Byte(k, SizeBytes + i)]
Bytes(c, k) ==
  [i \in 1 .. (IF k = 0 THEN HeaderLen ELSE SizeBytes + Sizes[c][k]) |-> Byte(k, i)]
EndOfLine == Byte(0, HeaderLen)
IsTag(buffer) == buffer[1] = Byte(0, 1)

Running == {"size", "header", "remainder", "body"}
Ended == [at |-> "done", buffer |-> <<>>, size |-> 0, short |-> FALSE]
EndedShort == [Ended EXCEPT !.short = TRUE]
AtSize(buffer, short) == [at |-> "size", buffer |-> buffer, size |-> 0, short |-> short]

Init ==
  /\ peer = [c \in Conns |-> "new"] /\ sent = [c \in Conns |-> 0]
  /\ cut = [c \in Conns |-> FALSE] /\ wire = [c \in Conns |-> <<>>]
  /\ handler = [c \in Conns |-> Ended] /\ got = [c \in Conns |-> <<>>]
  /\ phase = [c \in Conns |-> "new"] /\ up = TRUE
  /\ row = [online |-> FALSE, is_blocked |-> FALSE]
  /\ loaded = [c \in Conns |-> None] /\ versions = {}
  /\ form = None /\ late = {} /\ faults = 0

-----------------------------------------------------------------------------
(* The judge and the network.                                              *)

Connect(c) ==
  /\ up /\ peer[c] = "new"
  /\ peer' = [peer EXCEPT ![c] = "alive"]
  /\ wire' = [wire EXCEPT ![c] = IF c \in Proxied THEN Bytes(c, 0) ELSE <<>>]
  /\ handler' = [handler EXCEPT ![c] = AtSize(<<>>, FALSE)]
  /\ phase' = [phase EXCEPT ![c] = "anonymous"]
  /\ UNCHANGED <<sent, cut, got, up, rowVars, faults>>

SendPacket(c) ==
  /\ peer[c] = "alive" /\ sent[c] < Len(Sizes[c])
  /\ sent' = [sent EXCEPT ![c] = @ + 1]
  /\ wire' = [wire EXCEPT ![c] = @ \o Bytes(c, sent[c] + 1)]
  /\ UNCHANGED <<peer, cut, handler, got, phase, up, rowVars, faults>>

\* The judge or the bridge shuts the socket down; what is not received yet may
\* be lost from anywhere on, and then recv returns nothing.
Shutdown(c) ==
  /\ peer' = [peer EXCEPT ![c] = "closed"]
  /\ \E n \in 0 .. Len(wire[c]) :
       /\ wire' = [wire EXCEPT ![c] = SubSeq(@, 1, n)]
       /\ cut' = [cut EXCEPT ![c] = @ \/ n < Len(wire[c])]
  /\ UNCHANGED sent

\* A judge ends; or the ping thread, a wrong acknowledgement or an administrator
\* closes it.
Close(c) ==
  /\ peer[c] \in {"alive", "silent"} /\ Shutdown(c)
  /\ UNCHANGED <<handler, got, phase, up, rowVars, faults>>

\* The judge dies without a word, its host or its network with it.
Silence(c) ==
  /\ peer[c] = "alive"
  /\ peer' = [peer EXCEPT ![c] = "silent"]
  /\ UNCHANGED <<sent, cut, wire, handler, got, phase, up, rowVars, faults>>

-----------------------------------------------------------------------------
(* handle(): one step for each recv, and for each round over what is left  *)
(* of the proxy's line.                                                    *)

Idle(c) == handler[c].at \in Running /\ phase[c] \in {"anonymous", "refused", "named"}

\* recv(n) returns some bytes.
Recv(c, n) == {SubSeq(wire[c], 1, i) : i \in 1 .. (IF n < Len(wire[c]) THEN n ELSE Len(wire[c]))}
Received(c, data) ==
  /\ wire' = [wire EXCEPT ![c] = SubSeq(@, Len(data) + 1, Len(@))]
  /\ UNCHANGED <<peer, sent, cut>>

\* The size in the SizeBytes bytes of a buffer; those of something else than a
\* size make some number.
Unpack(c, buffer) ==
  LET k == buffer[1][1]
  IN IF k > 0 /\ buffer = SubSeq(Bytes(c, k), 1, SizeBytes) THEN Sizes[c][k] ELSE 1

\* on_packet: the handshake registers the judge, or is refused: close().
OnPacket(c, data) ==
  /\ got' = [got EXCEPT ![c] = Append(@, data)]
  /\ phase' = [phase EXCEPT ![c] =
       IF @ # "anonymous" THEN @ ELSE IF row.is_blocked THEN "refuse" ELSE "load"]

\* Variant with a bug: what was received with the proxy's line is read again.
NeedAll(size, buffer) == size

Need(size, buffer) == size - Len(buffer)

\* read_sized_packet, up to its first recv: after a body that is complete the
\* handler reads the next size, or ends when its remainder was too short for one.
ReadSizedPacket(c, size, initial, short) ==
  IF Need(size, initial) = 0
    THEN /\ OnPacket(c, initial)
         /\ handler' = [handler EXCEPT ![c] = IF short THEN EndedShort ELSE AtSize(<<>>, FALSE)]
    ELSE /\ handler' = [handler EXCEPT ![c] =
              [at |-> "body", buffer |-> initial, size |-> size, short |-> short]]
         /\ UNCHANGED <<got, phase>>

ReadSize(c) ==
  /\ Idle(c) /\ handler[c].at = "size"
  /\ \E data \in Recv(c, SizeBytes - Len(handler[c].buffer)) :
       LET buffer == handler[c].buffer \o data
       IN /\ IF Len(buffer) < SizeBytes
               THEN /\ handler' = [handler EXCEPT ![c].buffer = buffer]
                    /\ UNCHANGED <<got, phase>>
             ELSE IF c \in Proxied /\ IsTag(buffer)
               THEN /\ handler' = [handler EXCEPT ![c].buffer = buffer, ![c].at = "header"]
                    /\ UNCHANGED <<got, phase>>
             ELSE ReadSizedPacket(c, Unpack(c, buffer), <<>>, handler[c].short)
          /\ Received(c, data)
  /\ UNCHANGED <<up, rowVars, faults>>

\* read_proxy_header takes up to 107 bytes at a time, packets after the line
\* with them.
ReadHeader(c) ==
  /\ Idle(c) /\ handler[c].at = "header"
  /\ \E data \in Recv(c, 107) :
       LET buffer == handler[c].buffer \o data
       IN /\ handler' = [handler EXCEPT ![c] =
               IF Contains(buffer, EndOfLine)
                 THEN [@ EXCEPT !.at = "remainder",
                                !.buffer = SubSeq(buffer, HeaderLen + 1, Len(buffer))]
                 ELSE [@ EXCEPT !.buffer = buffer]]
          /\ Received(c, data)
  /\ UNCHANGED <<got, phase, up, rowVars, faults>>

\* A round of the loop over the remainder.
Remainder(c) ==
  /\ Idle(c) /\ handler[c].at = "remainder"
  /\ LET left == handler[c].buffer
         size == Unpack(c, SubSeq(left, 1, SizeBytes))
         rest == SubSeq(left, SizeBytes + 1, Len(left))
     IN CASE left = <<>> ->
               handler' = [handler EXCEPT ![c] = AtSize(<<>>, FALSE)] /\ UNCHANGED <<got, phase>>
          \* The inner loop reads one packet; then unpack() raises.
          [] left # <<>> /\ Len(left) < SizeBytes ->
               handler' = [handler EXCEPT ![c] = AtSize(left, TRUE)] /\ UNCHANGED <<got, phase>>
          [] Len(left) >= SizeBytes /\ Len(rest) <= size ->
               ReadSizedPacket(c, size, rest, FALSE)
          [] Len(left) >= SizeBytes /\ Len(rest) > size ->
               /\ OnPacket(c, SubSeq(rest, 1, size))
               /\ handler' = [handler EXCEPT ![c].buffer = SubSeq(rest, size + 1, Len(rest))]
  /\ UNCHANGED <<netVars, up, rowVars, faults>>

ReadBody(c) ==
  /\ Idle(c) /\ handler[c].at = "body"
  /\ \E data \in Recv(c, Need(handler[c].size, handler[c].buffer)) :
       /\ ReadSizedPacket(c, handler[c].size, handler[c].buffer \o data, handler[c].short)
       /\ Received(c, data)
  /\ UNCHANGED <<up, rowVars, faults>>

\* Variant with a bug: read_size tries again for ever, too.
EndInHeaderOnly(c) ==
  handler[c].at = "header" /\ wire[c] = <<>> /\ peer[c] = "closed"

\* read_size and read_proxy_header raise Disconnect when recv returns nothing;
\* read_sized_packet tries again for ever.
EndNoticed(c) ==
  handler[c].at \in {"size", "header"} /\ wire[c] = <<>> /\ peer[c] = "closed"

\* The socket's timeout, 15 seconds before the handshake and 60 after it; a judge
\* that is alive answers the pings.
TimedOut(c) ==
  handler[c].at \in {"size", "header", "body"} /\ wire[c] = <<>> /\ peer[c] = "silent"

\* handle() returns, and on_disconnect begins.
HandleEnds(c) ==
  /\ Idle(c) /\ (EndNoticed(c) \/ TimedOut(c))
  /\ handler' = [handler EXCEPT ![c] = Ended]
  /\ UNCHANGED <<netVars, got, phase, up, rowVars, faults>>

-----------------------------------------------------------------------------
(* The row.                                                                *)

Others(c) == Conns \ {c}
Goes(c, from, to) == phase[c] = from /\ phase' = [phase EXCEPT ![c] = to]

\* After a refused handshake the bridge closes the socket, and goes on reading
\* what has been received.
Refuse(c) ==
  /\ Goes(c, "refuse", "refused")
  /\ IF peer[c] = "closed" THEN UNCHANGED netVars ELSE Shutdown(c)
  /\ UNCHANGED <<handler, got, up, rowVars, faults>>

Load(c) ==
  /\ Goes(c, "load", "delete")
  /\ loaded' = [loaded EXCEPT ![c] = [row EXCEPT !.online = TRUE]]
  /\ UNCHANGED <<netVars, handler, got, up, row, versions, form, late, faults>>

DeleteVersions(c) ==
  /\ Goes(c, "delete", "create")
  /\ versions' = {}
  /\ UNCHANGED <<netVars, handler, got, up, row, loaded, form, late, faults>>

CreateVersions(c) ==
  /\ Goes(c, "create", "save")
  /\ versions' = versions \cup {c}
  /\ UNCHANGED <<netVars, handler, got, up, row, loaded, form, late, faults>>

\* judge.save() writes the whole row as it was loaded.
SaveRow(c) ==
  /\ Goes(c, "save", "named")
  /\ row' = loaded[c] /\ loaded' = [loaded EXCEPT ![c] = None]
  /\ UNCHANGED <<netVars, handler, got, up, versions, form, late, faults>>

Connecting == {"delete", "create", "save"}

\* on_disconnect of a judge with a name: offline, whoever else has it.
SetOffline(c) ==
  /\ handler[c].at = "done" /\ Goes(c, "named", "leave")
  /\ row' = [row EXCEPT !.online = FALSE]
  /\ late' = late \cup
       (IF \E o \in Others(c) : phase[o] \in Connecting \cup {"named"} THEN {"leave"} ELSE {})
  /\ UNCHANGED <<netVars, handler, got, up, loaded, versions, form, faults>>

ForgetVersions(c) ==
  /\ Goes(c, "leave", "gone")
  /\ versions' = {}
  /\ late' = late \cup
       (IF \E o \in Others(c) : phase[o] \in {"save", "named"} THEN {"leave"} ELSE {})
  /\ UNCHANGED <<netVars, handler, got, up, row, loaded, form, faults>>

\* A connection without a name leaves nothing to undo.
LeaveNameless(c) ==
  /\ handler[c].at = "done" /\ phase[c] \in {"anonymous", "refused"}
  /\ phase' = [phase EXCEPT ![c] = "gone"]
  /\ UNCHANGED <<netVars, handler, got, up, rowVars, faults>>

\* The form of an administrator reads the row, and saves it whole.
LoadForm ==
  /\ form = None /\ faults < MaxFaults /\ faults' = faults + 1
  /\ form' = [row EXCEPT !.is_blocked = ~@]
  /\ UNCHANGED <<netVars, handler, got, phase, up, row, loaded, versions, late>>

SaveForm ==
  /\ form # None
  /\ row' = form /\ form' = None
  /\ late' = late \cup (IF row.online # form.online THEN {"form"} ELSE {})
  /\ UNCHANGED <<netVars, handler, got, phase, up, loaded, versions, faults>>

-----------------------------------------------------------------------------
(* The daemon dies, its sockets with it, and starts again.                 *)

Crash ==
  /\ up /\ faults < MaxFaults /\ faults' = faults + 1
  /\ up' = FALSE
  /\ LET open == {c \in Conns : phase[c] \notin {"new", "gone"}}
     IN /\ peer' = [c \in Conns |-> IF c \in open THEN "closed" ELSE peer[c]]
        /\ wire' = [c \in Conns |-> IF c \in open THEN <<>> ELSE wire[c]]
        /\ cut' = [c \in Conns |-> cut[c] \/ c \in open]
        /\ handler' = [c \in Conns |-> IF c \in open THEN Ended ELSE handler[c]]
        /\ phase' = [c \in Conns |-> IF c \in open THEN "gone" ELSE phase[c]]
        /\ loaded' = [c \in Conns |-> None]
  /\ UNCHANGED <<sent, got, row, versions, form, late>>

\* Variant with a bug: the judges' rows are not reset.
NoReset == row

ResetJudges == [row EXCEPT !.online = FALSE]

Restart ==
  /\ ~up /\ up' = TRUE
  /\ row' = ResetJudges
  /\ UNCHANGED <<netVars, handler, got, phase, loaded, versions, form, late, faults>>

-----------------------------------------------------------------------------
Handle(c) ==
  \/ ReadSize(c) \/ ReadHeader(c) \/ Remainder(c) \/ ReadBody(c) \/ HandleEnds(c)
  \/ Refuse(c)
  \/ Load(c) \/ DeleteVersions(c) \/ CreateVersions(c) \/ SaveRow(c)
  \/ SetOffline(c) \/ ForgetVersions(c) \/ LeaveNameless(c)

Next ==
  \/ \E c \in Conns : Connect(c) \/ SendPacket(c) \/ Close(c) \/ Silence(c) \/ Handle(c)
  \/ LoadForm \/ SaveForm
  \/ Crash \/ Restart

\* The thread of a connection goes on.
Spec == Init /\ [][Next]_connectionVars /\ \A c \in Conns : WF_connectionVars(Handle(c))
-----------------------------------------------------------------------------
\* However the stream is cut into pieces, and whatever comes with the line of a
\* proxy, on_packet is given the packets that were sent, in order and once each;
\* and by the end all of them, unless bytes were lost, or the piece after the
\* proxy's line ended within a size.
FramesIntact ==
  \A c \in Conns :
    /\ Len(got[c]) <= sent[c]
    /\ \A k \in DOMAIN got[c] : got[c][k] = Body(c, k)
    /\ phase[c] # "new" /\ handler[c] = Ended /\ ~cut[c] => Len(got[c]) = sent[c]

Named == {c \in Conns : phase[c] = "named"}
AtRest ==
  up /\ form = None /\ \A c \in Conns : phase[c] \notin Connecting \cup {"load", "refuse", "leave"}

\* Across connections, reconnections, refusals and crashes, a judge is shown
\* online exactly while it has a connection, with the versions of one; except after
\* the end of an old connection beside a newer one, or a form that was read
\* before a change and saved after it.
OnlineIsConnected ==
  AtRest /\ "form" \notin late =>
    /\ row.online => Named # {}
    /\ "leave" \notin late /\ Named # {} => row.online /\ versions # {} /\ versions \subseteq Named

\* The thread is in read_sized_packet at the end of the stream.
Spinning(c) == handler[c].at = "body" /\ wire[c] = <<>> /\ peer[c] = "closed"

\* A judge that goes or falls silent, wherever in a packet, is noticed, unless the
\* stream ends within a body: then the thread spins, and the judge stays.
EndIsNoticed ==
  \A c \in Conns : peer[c] \in {"closed", "silent"} ~> handler[c].at = "done" \/ Spinning(c)
=============================================================================
