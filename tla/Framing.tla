-------------------------------- MODULE Framing --------------------------------
(***************************************************************************)
(* OTPProtocol: how datagrams travel over the byte stream of a connection. *)
(* The sending end queues datagrams and a task of its own writes each with *)
(* a header of two bytes that holds its length.  At the receiving end all  *)
(* connections of a process share one event loop: data_received and the    *)
(* reading tasks run one at a time, and a reading task gives the loop back *)
(* only when it sleeps.                                                    *)
(*                                                                         *)
(* A byte is a record of its datagram and its place in it, so that a       *)
(* reader that loses the boundaries is seen to.  A call of data_received   *)
(* brings one byte: several bytes are several calls in a row.              *)
(***************************************************************************)
EXTENDS Integers, Sequences, SequencesExt

CONSTANTS
    Conn,       \* the connections to one process
    Datagram,   \* the datagrams that are sent
    Size,       \* Size[d]: the bytes of d, its header not counted
    Raising,    \* the datagrams whose handler raises an exception
    MaxSize,    \* the largest length that two bytes hold
    Nobody,     \* nobody: the event loop is free
    MaxSends    \* bound: datagrams sent

ASSUME SizeAssumption ==
    /\ Size \in [Datagram -> Nat]
    /\ Raising \subseteq {d \in Datagram : Size[d] > 0}
    /\ Nobody \notin Conn
    /\ MaxSize \in Nat /\ MaxSends \in Nat

VARIABLES
    outgoing_q, \* datagrams that wait to be written
    writing,    \* whether the task transport_datagrams is alive
    wire,       \* bytes on their way
    buf,        \* bytes received and not yet read
    expected,   \* length of the datagram whose header was read, or 0
    open,       \* whether the connection stands
    running,    \* the connection whose reading task has the event loop
    sends,      \* number of datagrams sent
    sent,       \* history: those of them that have a byte, in order
    handled     \* history: what was handled, in order

streamVars == <<outgoing_q, writing, wire, buf, expected, open, running, sends, sent, handled>>

HeaderSize == 2
NotEmpty(d) == Size[d] > 0
Bytes(d) == [k \in 1..(HeaderSize + Size[d]) |-> [dg |-> d, at |-> k]]

StreamInit ==
    /\ outgoing_q = [c \in Conn |-> <<>>]
    /\ writing = [c \in Conn |-> TRUE]
    /\ wire = [c \in Conn |-> <<>>]
    /\ buf = [c \in Conn |-> <<>>]
    /\ expected = [c \in Conn |-> 0]
    /\ open = [c \in Conn |-> TRUE]
    /\ running = Nobody
    /\ sends = 0
    /\ sent = [c \in Conn |-> <<>>]
    /\ handled = [c \in Conn |-> <<>>]

(***************************************************************************)
(* The sending end.                                                        *)
(***************************************************************************)
SendDatagram(c, d) ==
    /\ open[c]
    /\ sends < MaxSends
    /\ sends' = sends + 1
    /\ outgoing_q' = [outgoing_q EXCEPT ![c] = Append(@, d)]
    /\ sent' = IF NotEmpty(d) THEN [sent EXCEPT ![c] = Append(@, d)] ELSE sent
    /\ UNCHANGED <<writing, wire, buf, expected, open, running, handled>>

(* A length that two bytes cannot hold raises in the writing task, which   *)
(* is over then; nobody notices.                                           *)
TransportDatagram(c) ==
    /\ open[c] /\ writing[c] /\ outgoing_q[c] # <<>>
    /\ LET d == Head(outgoing_q[c]) IN
          IF Size[d] > MaxSize
          THEN writing' = [writing EXCEPT ![c] = FALSE] /\ wire' = wire
          ELSE wire' = [wire EXCEPT ![c] = @ \o Bytes(d)] /\ writing' = writing
    /\ outgoing_q' = [outgoing_q EXCEPT ![c] = Tail(@)]
    /\ UNCHANGED <<buf, expected, open, running, sends, sent, handled>>

(***************************************************************************)
(* The receiving end.                                                      *)
(***************************************************************************)
DataReceived(c) ==
    /\ running = Nobody
    /\ open[c] /\ wire[c] # <<>>
    /\ buf' = [buf EXCEPT ![c] = Append(@, Head(wire[c]))]
    /\ wire' = [wire EXCEPT ![c] = Tail(@)]
    /\ UNCHANGED <<outgoing_q, writing, expected, open, running, sends, sent, handled>>

(* Both ends cancel their tasks: what is queued, on its way or received    *)
(* but not yet read is never handled.                                      *)
StreamLost(c) ==
    /\ running = Nobody
    /\ open[c]
    /\ open' = [open EXCEPT ![c] = FALSE]
    /\ UNCHANGED <<outgoing_q, writing, wire, buf, expected, running, sends, sent, handled>>

(* The reading task wakes up from its sleep.                               *)
Wake(c) ==
    /\ running = Nobody
    /\ open[c]
    /\ running' = c
    /\ UNCHANGED <<outgoing_q, writing, wire, buf, expected, open, sends, sent, handled>>

\* Mutant: a header is read when a second one could follow it.
ReadHeaderLate(c) ==
    /\ running = c
    /\ expected[c] = 0
    /\ Len(buf[c]) > 2 * HeaderSize
    /\ expected' = [expected EXCEPT ![c] = Size[Head(buf[c]).dg]]
    /\ buf' = [buf EXCEPT ![c] = SubSeq(@, HeaderSize + 1, Len(@))]
    /\ UNCHANGED <<outgoing_q, writing, wire, open, running, sends, sent, handled>>

ReadHeader(c) ==
    /\ running = c
    /\ expected[c] = 0
    /\ Len(buf[c]) > HeaderSize
    /\ expected' = [expected EXCEPT ![c] = Size[Head(buf[c]).dg]]
    /\ buf' = [buf EXCEPT ![c] = SubSeq(@, HeaderSize + 1, Len(@))]
    /\ UNCHANGED <<outgoing_q, writing, wire, open, running, sends, sent, handled>>

(* The datagram that the handler is given: Garbled if its bytes are not    *)
(* those that one datagram was sent with.                                  *)
Garbled == "garbled"
Delivered(bytes) ==
    LET d == Head(bytes).dg
    IN  IF bytes = SubSeq(Bytes(d), HeaderSize + 1, HeaderSize + Size[d]) THEN d ELSE Garbled

Complete(c)     == expected[c] > 0 /\ Len(buf[c]) >= expected[c]
NextDatagram(c) == Delivered(SubSeq(buf[c], 1, expected[c]))

\* Mutant: what was expected is forgotten, the bytes are not removed.
HandleInPlace(c) ==
    /\ running = c
    /\ Complete(c)
    /\ NextDatagram(c) \notin Raising
    /\ handled' = [handled EXCEPT ![c] = Append(@, NextDatagram(c))]
    /\ expected' = [expected EXCEPT ![c] = 0]
    /\ UNCHANGED <<outgoing_q, writing, wire, buf, open, running, sends, sent>>

HandleDatagram(c) ==
    /\ running = c
    /\ Complete(c)
    /\ NextDatagram(c) \notin Raising
    /\ handled' = [handled EXCEPT ![c] = Append(@, NextDatagram(c))]
    /\ buf' = [buf EXCEPT ![c] = SubSeq(@, expected[c] + 1, Len(@))]
    /\ expected' = [expected EXCEPT ![c] = 0]
    /\ UNCHANGED <<outgoing_q, writing, wire, open, running, sends, sent>>

(* The handler raises before the datagram is taken from the buffer: the    *)
(* loop prints the exception and tries again, without a pause.             *)
RetryDatagram(c) ==
    /\ running = c
    /\ Complete(c)
    /\ NextDatagram(c) \in Raising
    /\ UNCHANGED streamVars

Sleep(c) ==
    /\ running = c
    /\ IF expected[c] > 0 THEN Len(buf[c]) < expected[c] ELSE Len(buf[c]) <= HeaderSize
    /\ running' = Nobody
    /\ UNCHANGED <<outgoing_q, writing, wire, buf, expected, open, sends, sent, handled>>

Read(c) == ReadHeader(c) \/ HandleDatagram(c) \/ RetryDatagram(c) \/ Sleep(c)

StreamNext ==
    \E c \in Conn :
        \/ \E d \in Datagram : SendDatagram(c, d)
        \/ TransportDatagram(c) \/ DataReceived(c) \/ StreamLost(c) \/ Wake(c) \/ Read(c)

(* The event loop runs what is ready in turn: a sleeper is woken however   *)
(* busy the other connections are (strong fairness: running comes and      *)
(* goes), and bytes on the wire arrive.                                    *)
StreamFairness ==
    \A c \in Conn :
        /\ WF_streamVars(TransportDatagram(c)) /\ WF_streamVars(Read(c))
        /\ SF_streamVars(DataReceived(c)) /\ SF_streamVars(Wake(c))

StreamSpec == StreamInit /\ [][StreamNext]_streamVars /\ StreamFairness

-----------------------------------------------------------------------------
(* However the stream is cut into pieces, datagrams are handled whole, in  *)
(* the order they were sent, each at most once and none skipped, but those *)
(* without a byte, which handle_datagrams takes for a missing header.      *)
HandledInOrder ==
    \A c \in Conn : IsPrefix(handled[c], sent[c])

(* A handler that raised has the event loop of the process.                *)
Hung == running # Nobody /\ Complete(running) /\ NextDatagram(running) \in Raising

(* Every datagram is handled in the end, unless its connection is lost,    *)
(* one before it was too long to be written, or a handler raised - at any  *)
(* connection of the process: nobody has the event loop from then on       *)
(* (transport_datagrams, handle_datagrams).                                *)
EverythingHandled ==
    \A c \in Conn :
        []<>(handled[c] = sent[c] \/ ~open[c] \/ ~writing[c] \/ Hung)
=============================================================================
