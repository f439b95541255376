------------------------------ MODULE P2pService ------------------------------
(***************************************************************************)
(* `P2pCompactService`: the wallet service as a custom service of the      *)
(* Zakura network.  One task serves each connection: it joins the frames   *)
(* of a request, dispatches it, and cuts each response into frames, which  *)
(* the peer joins with the same `MessageDecoder`.  Zakura adds and removes *)
(* peers beside the tasks, and the launcher installs the wallet service.   *)
(*                                                                         *)
(* A payload is its length and the number of the message it belongs to.    *)
(***************************************************************************)
EXTENDS Naturals, Sequences, SequencesExt, FiniteSetsExt

CONSTANTS
    Conns,              \* the connections, of one peer
    FRAME_PAYLOAD_BYTES,
    MAX_MESSAGE_BYTES,
    ItemLens,           \* the lengths of the responses
    MaxItems,           \* bound: items of a stream
    MaxFrames           \* bound: frames that the peer sends on a connection

P2pBounds ==
    /\ FRAME_PAYLOAD_BYTES \in Nat \ {0} /\ MAX_MESSAGE_BYTES \in Nat \ {0}
    /\ ItemLens \subseteq Nat /\ MaxItems \in Nat /\ MaxFrames \in Nat

VARIABLES
    compact,    \* the wallet service is installed
    active,     \* active_peers: the connections that the service owns
    open,       \* the connections whose transport is open
    cancelled,  \* the connections whose service Zakura cancelled
    conn        \* what happens on each connection

vars == <<compact, active, open, cancelled, conn>>

\* The messages: a request with one response, a request with a stream, and the answers.
Requests == {"unary", "stream"}
Types == Requests \cup {"response", "StreamEnd", "ErrorResponse"}
NoMessage == [type |-> "none", len |-> 0]

\* pc: of the task. decoder: of the task. items: of the stream that still have to be sent.
\* todo: the frames of the message in work. wire: the frames that the peer has not read.
\* peer: the decoder of the peer. sent: the messages that the task sent. got: the messages of
\* the peer. answers: for each dispatched request, its type and its first place in `sent`.
New == [pc |-> "none", frames |-> 0, inbox |-> <<>>, decoder |-> NoMessage, items |-> <<>>,
        then |-> "recv", todo |-> <<>>, wire |-> <<>>, peer |-> NoMessage, sent |-> <<>>,
        got |-> <<>>, answers |-> <<>>]

Init ==
    /\ compact = FALSE /\ active = {} /\ open = {} /\ cancelled = {}
    /\ conn = [c \in Conns |-> New]

Set(c, fields) ==
    conn' = [conn EXCEPT ![c] = [f \in DOMAIN @ |-> IF f \in DOMAIN fields THEN fields[f] ELSE @[f]]]

-----------------------------------------------------------------------------
(* MessageDecoder::push (protocol/src/p2p.rs): the state after a frame, and *)
(* whether the message is complete.                                         *)

Frame(type, flags, len) == [type |-> type, flags |-> flags, len |-> len]

Accepts(decoder, frame) ==
    /\ frame.flags <= 1 /\ frame.type \in Types
    /\ decoder.type \in {"none", frame.type}
    /\ decoder.len + frame.len <= MAX_MESSAGE_BYTES

Pushed(decoder, frame) == [type |-> frame.type, len |-> decoder.len + frame.len]

\* send_bytes: a response above the limit becomes an error, and the payload is cut into frames.
Fits(type, len) ==
    IF len > MAX_MESSAGE_BYTES THEN [type |-> "ErrorResponse", len |-> 1]
    ELSE [type |-> type, len |-> len]

Chunks(m) ==
    LET n == (m.len + FRAME_PAYLOAD_BYTES - 1) \div FRAME_PAYLOAD_BYTES IN
    IF m.len = 0 THEN <<Frame(m.type, 0, 0)>>
    ELSE [i \in 1 .. n |->
            Frame(m.type, IF i < n THEN 1 ELSE 0,
                  Min({FRAME_PAYLOAD_BYTES, m.len - (i - 1) * FRAME_PAYLOAD_BYTES}))]

-----------------------------------------------------------------------------
(* Zakura: connections come and go.                                         *)

\* P2pCompactService::add_peer: the task starts, and the service owns the connection.
AddPeer(c) ==
    /\ conn[c].pc = "none"
    /\ open' = open \cup {c} /\ active' = active \cup {c}
    /\ Set(c, [pc |-> "recv"])
    /\ UNCHANGED <<compact, cancelled>>

\* The transport closes: a send fails, and after the frames in the inbox recv gives nothing.
Disconnect(c) ==
    /\ c \in open
    /\ open' = open \ {c}
    /\ UNCHANGED <<compact, active, cancelled, conn>>

RemoveEntry(c) == active' = active \ {c}

\* Zakura stops the service for the peer: it cancels its token and calls remove_peer.
RemovePeer(c) ==
    /\ conn[c].pc # "none" /\ c \notin cancelled
    /\ cancelled' = cancelled \cup {c}
    /\ RemoveEntry(c)
    /\ UNCHANGED <<compact, open, conn>>

\* P2pCompactService::install.
Install ==
    /\ ~compact /\ compact' = TRUE
    /\ UNCHANGED <<active, open, cancelled, conn>>

PeerSends(c) ==
    /\ c \in open /\ conn[c].frames < MaxFrames
    /\ \E type \in Types, flags \in 0 .. 2, len \in {0, FRAME_PAYLOAD_BYTES} :
          Set(c, [frames |-> conn[c].frames + 1,
                  inbox |-> Append(conn[c].inbox, Frame(type, flags, len))])
    /\ UNCHANGED <<compact, active, open, cancelled>>

\* The peer joins the frames of the answers.
PeerReads(c) ==
    /\ conn[c].wire # <<>>
    /\ LET frame == Head(conn[c].wire)
           ok == Accepts(conn[c].peer, frame)
           message == Pushed(conn[c].peer, frame) IN
       Set(c, [wire |-> Tail(conn[c].wire),
               peer |-> IF ok /\ frame.flags = 1 THEN message ELSE NoMessage,
               got |-> IF ~ok THEN Append(conn[c].got, NoMessage)
                       ELSE IF frame.flags = 1 THEN conn[c].got
                       ELSE Append(conn[c].got, message)])
    /\ UNCHANGED <<compact, active, open, cancelled>>

-----------------------------------------------------------------------------
(* The task of a connection.                                                *)

\* The end of the loop. `remove` is after it. A fault of the peer cancels the connection.
Ends(c, cancel) ==
    /\ Set(c, [pc |-> "ended"])
    /\ open' = IF cancel THEN open \ {c} ELSE open
    /\ RemoveEntry(c)
    /\ UNCHANGED <<compact, cancelled>>

Stops(c) ==
    /\ conn[c].pc = "recv"
    /\ c \in cancelled \/ (c \notin open /\ conn[c].inbox = <<>>)
    /\ Ends(c, FALSE)

\* One frame of the peer: not valid, not the last one, not a request, or a request.
Receives(c) ==
    /\ conn[c].pc = "recv" /\ conn[c].inbox # <<>>
    /\ LET frame == Head(conn[c].inbox)
           message == Pushed(conn[c].decoder, frame)
           rest == Tail(conn[c].inbox) IN
       \/ /\ ~Accepts(conn[c].decoder, frame)
          /\ Ends(c, TRUE)
       \/ /\ Accepts(conn[c].decoder, frame) /\ frame.flags = 1
          /\ Set(c, [inbox |-> rest, decoder |-> message])
          /\ UNCHANGED <<compact, active, open, cancelled>>
       \/ /\ Accepts(conn[c].decoder, frame) /\ frame.flags = 0 /\ frame.type \notin Requests
          /\ Ends(c, TRUE)
       \/ /\ Accepts(conn[c].decoder, frame) /\ frame.flags = 0 /\ frame.type \in Requests
          /\ Set(c, [inbox |-> rest, decoder |-> NoMessage, pc |-> "dispatch",
                     answers |-> Append(conn[c].answers,
                                        [type |-> frame.type, at |-> Len(conn[c].sent) + 1])])
          /\ UNCHANGED <<compact, active, open, cancelled>>

\* Send one message, then go on with `then`.
Message(c, type, len, items, then) ==
    LET m == Fits(type, len) IN
    Set(c, [pc |-> "sending", todo |-> Chunks(m), sent |-> Append(conn[c].sent, m),
            items |-> items, then |-> then])

Results == {<<"ok", len>> : len \in ItemLens} \cup {<<"err", 1>>}

\* P2pCompactService::dispatch: a service that starts, a request that does not decode, the
\* `unary!` and the `stream!` answers.
Dispatches(c) ==
    /\ conn[c].pc = "dispatch"
    /\ \/ ~compact /\ Message(c, "ErrorResponse", 1, <<>>, "recv") /\ UNCHANGED <<active, open>>
       \/ compact /\ Set(c, [pc |-> "ended"]) /\ open' = open \ {c} /\ RemoveEntry(c)
       \/ /\ compact /\ Last(conn[c].answers).type = "unary"
          /\ \E r \in Results :
                Message(c, IF r[1] = "ok" THEN "response" ELSE "ErrorResponse", r[2], <<>>, "recv")
          /\ UNCHANGED <<active, open>>
       \/ /\ compact /\ Last(conn[c].answers).type = "stream"
          /\ \E items \in BoundedSeq(Results, MaxItems) :
                Set(c, [pc |-> "items", items |-> items])
          /\ UNCHANGED <<active, open>>
    /\ UNCHANGED <<compact, cancelled>>

\* A mutant: the status of a failed item does not end the stream.
NextItemGoesOn(c) ==
    /\ conn[c].pc = "items"
    /\ IF conn[c].items = <<>> THEN Message(c, "StreamEnd", 0, <<>>, "recv")
       ELSE LET r == Head(conn[c].items) IN
            Message(c, IF r[1] = "ok" THEN "response" ELSE "ErrorResponse", r[2],
                    Tail(conn[c].items), "items")
    /\ UNCHANGED <<compact, active, open, cancelled>>

\* The loop of `stream!`: the next item, its failure, or the end.
NextItem(c) ==
    /\ conn[c].pc = "items"
    /\ IF conn[c].items = <<>> THEN Message(c, "StreamEnd", 0, <<>>, "recv")
       ELSE LET r == Head(conn[c].items) IN
            IF r[1] = "ok" THEN Message(c, "response", r[2], Tail(conn[c].items), "items")
            ELSE Message(c, "ErrorResponse", r[2], <<>>, "recv")
    /\ UNCHANGED <<compact, active, open, cancelled>>

\* One frame. A closed transport fails the send, and the task ends.
SendsFrame(c) ==
    /\ conn[c].pc = "sending"
    /\ \/ /\ c \in open
          /\ Set(c, [wire |-> Append(conn[c].wire, Head(conn[c].todo)), todo |-> Tail(conn[c].todo),
                     pc |-> IF Len(conn[c].todo) = 1 THEN conn[c].then ELSE "sending"])
          /\ UNCHANGED <<compact, active, open, cancelled>>
       \/ c \notin open /\ Ends(c, TRUE)

Task(c) == Stops(c) \/ Receives(c) \/ Dispatches(c) \/ NextItem(c) \/ SendsFrame(c)

Next ==
    \/ Install
    \/ \E c \in Conns :
          AddPeer(c) \/ Disconnect(c) \/ RemovePeer(c) \/ PeerSends(c) \/ PeerReads(c) \/ Task(c)

(* Fairness: the runtime polls each task. Nothing is asked of the peer.     *)
Spec == Init /\ [][Next]_vars /\ \A c \in Conns : WF_vars(Task(c))

-----------------------------------------------------------------------------
(* The service owns a connection only while its task serves it, and the     *)
(* removal of one connection of a peer leaves its other connection owned.   *)
OwnsTheServedConnections ==
    /\ \A c \in active : conn[c].pc \notin {"none", "ended"}
    /\ \A c \in Conns \ cancelled : conn[c].pc \notin {"none", "ended"} => c \in active

(* What the peer joins is what the task sent, message for message: each     *)
(* response that send_bytes cuts into frames, of length zero, of whole      *)
(* frames, at the limit and above it, goes through MessageDecoder.          *)
PeerJoinsWhatWasSent == \A c \in Conns : IsPrefix(conn[c].got, conn[c].sent)

(* The frames of a request that is not complete take at most the bytes of   *)
(* one message.                                                             *)
DecoderIsBounded ==
    \A c \in Conns : conn[c].decoder.len <= MAX_MESSAGE_BYTES

(* The peer can tell the answers of two requests apart: the answer of a     *)
(* request ends with its only StreamEnd or ErrorResponse, or with the one   *)
(* response of a unary request, and the next answer starts after it.        *)
AnswersEndOnce ==
    \A c \in Conns : \A k \in 1 .. Len(conn[c].answers) :
        LET answers == conn[c].answers
            first == answers[k].at
            last == IF k < Len(answers) THEN answers[k + 1].at - 1 ELSE Len(conn[c].sent)
            complete == k < Len(answers) \/ conn[c].pc = "recv"
            Ends1(i) == conn[c].sent[i].type # "response" \/ answers[k].type = "unary" IN
        /\ \A i \in first .. last - 1 : ~Ends1(i)
        /\ complete => first <= last /\ Ends1(last)

GoneIsEnded(c) == c \in cancelled /\ c \notin open => conn[c].pc = "ended"

(* A task ends after Zakura cancelled its service and the transport closed: *)
(* no connection that went away keeps a task or a place in active_peers.    *)
TasksEnd == \A c \in Conns : []<>GoneIsEnded(c)

\* The answers on one ordered stream: the peer joins the messages that were sent, each answer
\* ends once and before the next, and an incomplete request takes at most one message.
PeerAnswersAreWhole == PeerJoinsWhatWasSent /\ AnswersEndOnce /\ DecoderIsBounded
=============================================================================
