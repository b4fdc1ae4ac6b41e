----------------------------- MODULE OcBlockwise -----------------------------
(***************************************************************************)
(* Block-wise transfer between one client and one server over UDP: the     *)
(* buffers of api/oc_blockwise.c and what messaging/coap/engine.c does     *)
(* with them when it sends a payload block by block (Block1) and when it   *)
(* fetches an answer block by block (Block2).                              *)
(*                                                                         *)
(* A block is a number and the payload it belongs to, and all blocks have  *)
(* the same size, so an offset is a number of blocks.  The key of a        *)
(* request is what the server finds a buffer by: URI, query and method of  *)
(* this client.  A request's token is the request itself.                  *)
(*                                                                         *)
(* The network delays, reorders and loses messages, which are in net until *)
(* they are received; receiving a copy leaves the message there, be it the *)
(* network's or a retransmission's.  The transactions of the server thus   *)
(* need no state.  A message ID of the server (0) is none of the client's. *)
(*                                                                         *)
(* Left out: multicast, observations, separate responses, TCP, changes of  *)
(* the size of a block, refused memory, and the answer 4.13.               *)
(***************************************************************************)
EXTENDS Integers, FiniteSets, SequencesExt

CONSTANTS
  Key,         \* URI, query and method, as the server compares them
  Kind,        \* kinds of requests the client's application issues
  None,        \* no buffer, no payload
  MaxRequests, \* bound: requests the application issues
  MaxMid,      \* bound: messages the client sends
  MaxCopies    \* bound: messages received once more

\* A request has up blocks of payload, 0 for a GET, its answer has down
\* blocks, and con tells whether it is issued with HIGH_QOS.
ASSUME KindAssumption ==
  Kind \subseteq [key : Key, up : Nat, down : Nat, con : BOOLEAN]

ASSUME BoundsAssumption ==
  MaxRequests \in Nat /\ MaxMid \in Nat /\ MaxCopies \in Nat

Request == 1..MaxRequests

\* Blocks of uploads and of answers.
Blocks == [req : Request, num : Nat]
Parts == [key : Key, run : Nat \ {0}, num : Nat]

\* The null pointer is no message ID, no block and no buffer.
ASSUME NoneAssumption ==
  /\ None \notin Nat \cup Parts \cup Seq(Blocks) \cup Seq(Parts)
  /\ None \notin [blocks : Seq(Blocks), size : {0}]
  /\ None \notin [mid : Nat, blocks : Seq(Parts)]
  /\ None \notin [run : Nat, size : Nat, next : Nat]

VARIABLES
  net,      \* messages that may still be received
  copies,   \* messages that were received and may be received again
  expired,  \* whether any timer has ended an exchange or freed a buffer
  mid,      \* the client's last message ID
  asked,    \* the kinds of the requests issued so far
  shared,   \* keys of which two requests have been under way at a time
  cb,       \* for each request, its client callback and whether the transaction
            \* of the message ID it bears is open
  creq,     \* the client's request buffers: the message ID of the last block
  cres,     \* the client's response buffers
  handed,   \* for each request, what its handler was called with
  seen,     \* g_history: message IDs of the NON requests received
  sreq,     \* the server's request buffers, one for a key
  sres,     \* the server's response buffers of each key, as listed
  served    \* for each key, the payloads its handler was called with

client == <<mid, asked, shared, cb, creq, cres, handed>>
server == <<seen, sreq, sres, served>>
vars == <<net, copies, expired, client, server>>

-----------------------------------------------------------------------------
(* Blocks and messages *)

KeyOf(r) == asked[r].key
Up(r) == asked[r].up
Down(r) == asked[r].down

\* Block i of what r's application sends, and the whole of it.
Block(r, i) == [req |-> r, num |-> i]
Payload(r) == [i \in 1..Up(r) |-> Block(r, i - 1)]

\* Block i of the answer to the n-th call of the handler for k.
Part(k, n, i) == [key |-> k, run |-> n, num |-> i]

\* A request without, with a Block1 or with a Block2 option.
ToServer(r, opt, num, more, id) ==
  [to |-> "server", req |-> r, opt |-> opt, num |-> num, more |-> more,
   mid |-> id]

\* An answer: an empty ACK or a RST, which bear no token, 2.31 Continue, an
\* error, or a payload's block with the Block1 option of an upload's end.
Empty(kind, id) == [to |-> "client", kind |-> kind, mid |-> id]
Continue(r, num, id) ==
  [to |-> "client", kind |-> "continue", req |-> r, num |-> num, mid |-> id]
Answer(kind, r, b1, num, more, part, id) ==
  [to |-> "client", kind |-> kind, req |-> r, b1 |-> b1, num |-> num,
   more |-> more, part |-> part, mid |-> id]

\* Message m is received and new is sent.
Exchange(m, new) ==
  \/ /\ net' = (net \ {m}) \cup new
     /\ UNCHANGED copies
  \/ /\ copies < MaxCopies
     /\ net' = net \cup new
     /\ copies' = copies + 1

-----------------------------------------------------------------------------
(* Buffers *)

\* Wrong: a block that came before is added again.
handle_block_again(blocks, num, block) ==
  IF num > Len(blocks) THEN None ELSE Append(blocks, block)

\* oc_blockwise_handle_block: what a buffer holds once a block came, or None
\* when the block is refused.
handle_block(blocks, num, block) ==
  IF num > Len(blocks) THEN None
  ELSE IF num = Len(blocks) THEN Append(blocks, block)
  ELSE blocks

\* oc_blockwise_alloc_request_buffer by the server.
NewRequestBuffer == [blocks |-> <<>>, size |-> 0]

\* oc_blockwise_find_response_buffer: the first one in the list.
FindResponse(k) == IF sres[k] = <<>> THEN None ELSE Head(sres[k])

\* Wrong: a buffer whose last block was sent is kept.
WithFirstKept(k, b, ref) == [sres EXCEPT ![k] = <<b>> \o Tail(@)]

\* The response buffers of key k once the first one has become b.  It is
\* freed at the end of the message when its reference count is 0.
WithFirst(k, b, ref) ==
  [sres EXCEPT ![k] = IF ref = 0 THEN Tail(@) ELSE <<b>> \o Tail(@)]

-----------------------------------------------------------------------------
(* Server *)

\* coap_receive_set_response_by_handler: the handler is called for message m
\* with a payload, the request buffer is freed, and the answer goes into a new
\* response buffer behind those in lists, which stays if blocks remain to be
\* fetched.  b1: the call ends an upload, whose last block is acknowledged and
\* answered apart.
Invoke(m, payload, lists, b1) ==
  LET r == m.req
      k == KeyOf(r)
      run == Len(served[k]) + 1
      id == IF b1 \/ ~asked[r].con THEN 0 ELSE m.mid
      acks == IF b1 THEN {Empty("ack", m.mid)} ELSE {}
      more == Down(r) > 1
      part == IF Down(r) = 0 THEN None ELSE Part(k, run, 0)
      buffer == [run |-> run, size |-> Down(r), next |-> 1]
  IN /\ served' = [served EXCEPT ![k] = Append(@, payload)]
     /\ \/ /\ Exchange(m, acks \cup {Answer("ok", r, b1, 0, more, part, id)})
           /\ sres' = IF more THEN [lists EXCEPT ![k] = Append(@, buffer)]
                      ELSE lists
        \/ /\ Exchange(m, acks \cup
                          {Answer("error", r, b1, 0, FALSE, None, id)})
           /\ sres' = lists

\* A request without block options: buffers of an earlier request with its
\* key are freed.
Regular(m) ==
  LET r == m.req
      k == KeyOf(r)
  IN /\ m.opt = "plain"
     /\ m.mid \notin seen
     /\ seen' = IF asked[r].con THEN seen ELSE seen \cup {m.mid}
     /\ sreq' = IF Up(r) = 0 THEN sreq ELSE [sreq EXCEPT ![k] = None]
     /\ Invoke(m, IF Up(r) = 0 THEN <<>> ELSE <<Block(r, 0)>>,
               IF sres[k] = <<>> THEN sres ELSE [sres EXCEPT ![k] = Tail(@)],
               FALSE)
     /\ UNCHANGED client

\* oc_coap_check_if_duplicate: a NON request that came before is dropped.
DropRepeated(m) ==
  /\ m.opt = "plain"
  /\ m.mid \in seen
  /\ net' = net \ {m}
  /\ UNCHANGED <<copies, client, server>>

\* The request buffer that block m is for: a complete one is not continued,
\* and only block 0 starts a new one.
BufferFor(m) ==
  LET b == sreq[KeyOf(m.req)]
      complete == b # None /\ b.size = Len(b.blocks) /\ Len(b.blocks) - 1 # m.num
  IN IF b # None /\ ~complete THEN b
     ELSE IF m.num = 0 THEN NewRequestBuffer
     ELSE None

\* coap_receive_blockwise_block1.  A block that fits nowhere ends the upload:
\* its buffer is freed at the end of the message and a RST is sent.
Block1(m) ==
  LET r == m.req
      k == KeyOf(r)
      b == BufferFor(m)
      blocks == IF b = None THEN None
                ELSE handle_block(b.blocks, m.num, Block(r, m.num))
  IN /\ m.opt = "block1"
     /\ \/ /\ blocks = None
           /\ sreq' = [sreq EXCEPT ![k] = None]
           /\ Exchange(m, {Empty("rst", m.mid)})
           /\ UNCHANGED <<sres, served>>
        \/ /\ blocks # None
           /\ m.more
           /\ sreq' = [sreq EXCEPT ![k] = [b EXCEPT !.blocks = blocks]]
           /\ Exchange(m, {Continue(r, m.num, m.mid)})
           /\ UNCHANGED <<sres, served>>
        \/ /\ blocks # None
           /\ ~m.more
           /\ sreq' = [sreq EXCEPT ![k] = None]
           /\ Invoke(m, blocks, sres, TRUE)
     /\ UNCHANGED <<client, seen>>

\* coap_receive_blockwise_block2.  The difference of the offsets is unsigned,
\* so a block that is ahead is dropped like one that was provided before.  The
\* last block is acknowledged and sent apart, and the buffer freed with it.
Block2(m) ==
  LET r == m.req
      k == KeyOf(r)
      b == FindResponse(k)
      due == b # None /\ b.next - m.num \in 0..1
      more == m.num + 1 < b.size
      answer == Answer("ok", r, FALSE, m.num, more, Part(k, b.run, m.num),
                       IF more THEN m.mid ELSE 0)
  IN /\ m.opt = "block2"
     /\ \/ /\ b = None \/ (due /\ m.num >= b.size)
           /\ Exchange(m, {Empty("rst", m.mid)})
           /\ sres' = IF b = None THEN sres ELSE WithFirst(k, b, 0)
        \/ /\ b # None /\ ~due
           /\ Exchange(m, {})
           /\ UNCHANGED sres
        \/ /\ due /\ m.num < b.size
           /\ Exchange(m, IF more THEN {answer}
                          ELSE {answer, Empty("ack", m.mid)})
           /\ sres' = WithFirst(k, [b EXCEPT !.next = m.num + 1],
                                IF more THEN 1 ELSE 0)
     /\ UNCHANGED <<client, seen, sreq, served>>

\* Wrong: only a complete buffer is freed.
RequestBufferExpiresComplete(k) ==
  /\ sreq[k] # None
  /\ sreq[k].size = Len(sreq[k].blocks)
  /\ sreq' = [sreq EXCEPT ![k] = None]
  /\ expired' = TRUE
  /\ UNCHANGED <<net, copies, client, seen, sres, served>>

\* blockwise_free_request_async and blockwise_free_response_async, which are
\* due OC_EXCHANGE_LIFETIME after a buffer was allocated.
RequestBufferExpires(k) ==
  /\ sreq[k] # None
  /\ sreq' = [sreq EXCEPT ![k] = None]
  /\ expired' = TRUE
  /\ UNCHANGED <<net, copies, client, seen, sres, served>>

ResponseBufferExpires(k) ==
  /\ sres[k] # <<>>
  /\ sres' = [sres EXCEPT ![k] = Tail(@)]
  /\ expired' = TRUE
  /\ UNCHANGED <<net, copies, client, seen, sreq, served>>

-----------------------------------------------------------------------------
(* Client *)

Callback(state, id) == [state |-> state, mid |-> id, open |-> FALSE]

\* coap_clear_transaction for the transaction of message ID id.  One whose
\* message ID no callback bears would be given up without effect.
Closed(id) ==
  [r \in Request |->
     IF cb[r].mid = id THEN [cb[r] EXCEPT !.open = FALSE] ELSE cb[r]]

\* Wrong: the response buffer is not scrubbed.
FreeKeepsResponse(r) ==
  /\ cb' = [cb EXCEPT ![r] = Callback("freed", 0)]
  /\ creq' = [creq EXCEPT ![r] = None]
  /\ UNCHANGED cres

\* The callbacks and buffers once r's callback is freed, and its buffers with
\* it (oc_blockwise_scrub_buffers_for_client_cb).
Free(r) ==
  /\ cb' = [cb EXCEPT ![r] = Callback("freed", 0)]
  /\ creq' = [creq EXCEPT ![r] = None]
  /\ cres' = [cres EXCEPT ![r] = None]

\* oc_client_cb_invoke for the answer to a request that is no observation: the
\* handler is called and the callback freed.
HandOver(r, code, payload) ==
  /\ handed' = [handed EXCEPT ![r] = [code |-> code, payload |-> payload]]
  /\ Free(r)

Live(r) == cb[r].state = "live"

\* oc_do_get, oc_do_post: a payload of several blocks is sent confirmable, its
\* first block at once, and kept in a request buffer.  Nothing keeps the
\* application from issuing it while one with the same key is under way.
Start(kind) ==
  LET r == Len(asked) + 1
      id == mid + 1
      m == IF kind.up > 1 THEN ToServer(r, "block1", 0, TRUE, id)
           ELSE ToServer(r, "plain", 0, FALSE, id)
  IN /\ r \in Request
     /\ mid < MaxMid
     /\ asked' = Append(asked, kind)
     /\ shared' = IF \E o \in DOMAIN asked : KeyOf(o) = kind.key /\ Live(o)
                  THEN shared \cup {kind.key} ELSE shared
     /\ mid' = id
     /\ net' = net \cup {m}
     /\ cb' = [cb EXCEPT ![r] = [state |-> "live", mid |-> id,
                                 open |-> kind.up > 1 \/ kind.con]]
     /\ creq' = IF kind.up > 1 THEN [creq EXCEPT ![r] = id] ELSE creq
     /\ UNCHANGED <<copies, expired, cres, handed, server>>

\* The requests whose buffer was last sent with message ID id.
RequestOf(id) == {r \in Request : creq[r] = id}
ResponseOf(id) == {r \in Request : cres[r] # None /\ cres[r].mid = id}

\* An empty ACK, which is matched by its message ID alone.  For a request of
\* a block of the answer it announces that the block follows; otherwise the
\* message fits nowhere, and the request buffer is freed as after an error.
ReceiveAck(m) ==
  /\ m.kind = "ack"
  /\ cb' = Closed(m.mid)
  /\ creq' = [r \in Request |-> IF r \in RequestOf(m.mid) THEN None ELSE creq[r]]
  /\ Exchange(m, {})
  /\ UNCHANGED <<mid, asked, shared, cres, handed, server>>

\* A RST.  If it rejects the request of a block of the answer, the handler is
\* called with what oc_coap_status_to_status makes of no code: success.
ReceiveReset(m) ==
  /\ m.kind = "rst"
  /\ \/ /\ ResponseOf(m.mid) = {}
        /\ cb' = Closed(m.mid)
        /\ creq' = [r \in Request |->
                      IF r \in RequestOf(m.mid) THEN None ELSE creq[r]]
        /\ UNCHANGED <<cres, handed>>
     \/ \E r \in ResponseOf(m.mid) : HandOver(r, "ok", <<>>)
  /\ Exchange(m, {})
  /\ UNCHANGED <<mid, asked, shared, server>>

\* 2.31 Continue: the next block is sent with a new message ID, which the
\* callback does not learn.  Without a request buffer it is an answer like any
\* other, without a payload; without a callback it is ignored.
ReceiveContinue(m) ==
  LET r == m.req
      id == mid + 1
      next == m.num + 1
  IN /\ m.kind = "continue"
     /\ \/ /\ Live(r)
           /\ creq[r] # None
           /\ next < Up(r)
           /\ mid < MaxMid
           /\ mid' = id
           /\ cb' = Closed(m.mid)
           /\ creq' = [creq EXCEPT ![r] = id]
           /\ Exchange(m, {ToServer(r, "block1", next, next + 1 < Up(r), id)})
           /\ UNCHANGED <<cres, handed>>
        \/ /\ Live(r)
           /\ creq[r] = None
           /\ HandOver(r, "ok", <<>>)
           /\ Exchange(m, {})
           /\ UNCHANGED mid
        \/ /\ ~Live(r)
           /\ Exchange(m, {})
           /\ UNCHANGED <<mid, cb, creq, cres, handed>>
     /\ UNCHANGED <<asked, shared, server>>

\* The blocks of an answer that r has received, with the one in m; None when
\* it has no payload or does not fit.
Received(r, m) ==
  LET blocks == IF cres[r] = None THEN <<>> ELSE cres[r].blocks
  IN IF m.part = None THEN None ELSE handle_block(blocks, m.num, m.part)

\* Whether the block in m makes the client ask for the next one.
AsksNext(r, m) == m.kind = "ok" /\ Received(r, m) # None /\ m.more

\* An answer: the buffer of an upload that has ended is freed; if more blocks
\* follow, the next one is asked for; else the handler is called.
ReceiveAnswer(m) ==
  LET r == m.req
      id == mid + 1
      blocks == Received(r, m)
  IN /\ m.kind \in {"ok", "error"}
     /\ \/ /\ Live(r)
           /\ AsksNext(r, m)
           /\ mid < MaxMid
           /\ mid' = id
           /\ cb' = [cb EXCEPT ![r].mid = id, ![r].open = TRUE]
           /\ creq' = IF m.b1 THEN [creq EXCEPT ![r] = None] ELSE creq
           /\ cres' = [cres EXCEPT ![r] = [mid |-> id, blocks |-> blocks]]
           /\ Exchange(m, {ToServer(r, "block2", m.num + 1, FALSE, id)})
           /\ UNCHANGED handed
        \/ /\ Live(r)
           /\ ~AsksNext(r, m)
           /\ HandOver(r, m.kind, IF m.kind = "error" \/ blocks = None THEN <<>>
                                  ELSE blocks)
           /\ Exchange(m, {})
           /\ UNCHANGED mid
        \/ /\ ~Live(r)
           /\ Exchange(m, {})
           /\ UNCHANGED <<mid, cb, creq, cres, handed>>
     /\ UNCHANGED <<asked, shared, server>>

\* coap_send_transaction gives up the message whose ID r's callback bears:
\* the application is told and the callback freed.
GiveUp(r) ==
  /\ cb[r].open
  /\ HandOver(r, "timeout", <<>>)
  /\ expired' = TRUE
  /\ UNCHANGED <<net, copies, mid, asked, shared, server>>

\* oc_client_cb_remove_async at the end of the exchange's lifetime; the
\* request buffer, allocated just before, expires with it.
ExchangeEnds(r) ==
  /\ Live(r)
  /\ Free(r)
  /\ expired' = TRUE
  /\ UNCHANGED <<net, copies, mid, asked, shared, handed, server>>

-----------------------------------------------------------------------------
Init ==
  /\ net = {} /\ copies = 0 /\ expired = FALSE
  /\ mid = 0
  /\ asked = <<>>
  /\ shared = {}
  /\ cb = [r \in Request |-> Callback("idle", 0)]
  /\ creq = [r \in Request |-> None]
  /\ cres = [r \in Request |-> None]
  /\ handed = [r \in Request |-> None]
  /\ seen = {}
  /\ sreq = [k \in Key |-> None]
  /\ sres = [k \in Key |-> <<>>]
  /\ served = [k \in Key |-> <<>>]

ServerReceives(m) ==
  /\ m.to = "server"
  /\ Regular(m) \/ DropRepeated(m) \/ Block1(m) \/ Block2(m)
  /\ UNCHANGED expired

ClientReceives(m) ==
  /\ m.to = "client"
  /\ ReceiveAck(m) \/ ReceiveReset(m) \/ ReceiveContinue(m) \/ ReceiveAnswer(m)
  /\ UNCHANGED expired

Timer ==
  \/ \E k \in Key : RequestBufferExpires(k) \/ ResponseBufferExpires(k)
  \/ \E r \in Request : GiveUp(r) \/ ExchangeEnds(r)

Next ==
  \/ \E kind \in Kind : Start(kind)
  \/ \E m \in net : ServerReceives(m) \/ ClientReceives(m)
  \/ Timer

\* Timers are armed for every buffer, callback and transaction and the main
\* loop serves those that have expired; nothing is assumed of the network.
Fairness ==
  /\ \A k \in Key : WF_vars(RequestBufferExpires(k))
  /\ \A k \in Key : WF_vars(ResponseBufferExpires(k))
  /\ \A r \in Request : WF_vars(GiveUp(r))
  /\ \A r \in Request : WF_vars(ExchangeEnds(r))

Spec == Init /\ [][Next]_vars
FairSpec == Spec /\ Fairness

-----------------------------------------------------------------------------
(* Properties *)

\* The types of the buffers, callbacks and histories.
TypeOK ==
  /\ mid \in 0..MaxMid /\ copies \in 0..MaxCopies /\ expired \in BOOLEAN
  /\ asked \in Seq(Kind)
  /\ shared \subseteq Key
  /\ seen \subseteq 1..mid
  /\ \A r \in Request :
       /\ cb[r] \in [state : {"live"}, mid : 1..mid, open : BOOLEAN]
                    \cup {Callback("idle", 0), Callback("freed", 0)}
       /\ (cb[r].state = "idle") <=> (r > Len(asked))
       /\ creq[r] \in {None} \cup 1..mid
       /\ cres[r] # None => /\ cres[r].mid \in 1..mid
                            /\ cres[r].blocks \in Seq(Parts)
  /\ \A k \in Key :
       /\ sreq[k] # None => sreq[k].blocks \in Seq(Blocks)
       /\ \A i \in DOMAIN sres[k] :
            sres[k][i].run \in 1..Len(served[k])
            /\ sres[k][i].next \in 1..sres[k][i].size

\* The number of each block of p is its place.
InPlace(p) == \A i \in DOMAIN p : p[i].num = i - 1

\* No other request has the key of r.
Alone(r) == \A o \in DOMAIN asked : KeyOf(o) = KeyOf(r) => o = r

\* Whatever is lost, repeated or late, a payload that reaches an application
\* has its blocks in their order and none of another resource, query or
\* method, which buffers are found by; and without another request of this
\* key it is whole: no loss truncates it and no copy prolongs it.
PayloadsAreAssembled ==
  /\ \A k \in Key : \A n \in DOMAIN served[k] :
       LET p == served[k][n]
       IN /\ InPlace(p)
          /\ \A i \in DOMAIN p : KeyOf(p[i].req) = k
          /\ \A r \in DOMAIN asked :
               KeyOf(r) = k /\ Alone(r) => p = Payload(r)
  /\ \A r \in DOMAIN asked : handed[r] # None =>
       LET p == handed[r].payload
       IN /\ InPlace(p)
          /\ \A i \in DOMAIN p : p[i].key = KeyOf(r)
          /\ Alone(r) /\ p # <<>> => Len(p) = Down(r)

\* If nothing is received twice and nothing times out, whatever the order in
\* which messages arrive, however requests with different keys overlap and
\* whatever requests with the same key came before, the handler of the server
\* gets the payload of the request, and the client gets all of the answer to
\* that very call, or the error that the handler answered with.  Requests
\* with one key must not overlap: the server finds buffers by the key, so it
\* mixes their blocks.
UndisturbedIsExact ==
  copies = 0 /\ ~expired =>
    \A r \in {q \in DOMAIN asked : KeyOf(q) \notin shared} :
     handed[r] # None /\ handed[r].code = "ok" =>
      \E n \in DOMAIN served[KeyOf(r)] :
        /\ served[KeyOf(r)][n] = Payload(r)
        /\ Len(handed[r].payload) = Down(r)
        /\ \A i \in 1..Down(r) :
             handed[r].payload[i] = Part(KeyOf(r), n, i - 1)

\* The client's buffers point to their callback, which the engine follows, so
\* they never outlive it; message IDs, runs and block numbers stay in range.
BuffersAreSound ==
  /\ TypeOK
  /\ \A r \in Request : creq[r] # None \/ cres[r] # None => Live(r)

\* In the end no callback and no buffer of either side is left, not
\* even a buffer that a late copy of a block has opened once more.
NothingIsKept ==
  <>[](/\ \A r \in Request : ~Live(r)
       /\ \A k \in Key : sreq[k] = None /\ sres[k] = <<>>)

=============================================================================
