-------------------------- MODULE OcBlockwiseProofs --------------------------
(***************************************************************************)
(* Block-wise transfer, for any requests, numbers of blocks and numbers of *)
(* messages lost, delayed or repeated: the buffers never outlive what they *)
(* point to, and payloads are assembled in order and, where no request     *)
(* shares the key, whole.  As long as no message is received twice and no  *)
(* timer expires, the application gets exactly the answer to its request,  *)
(* unless requests with the same key overlap.                              *)
(***************************************************************************)
EXTENDS OcBlockwise, TLAPS

-----------------------------------------------------------------------------
(* The inductive invariant.                                                *)

Asked == 1 .. Len(asked)

\* What is true of a message until it is received.  The blocks of an upload
\* are those of its request; those of an answer belong to the key, and when
\* nobody else uses the key, to an answer of the length of the request's.
MsgOK(m) ==
  /\ m.to = "server" =>
       /\ m.req \in Asked /\ m.num \in Nat /\ m.mid \in 1 .. mid
       /\ m.opt = "plain" => Up(m.req) <= 1
       /\ m.opt = "block1" =>
            m.num < Up(m.req) /\ (m.more <=> m.num + 1 < Up(m.req))
  /\ m.to = "client" /\ m.kind = "continue" => m.req \in Asked /\ m.num \in Nat
  /\ m.to = "client" /\ m.kind \in {"ok", "error"} =>
       /\ m.req \in Asked /\ m.num \in Nat
       /\ m.part # None =>
            /\ m.part \in Parts
            /\ m.part.key = KeyOf(m.req) /\ m.part.num = m.num
            /\ Alone(m.req) =>
                 m.num < Down(m.req) /\ (m.more <=> m.num + 1 < Down(m.req))

NetInv == \A m \in net : MsgOK(m)

CountersInv ==
  /\ mid \in 0 .. MaxMid /\ copies \in 0 .. MaxCopies /\ expired \in BOOLEAN
  /\ asked \in Seq(Kind) /\ Len(asked) <= MaxRequests
  /\ seen \subseteq 1 .. mid

\* Blocks of uploads with key k, each at its place.
UploadBlocks(k) ==
  {p \in Seq(Blocks) :
     \A i \in 1 .. Len(p) :
       p[i].req \in Asked /\ KeyOf(p[i].req) = k /\ p[i].num = i - 1}

\* The buffer of an upload, which holds none of its last block.
RequestBuffers(k) ==
  {b \in [blocks : UploadBlocks(k), size : {0}] :
     \A i \in 1 .. Len(b.blocks) : i < Up(b.blocks[i].req)}

SreqInv ==
  /\ DOMAIN sreq = Key
  /\ \A k \in Key : sreq[k] \in RequestBuffers(k) \cup {None}

\* Payloads that the handler for k may be called with.
Payloads(k) ==
  {p \in UploadBlocks(k) :
     /\ \E r \in Asked : KeyOf(r) = k
     /\ \A r \in Asked : KeyOf(r) = k /\ Alone(r) => Len(p) = Up(r)}

ServedInv ==
  /\ DOMAIN served = Key
  /\ \A k \in Key : served[k] \in Seq(Payloads(k))

\* Buffers of answers to one of n calls: as long as some request's answer.
ResponseBuffers(k, n) ==
  {b \in [run : 1 .. n, size : Nat, next : Nat] :
     /\ b.next \in 1 .. b.size
     /\ \E r \in Asked : KeyOf(r) = k /\ b.size = Down(r)}

SresInv ==
  /\ DOMAIN sres = Key
  /\ \A k \in Key : sres[k] \in Seq(ResponseBuffers(k, Len(served[k])))

\* Blocks of an answer to r, each at its place.
AnswerBlocks(r) ==
  {p \in Seq(Parts) :
     \A i \in 1 .. Len(p) : p[i].key = KeyOf(r) /\ p[i].num = i - 1}

\* The client's buffer of an answer, which holds none of its last block, and
\* what is handed to the application.
AnswerBuffers(r) ==
  {b \in [mid : 1 .. mid, blocks : AnswerBlocks(r)] :
     Alone(r) => Len(b.blocks) < Down(r)}
Results(r) ==
  {h \in [code : {"ok", "error", "timeout"}, payload : AnswerBlocks(r)] :
     /\ r \in Asked
     /\ Alone(r) /\ h.payload # << >> => Len(h.payload) = Down(r)}

Callbacks(n) ==
  [state : {"live"}, mid : 1 .. n, open : BOOLEAN]
    \cup {Callback("idle", 0), Callback("freed", 0)}

EntryInv(r) ==
  /\ cb[r].state = "idle" <=> r > Len(asked)
  /\ creq[r] # None \/ cres[r] # None => Live(r)
  /\ cres[r] \in AnswerBuffers(r) \cup {None}
  /\ handed[r] \in Results(r) \cup {None}

ClientInv ==
  /\ cb \in [Request -> Callbacks(mid)]
  /\ creq \in [Request -> {None} \cup 1 .. mid]
  /\ DOMAIN cres = Request /\ DOMAIN handed = Request
  /\ \A r \in Request : EntryInv(r)

IInv ==
  /\ NetInv
  /\ CountersInv
  /\ SreqInv
  /\ SresInv
  /\ ServedInv
  /\ ClientInv

-----------------------------------------------------------------------------
(* What a request issued later does not change.                            *)

\* Requests are added behind those that were asked before, and message IDs
\* go up.
Grows ==
  /\ Len(asked) <= Len(asked')
  /\ \A r \in Asked : asked'[r] = asked[r]
  /\ asked \in Seq(Kind) /\ asked' \in Seq(Kind)
  /\ mid \in Nat /\ mid' \in Nat /\ mid <= mid'

LEMMA GrowsKeeps ==
  ASSUME Grows, NEW r \in Asked
  PROVE  /\ r \in Asked'
         /\ KeyOf(r)' = KeyOf(r) /\ Up(r)' = Up(r) /\ Down(r)' = Down(r)
         /\ Alone(r)' => Alone(r)
<1>1. Len(asked) \in Nat /\ Len(asked') \in Nat /\ Asked \subseteq Asked'
  BY DEF Grows, Asked
<1>2. \A o \in Asked : KeyOf(o)' = KeyOf(o)
  BY DEF Grows, KeyOf
<1>3. DOMAIN asked = Asked /\ DOMAIN asked' = Asked'
  BY DEF Grows, Asked
<1>4. Alone(r)' => Alone(r)
  BY <1>1, <1>2, <1>3 DEF Alone
<1> QED
  BY <1>1, <1>2, <1>4 DEF Grows, Up, Down

LEMMA KindIs ==
  ASSUME asked \in Seq(Kind), NEW r \in Asked
  PROVE  KeyOf(r) \in Key /\ Up(r) \in Nat /\ Down(r) \in Nat
<1>1. asked[r] \in Kind
  BY DEF Asked
<1> QED
  BY <1>1, KindAssumption DEF KeyOf, Up, Down

LEMMA MsgStays ==
  ASSUME Grows, NEW m, MsgOK(m)
  PROVE  MsgOK(m)'
<1>1. CASE m.to = "server"
  <2>1. m.req \in Asked /\ m.mid \in 1 .. mid'
    BY <1>1 DEF MsgOK, Grows
  <2> QED
    BY <1>1, <2>1, GrowsKeeps DEF MsgOK
<1>2. CASE m.to = "client" /\ m.kind = "continue"
  BY <1>2, GrowsKeeps DEF MsgOK
<1>3. CASE m.to = "client" /\ m.kind \in {"ok", "error"}
  <2>1. m.req \in Asked
    BY <1>3 DEF MsgOK
  <2> QED
    BY <1>3, <2>1, GrowsKeeps DEF MsgOK
<1> QED
  BY <1>1, <1>2, <1>3 DEF MsgOK

LEMMA UploadBlocksStay ==
  ASSUME Grows, NEW k
  PROVE  UploadBlocks(k) \subseteq UploadBlocks(k)'
  BY GrowsKeeps DEF UploadBlocks

LEMMA RequestBuffersStay ==
  ASSUME Grows, NEW k
  PROVE  RequestBuffers(k) \subseteq RequestBuffers(k)'
<1> SUFFICES ASSUME NEW b \in RequestBuffers(k)
             PROVE  b \in RequestBuffers(k)'
  OBVIOUS
<1>1. /\ b \in [blocks : UploadBlocks(k), size : {0}]
      /\ b.blocks \in UploadBlocks(k)
      /\ \A i \in 1 .. Len(b.blocks) : i < Up(b.blocks[i].req)
  BY DEF RequestBuffers
<1>2. b \in [blocks : UploadBlocks(k)', size : {0}]
  BY <1>1, UploadBlocksStay
<1>3. \A i \in 1 .. Len(b.blocks) : b.blocks[i].req \in Asked
  BY <1>1 DEF UploadBlocks
<1>4. \A i \in 1 .. Len(b.blocks) : i < Up(b.blocks[i].req)'
  BY <1>1, <1>3, GrowsKeeps
<1> QED
  BY <1>2, <1>4 DEF RequestBuffers

LEMMA PayloadsStay ==
  ASSUME Grows, NEW k
  PROVE  Payloads(k) \subseteq Payloads(k)'
<1> SUFFICES ASSUME NEW p \in Payloads(k)
             PROVE  p \in Payloads(k)'
  OBVIOUS
<1>1. p \in UploadBlocks(k)'
  BY UploadBlocksStay DEF Payloads
<1>2. PICK o \in Asked : KeyOf(o) = k
  BY DEF Payloads
<1>3. o \in Asked' /\ KeyOf(o)' = k
  BY <1>2, GrowsKeeps
<1>4. ASSUME NEW r \in Asked', KeyOf(r)' = k, Alone(r)'
      PROVE  Len(p) = Up(r)'
  <2>1. o = r
    <3>1. DOMAIN asked' = Asked'
      BY DEF Grows, Asked
    <3> QED
      BY <1>3, <1>4, <3>1 DEF Alone
  <2>2. Alone(r) /\ Up(r)' = Up(r) /\ r \in Asked
    BY <1>2, <1>4, <2>1, GrowsKeeps
  <2> QED
    BY <1>2, <2>1, <2>2 DEF Payloads
<1> QED
  BY <1>1, <1>3, <1>4 DEF Payloads

LEMMA ResponseBuffersStay ==
  ASSUME Grows, NEW k, NEW n \in Nat, NEW n1 \in Nat, n <= n1
  PROVE  ResponseBuffers(k, n) \subseteq ResponseBuffers(k, n1)'
<1> SUFFICES ASSUME NEW b \in ResponseBuffers(k, n)
             PROVE  b \in ResponseBuffers(k, n1)'
  OBVIOUS
<1>1. PICK r \in Asked : KeyOf(r) = k /\ b.size = Down(r)
  BY DEF ResponseBuffers
<1>2. r \in Asked' /\ KeyOf(r)' = k /\ b.size = Down(r)'
  BY <1>1, GrowsKeeps
<1>3. b \in [run : 1 .. n, size : Nat, next : Nat] /\ b.next \in 1 .. b.size
  BY DEF ResponseBuffers
<1>4. b \in [run : 1 .. n1, size : Nat, next : Nat]
  BY <1>3
<1> QED
  BY <1>2, <1>3, <1>4 DEF ResponseBuffers

LEMMA AnswerBlocksStay ==
  ASSUME Grows, NEW r \in Asked
  PROVE  AnswerBlocks(r) \subseteq AnswerBlocks(r)'
  BY GrowsKeeps DEF AnswerBlocks

LEMMA AnswerBuffersStay ==
  ASSUME Grows, NEW r \in Asked
  PROVE  AnswerBuffers(r) \subseteq AnswerBuffers(r)'
<1> SUFFICES ASSUME NEW b \in AnswerBuffers(r)
             PROVE  b \in AnswerBuffers(r)'
  OBVIOUS
<1>1. /\ b \in [mid : 1 .. mid, blocks : AnswerBlocks(r)]
      /\ Alone(r) => Len(b.blocks) < Down(r)
  BY DEF AnswerBuffers
<1>2. 1 .. mid \subseteq 1 .. mid'
  BY DEF Grows
<1>3. b \in [mid : 1 .. mid', blocks : AnswerBlocks(r)']
  BY <1>1, <1>2, AnswerBlocksStay
<1> QED
  BY <1>1, <1>3, GrowsKeeps DEF AnswerBuffers

LEMMA ResultsStay ==
  ASSUME Grows, NEW r \in Asked
  PROVE  Results(r) \subseteq Results(r)'
<1> SUFFICES ASSUME NEW h \in Results(r)
             PROVE  h \in Results(r)'
  OBVIOUS
<1>1. /\ h \in [code : {"ok", "error", "timeout"}, payload : AnswerBlocks(r)]
      /\ Alone(r) /\ h.payload # << >> => Len(h.payload) = Down(r)
  BY DEF Results
<1>2. h \in [code : {"ok", "error", "timeout"}, payload : AnswerBlocks(r)']
  BY <1>1, AnswerBlocksStay
<1> QED
  BY <1>1, <1>2, GrowsKeeps DEF Results

LEMMA SeqOfSubset ==
  ASSUME NEW S, NEW T, S \subseteq T, NEW s \in Seq(S)
  PROVE  s \in Seq(T)
  OBVIOUS

\* The server's part of the invariant outlives a step of the client.
ServerInv == SreqInv /\ SresInv /\ ServedInv

LEMMA ServerStays ==
  ASSUME Grows, ServerInv, UNCHANGED <<sreq, sres, served>>
  PROVE  ServerInv'
<1>1. SreqInv'
  BY RequestBuffersStay DEF ServerInv, SreqInv
<1>2. ServedInv'
  <2>1. ASSUME NEW k \in Key
        PROVE  served[k] \in Seq(Payloads(k)')
    <3>1. served[k] \in Seq(Payloads(k))
      BY DEF ServerInv, ServedInv
    <3> QED
      BY <3>1, PayloadsStay, SeqOfSubset
  <2> QED
    BY <2>1 DEF ServerInv, ServedInv
<1>3. SresInv'
  <2>1. ASSUME NEW k \in Key
        PROVE  sres'[k] \in Seq(ResponseBuffers(k, Len(served[k])))'
    <3>1. Len(served[k]) \in Nat
      BY DEF ServerInv, ServedInv
    <3>2. ResponseBuffers(k, Len(served[k])) \subseteq
            ResponseBuffers(k, Len(served[k]))'
      BY <3>1, ResponseBuffersStay
    <3>3. sres[k] \in Seq(ResponseBuffers(k, Len(served[k])))
      BY DEF ServerInv, SresInv
    <3> QED
      BY <3>2, <3>3, SeqOfSubset
  <2> QED
    BY <2>1 DEF ServerInv, SresInv
<1> QED
  BY <1>1, <1>2, <1>3 DEF ServerInv

-----------------------------------------------------------------------------
(* Messages.                                                               *)

LEMMA StandsStill ==
  ASSUME CountersInv, UNCHANGED <<asked, mid>>
  PROVE  Grows
<1>1. Len(asked) \in Nat /\ mid \in Nat
  BY BoundsAssumption DEF CountersInv
<1> QED
  BY <1>1 DEF Grows, CountersInv, Asked

LEMMA ExchangeNet ==
  ASSUME NetInv, CountersInv, Grows, NEW m, NEW new, Exchange(m, new),
         \A x \in new : MsgOK(x)'
  PROVE  NetInv' /\ copies' \in 0 .. MaxCopies
<1>1. net' \subseteq net \cup new /\ copies' \in 0 .. MaxCopies
  BY BoundsAssumption DEF Exchange, CountersInv
<1>2. \A x \in net : MsgOK(x)'
  BY MsgStays DEF NetInv
<1> QED
  BY <1>1, <1>2 DEF NetInv

LEMMA ExchangeStill ==
  ASSUME NetInv, CountersInv, UNCHANGED <<asked, mid>>, NEW m, NEW new,
         Exchange(m, new), \A x \in new : MsgOK(x)
  PROVE  NetInv' /\ copies' \in 0 .. MaxCopies
<1>1. Grows
  BY StandsStill
<1>2. \A x \in new : MsgOK(x)'
  BY <1>1, MsgStays
<1> QED
  BY <1>1, <1>2, ExchangeNet

LEMMA EmptyOK ==
  ASSUME NEW kind \in {"ack", "rst"}, NEW id
  PROVE  MsgOK(Empty(kind, id))
<1> DEFINE m == Empty(kind, id)
<1>1. m.to = "client" /\ m.kind = kind
  BY DEF Empty
<1> HIDE DEF m
<1>2. MsgOK(m)
  BY <1>1 DEF MsgOK
<1> QED
  BY <1>2 DEF m

LEMMA ContinueOK ==
  ASSUME NEW r \in Asked, NEW num \in Nat, NEW id
  PROVE  MsgOK(Continue(r, num, id))
<1> DEFINE m == Continue(r, num, id)
<1>1. m.to = "client" /\ m.kind = "continue" /\ m.req = r /\ m.num = num
  BY DEF Continue
<1> HIDE DEF m
<1>2. MsgOK(m)
  BY <1>1 DEF MsgOK
<1> QED
  BY <1>2 DEF m

LEMMA ToServerOK ==
  ASSUME NEW r \in Asked, NEW opt, NEW num \in Nat, NEW more \in BOOLEAN,
         NEW id \in 1 .. mid,
         opt = "plain" => Up(r) <= 1,
         opt = "block1" => num < Up(r) /\ (more <=> num + 1 < Up(r))
  PROVE  MsgOK(ToServer(r, opt, num, more, id))
<1> DEFINE m == ToServer(r, opt, num, more, id)
<1>1. /\ m.to = "server" /\ m.req = r /\ m.opt = opt /\ m.num = num
      /\ m.more = more /\ m.mid = id
  BY DEF ToServer
<1> HIDE DEF m
<1>2. MsgOK(m)
  BY <1>1 DEF MsgOK
<1> QED
  BY <1>2 DEF m

LEMMA AnswerOK ==
  ASSUME NEW kind \in {"ok", "error"}, NEW r \in Asked, NEW b1,
         NEW num \in Nat, NEW more \in BOOLEAN, NEW part, NEW id,
         part # None =>
           /\ part \in Parts /\ part.key = KeyOf(r) /\ part.num = num
           /\ Alone(r) => num < Down(r) /\ (more <=> num + 1 < Down(r))
  PROVE  MsgOK(Answer(kind, r, b1, num, more, part, id))
<1> DEFINE m == Answer(kind, r, b1, num, more, part, id)
<1>1. /\ m.to = "client" /\ m.kind = kind /\ m.req = r /\ m.num = num
      /\ m.more = more /\ m.part = part
  BY DEF Answer
<1> HIDE DEF m
<1>2. MsgOK(m)
  BY <1>1 DEF MsgOK
<1> QED
  BY <1>2 DEF m

-----------------------------------------------------------------------------
(* Steps of the server.                                                    *)

LEMMA ClientStays ==
  ASSUME ClientInv, UNCHANGED client
  PROVE  ClientInv'
  BY DEF ClientInv, EntryInv, client, Live, AnswerBlocks, AnswerBuffers, Results, Alone,
    KeyOf, Down, Asked, Callbacks

LEMMA PartIs ==
  ASSUME NEW k \in Key, NEW n \in Nat \ {0}, NEW i \in Nat
  PROVE  Part(k, n, i) \in Parts /\ Part(k, n, i).key = k /\ Part(k, n, i).num = i
  BY DEF Part, Parts

ListsOK(lists) ==
  /\ DOMAIN lists = Key
  /\ \A k \in Key : lists[k] \in Seq(ResponseBuffers(k, Len(served[k])))

\* coap_receive_set_response_by_handler
LEMMA InvokeInv ==
  ASSUME NetInv, CountersInv, ServedInv, NEW m \in net, m.to = "server",
         NEW payload \in Payloads(KeyOf(m.req)), NEW lists, ListsOK(lists),
         NEW b1 \in BOOLEAN, Invoke(m, payload, lists, b1),
         UNCHANGED <<asked, mid>>
  PROVE  /\ NetInv' /\ copies' \in 0 .. MaxCopies
         /\ ServedInv' /\ SresInv'
<1> DEFINE r == m.req
           k == KeyOf(r)
           run == Len(served[k]) + 1
           id == IF b1 \/ ~asked[r].con THEN 0 ELSE m.mid
           acks == IF b1 THEN {Empty("ack", m.mid)} ELSE {}
           more == Down(r) > 1
           part == IF Down(r) = 0 THEN None ELSE Part(k, run, 0)
           buffer == [run |-> run, size |-> Down(r), next |-> 1]
           ok == Answer("ok", r, b1, 0, more, part, id)
           error == Answer("error", r, b1, 0, FALSE, None, id)
<1>1. r \in Asked /\ asked \in Seq(Kind)
  BY DEF NetInv, MsgOK, CountersInv
<1>2. k \in Key /\ Up(r) \in Nat /\ Down(r) \in Nat
  BY <1>1, KindIs
<1>3. served[k] \in Seq(Payloads(k)) /\ Len(served[k]) \in Nat
  BY <1>2 DEF ServedInv
<1>4. Grows
  BY StandsStill
<1>5. MsgOK(ok)
  <2>1. part # None =>
          /\ part \in Parts /\ part.key = KeyOf(r) /\ part.num = 0
          /\ Alone(r) => 0 < Down(r) /\ (more <=> 0 + 1 < Down(r))
    <3>1. CASE Down(r) = 0
      BY <3>1
    <3>2. CASE Down(r) # 0
      <4>1. part = Part(k, run, 0) /\ run \in Nat \ {0}
        BY <1>3, <3>2
      <4>2. part \in Parts /\ part.key = k /\ part.num = 0
        <5> HIDE DEF part, k, run
        <5> QED
          BY <1>2, <4>1, PartIs
      <4> QED
        BY <1>2, <3>2, <4>2
    <3> QED
      BY <3>1, <3>2
  <2>2. more \in BOOLEAN
    OBVIOUS
  <2> HIDE DEF part, more, id, r
  <2> QED
    BY <1>1, <2>1, <2>2, AnswerOK
<1>6. MsgOK(error)
  <2> HIDE DEF id, r
  <2> QED
    BY <1>1, AnswerOK
<1>7. \A x \in acks : MsgOK(x)
  BY EmptyOK
<1>8. /\ served' = [served EXCEPT ![k] = Append(@, payload)]
      /\ \/ /\ Exchange(m, acks \cup {ok})
            /\ sres' = IF more THEN [lists EXCEPT ![k] = Append(@, buffer)]
                       ELSE lists
         \/ /\ Exchange(m, acks \cup {error})
            /\ sres' = lists
  BY DEF Invoke
<1> HIDE DEF ok, error, acks, part, id
<1>9. NetInv' /\ copies' \in 0 .. MaxCopies
  <2>1. /\ \A x \in acks \cup {ok} : MsgOK(x)
        /\ \A x \in acks \cup {error} : MsgOK(x)
    BY <1>5, <1>6, <1>7
  <2> QED
    BY <1>8, <2>1, ExchangeStill
<1>10. /\ DOMAIN served' = Key /\ served'[k] = Append(served[k], payload)
       /\ \A j \in Key : j # k => served'[j] = served[j]
  BY <1>2, <1>8 DEF ServedInv
<1>11. /\ Append(served[k], payload) \in Seq(Payloads(k))
       /\ Len(Append(served[k], payload)) = run
  BY <1>3
<1>12. ServedInv'
  <2>1. ASSUME NEW j \in Key
        PROVE  served'[j] \in Seq(Payloads(j)')
    <3>1. served'[j] \in Seq(Payloads(j))
      BY <1>10, <1>11 DEF ServedInv
    <3> QED
      BY <1>4, <3>1, PayloadsStay, SeqOfSubset
  <2> QED
    BY <1>10, <2>1 DEF ServedInv
<1>13. ASSUME NEW j \in Key
       PROVE  /\ lists[j] \in Seq(ResponseBuffers(j, Len(served[j]))')
              /\ Len(served[j]) \in Nat /\ Len(served'[j]) \in Nat
  <2>1. Len(served[j]) \in Nat /\ Len(served'[j]) \in Nat
        /\ Len(served[j]) <= Len(served'[j])
    <3>1. CASE j = k
      BY <1>3, <1>10, <1>11, <3>1
    <3>2. CASE j # k
      BY <1>10, <3>2 DEF ServedInv
    <3> QED
      BY <3>1, <3>2
  <2>2. \A n, n1 \in Nat :
          n <= n1 => ResponseBuffers(j, n) \subseteq ResponseBuffers(j, n1)'
    BY <1>4, ResponseBuffersStay
  <2>3. ResponseBuffers(j, Len(served[j])) \subseteq
          ResponseBuffers(j, Len(served[j]))'
    BY <2>1, <2>2
  <2>4. lists[j] \in Seq(ResponseBuffers(j, Len(served[j])))
    BY DEF ListsOK
  <2> QED
    BY <2>1, <2>3, <2>4, SeqOfSubset
<1>14. ASSUME NEW j \in Key, j = k, more
       PROVE  buffer \in ResponseBuffers(j, Len(served[j]))'
  <2>1. /\ buffer \in [run : 1 .. run, size : Nat, next : Nat]
        /\ buffer.next \in 1 .. buffer.size /\ buffer.size = Down(r)
    BY <1>2, <1>3, <1>14
  <2>2. r \in Asked' /\ KeyOf(r)' = j /\ Down(r)' = Down(r)
    BY <1>1, <1>4, <1>14, GrowsKeeps
  <2>3. Len(served'[j]) = run
    BY <1>10, <1>11, <1>14
  <2> QED
    BY <2>1, <2>2, <2>3 DEF ResponseBuffers
<1>15. SresInv'
  <2> HIDE DEF buffer, more
  <2>1. DOMAIN sres' = Key
    BY <1>8 DEF ListsOK
  <2>2. ASSUME NEW j \in Key
        PROVE  sres'[j] \in Seq(ResponseBuffers(j, Len(served[j]))')
    <3>1. sres'[j] = lists[j]
            \/ (j = k /\ more /\ sres'[j] = Append(lists[j], buffer))
      BY <1>2, <1>8 DEF ListsOK
    <3>2. CASE sres'[j] = lists[j]
      BY <1>13, <3>2
    <3>3. CASE j = k /\ more /\ sres'[j] = Append(lists[j], buffer)
      <4>1. PICK B : B = ResponseBuffers(j, Len(served[j]))'
        OBVIOUS
      <4>2. lists[j] \in Seq(B) /\ buffer \in B
        BY <1>13, <1>14, <3>3, <4>1
      <4>3. Append(lists[j], buffer) \in Seq(B)
        BY <4>2
      <4> QED
        BY <3>3, <4>1, <4>3
    <3> QED
      BY <3>1, <3>2, <3>3
  <2> QED
    BY <2>1, <2>2 DEF SresInv
<1> QED
  BY <1>9, <1>12, <1>15

LEMMA DomainIsAsked ==
  ASSUME CountersInv
  PROVE  DOMAIN asked = Asked
  BY DEF CountersInv, Asked

\* A step in which no request is issued leaves the rest of the server be.
LEMMA SreqStays ==
  ASSUME CountersInv, UNCHANGED <<asked, mid>>, SreqInv,
         NEW k \in Key, NEW b \in RequestBuffers(k) \cup {None},
         sreq' = [sreq EXCEPT ![k] = b] \/ sreq' = sreq
  PROVE  SreqInv'
<1>1. \A j : RequestBuffers(j) \subseteq RequestBuffers(j)'
  BY StandsStill, RequestBuffersStay
<1>2. DOMAIN sreq' = Key
      /\ \A j \in Key : sreq'[j] \in RequestBuffers(j) \cup {None}
  BY DEF SreqInv
<1> QED
  BY <1>1, <1>2 DEF SreqInv

LEMMA SresStays ==
  ASSUME CountersInv, UNCHANGED <<asked, mid, served>>, ServedInv,
         ListsOK(sres')
  PROVE  SresInv' /\ ServedInv'
<1>1. Grows
  BY StandsStill
<1>2. ASSUME NEW k \in Key
      PROVE  sres'[k] \in Seq(ResponseBuffers(k, Len(served[k]))')
  <2>1. Len(served[k]) \in Nat
    BY DEF ServedInv
  <2>2. \A n \in Nat : ResponseBuffers(k, n) \subseteq ResponseBuffers(k, n)'
    BY <1>1, ResponseBuffersStay
  <2>3. ResponseBuffers(k, Len(served[k])) \subseteq
          ResponseBuffers(k, Len(served[k]))'
    BY <2>1, <2>2
  <2> QED
    BY <2>3, SeqOfSubset DEF ListsOK
<1>3. ASSUME NEW k \in Key
      PROVE  served[k] \in Seq(Payloads(k)')
  BY <1>1, PayloadsStay, SeqOfSubset DEF ServedInv
<1> QED
  BY <1>2, <1>3 DEF SresInv, ServedInv, ListsOK

\* A list of response buffers loses its first one.
LEMMA TailOK ==
  ASSUME NEW lists, ListsOK(lists), NEW k \in Key, lists[k] # << >>
  PROVE  ListsOK([lists EXCEPT ![k] = Tail(@)])
<1>1. Tail(lists[k]) \in Seq(ResponseBuffers(k, Len(served[k])))
  BY DEF ListsOK
<1> QED
  BY <1>1 DEF ListsOK

\* A request without block options.
LEMMA RegularInv ==
  ASSUME IInv, NEW m \in net, m.to = "server", Regular(m), expired' = expired
  PROVE  IInv'
<1> DEFINE r == m.req
           k == KeyOf(r)
           p == IF Up(r) = 0 THEN <<>> ELSE <<Block(r, 0)>>
           lists == IF sres[k] = <<>> THEN sres
                    ELSE [sres EXCEPT ![k] = Tail(@)]
<1>1. /\ r \in Asked /\ m.mid \in 1 .. mid /\ Up(r) <= 1
      /\ asked \in Seq(Kind) /\ CountersInv /\ NetInv /\ ServedInv
  BY DEF IInv, NetInv, MsgOK, Regular, CountersInv
<1>2. k \in Key /\ Up(r) \in Nat /\ r \in Request
  <2>1. r \in Request
    BY <1>1, BoundsAssumption DEF CountersInv, Asked, Request
  <2> QED
    BY <1>1, <2>1, KindIs
<1>3. UNCHANGED <<asked, mid>> /\ UNCHANGED client
  BY DEF Regular, client
<1>4. p \in Payloads(k)
  <2>1. p \in Seq(Blocks) /\ Len(p) = Up(r)
        /\ \A i \in 1 .. Len(p) : i = 1 /\ p[i] = Block(r, 0)
    <3>1. Block(r, 0) \in Blocks
      BY <1>2 DEF Block, Blocks
    <3>2. CASE Up(r) = 0
      BY <3>2
    <3>3. CASE Up(r) = 1
      <4> DEFINE x == Block(r, 0)
      <4>1. p = <<x>> /\ x \in Blocks
        BY <3>1, <3>3
      <4> HIDE DEF p, x, Blocks
      <4>2. /\ p \in Seq(Blocks) /\ Len(p) = 1
            /\ \A i \in 1 .. Len(p) : i = 1 /\ p[i] = x
        BY <4>1
      <4> QED
        BY <3>3, <4>2 DEF x
    <3> QED
      BY <1>1, <1>2, <3>2, <3>3
  <2>2. Block(r, 0).req = r /\ Block(r, 0).num = 0
    BY DEF Block
  <2> HIDE DEF p
  <2>3. p \in UploadBlocks(k)
    BY <1>1, <2>1, <2>2 DEF UploadBlocks
  <2>4. \A o \in Asked : KeyOf(o) = k /\ Alone(o) => o = r
    BY <1>1, DomainIsAsked DEF Alone
  <2> QED
    BY <1>1, <2>1, <2>3, <2>4 DEF Payloads
<1>5. ListsOK(lists)
  <2>1. ListsOK(sres)
    BY DEF IInv, SresInv, ListsOK
  <2> QED
    BY <1>2, <2>1, TailOK
<1>6. Invoke(m, p, lists, FALSE)
  BY DEF Regular
<1> HIDE DEF p, lists
<1>7. /\ NetInv' /\ copies' \in 0 .. MaxCopies
      /\ ServedInv' /\ SresInv'
  BY <1>1, <1>3, <1>4, <1>5, <1>6, InvokeInv
<1>8. CountersInv'
  BY <1>1, <1>3, <1>7 DEF CountersInv, Regular
<1>9. SreqInv'
  <2>1. sreq' = [sreq EXCEPT ![k] = None] \/ sreq' = sreq
    BY DEF Regular
  <2> QED
    BY <1>1, <1>2, <1>3, <2>1, SreqStays DEF IInv
<1>10. ClientInv'
  BY <1>3, ClientStays DEF IInv
<1> QED
  BY <1>7, <1>8, <1>9, <1>10 DEF IInv

\* coap_receive_blockwise_block1
LEMMA Block1Inv ==
  ASSUME IInv, NEW m \in net, m.to = "server", Block1(m), expired' = expired
  PROVE  IInv'
<1> DEFINE r == m.req
           k == KeyOf(r)
           b == BufferFor(m)
           x == Block(r, m.num)
           blocks == IF b = None THEN None ELSE handle_block(b.blocks, m.num, x)
<1>1. /\ r \in Asked /\ m.mid \in 1 .. mid /\ m.num \in Nat
      /\ m.num < Up(r) /\ (m.more <=> m.num + 1 < Up(r))
      /\ asked \in Seq(Kind) /\ CountersInv /\ NetInv /\ ServedInv /\ SreqInv
  BY DEF IInv, NetInv, MsgOK, Block1, CountersInv
<1>2. k \in Key /\ Up(r) \in Nat /\ r \in Request
  <2>1. r \in Request
    BY <1>1, BoundsAssumption DEF CountersInv, Asked, Request
  <2> QED
    BY <1>1, <2>1, KindIs
<1>3. /\ UNCHANGED <<asked, mid>> /\ UNCHANGED client /\ seen' = seen
      /\ \/ /\ blocks = None
            /\ sreq' = [sreq EXCEPT ![k] = None]
            /\ Exchange(m, {Empty("rst", m.mid)})
            /\ UNCHANGED <<sres, served>>
         \/ /\ blocks # None
            /\ m.more
            /\ sreq' = [sreq EXCEPT ![k] = [b EXCEPT !.blocks = blocks]]
            /\ Exchange(m, {Continue(r, m.num, m.mid)})
            /\ UNCHANGED <<sres, served>>
         \/ /\ blocks # None
            /\ ~m.more
            /\ sreq' = [sreq EXCEPT ![k] = None]
            /\ Invoke(m, blocks, sres, TRUE)
  BY DEF Block1, client
<1>4. b # None => b \in RequestBuffers(k)
  <2>1. NewRequestBuffer \in RequestBuffers(k)
    <3>1. << >> \in UploadBlocks(k) /\ Len(<< >>) = 0
      BY DEF UploadBlocks
    <3> DEFINE e == << >>
    <3>2. e \in UploadBlocks(k) /\ Len(e) = 0
      BY <3>1
    <3> HIDE DEF e
    <3>3. [blocks |-> e, size |-> 0] \in RequestBuffers(k)
      BY <3>2 DEF RequestBuffers
    <3> QED
      BY <3>3 DEF NewRequestBuffer, e
  <2>2. sreq[k] # None => sreq[k] \in RequestBuffers(k)
    BY <1>1, <1>2 DEF SreqInv
  <2>3. b = sreq[k] \/ b = NewRequestBuffer \/ b = None
    BY DEF BufferFor
  <2> QED
    BY <2>1, <2>2, <2>3
<1>5. x \in Blocks /\ x.req = r /\ x.num = m.num
  BY <1>1, <1>2 DEF Block, Blocks
<1> HIDE DEF b, x
<1>6. ASSUME blocks # None
      PROVE  /\ b \in RequestBuffers(k) /\ b.blocks \in UploadBlocks(k)
             /\ \A i \in 1 .. Len(b.blocks) : i < Up(b.blocks[i].req)
             /\ b.blocks \in Seq(Blocks) /\ Len(b.blocks) \in Nat
             /\ \/ m.num < Len(b.blocks) /\ blocks = b.blocks
                \/ m.num = Len(b.blocks) /\ blocks = Append(b.blocks, x)
  <2>1. b # None /\ b \in RequestBuffers(k)
    BY <1>4, <1>6
  <2>2. /\ b.blocks \in UploadBlocks(k)
        /\ \A i \in 1 .. Len(b.blocks) : i < Up(b.blocks[i].req)
    BY <2>1 DEF RequestBuffers
  <2>3. b.blocks \in Seq(Blocks) /\ Len(b.blocks) \in Nat
    BY <2>2 DEF UploadBlocks
  <2> QED
    BY <1>1, <1>6, <2>1, <2>2, <2>3 DEF handle_block
<1> HIDE DEF blocks
<1>7. ASSUME blocks # None
      PROVE  /\ blocks \in UploadBlocks(k)
             /\ \A i \in 1 .. Len(blocks) :
                  i < Up(blocks[i].req) \/ (i = m.num + 1 /\ blocks[i].req = r)
  <2>1. CASE blocks = b.blocks
    BY <1>6, <1>7, <2>1
  <2>2. CASE m.num = Len(b.blocks) /\ blocks = Append(b.blocks, x)
    <3> DEFINE s == b.blocks
    <3>1. /\ blocks \in Seq(Blocks) /\ Len(blocks) = Len(s) + 1
          /\ blocks[Len(s) + 1] = x
          /\ \A i \in 1 .. Len(s) : blocks[i] = s[i]
      BY <1>5, <1>6, <1>7, <2>2
    <3>2. ASSUME NEW i \in 1 .. Len(blocks)
          PROVE  /\ blocks[i].req \in Asked /\ KeyOf(blocks[i].req) = k
                 /\ blocks[i].num = i - 1
                 /\ i < Up(blocks[i].req)
                      \/ (i = m.num + 1 /\ blocks[i].req = r)
      <4>1. CASE i = Len(s) + 1
        BY <1>1, <1>5, <1>6, <1>7, <2>2, <3>1, <4>1
      <4>2. CASE i # Len(s) + 1
        <5>1. i \in 1 .. Len(s) /\ blocks[i] = s[i]
          BY <1>6, <1>7, <3>1, <4>2
        <5> QED
          BY <1>6, <1>7, <5>1 DEF UploadBlocks
      <4> QED
        BY <4>1, <4>2
    <3> QED
      BY <3>1, <3>2 DEF UploadBlocks
  <2> QED
    BY <1>6, <1>7, <2>1, <2>2
<1>8. ListsOK(sres)
  BY DEF IInv, SresInv, ListsOK
<1>9. ClientInv'
  BY <1>3, ClientStays DEF IInv
<1>10. CASE blocks = None
  <2>1. /\ sreq' = [sreq EXCEPT ![k] = None]
        /\ Exchange(m, {Empty("rst", m.mid)})
        /\ UNCHANGED <<sres, served>>
    BY <1>3, <1>10
  <2>2. \A y \in {Empty("rst", m.mid)} : MsgOK(y)
    BY EmptyOK
  <2>3. NetInv' /\ copies' \in 0 .. MaxCopies
    BY <1>1, <1>3, <2>1, <2>2, ExchangeStill
  <2>4. SreqInv'
    BY <1>1, <1>2, <1>3, <2>1, SreqStays
  <2>5. SresInv' /\ ServedInv'
    BY <1>1, <1>3, <1>8, <2>1, SresStays
  <2>6. CountersInv'
    BY <1>1, <1>3, <2>3 DEF CountersInv
  <2> QED
    BY <1>9, <2>3, <2>4, <2>5, <2>6 DEF IInv
<1>11. CASE blocks # None /\ m.more
  <2> DEFINE new == [b EXCEPT !.blocks = blocks]
  <2>1. /\ sreq' = [sreq EXCEPT ![k] = new]
        /\ Exchange(m, {Continue(r, m.num, m.mid)})
        /\ UNCHANGED <<sres, served>>
    BY <1>3, <1>11
  <2>2. \A y \in {Continue(r, m.num, m.mid)} : MsgOK(y)
    BY <1>1, ContinueOK
  <2>3. NetInv' /\ copies' \in 0 .. MaxCopies
    BY <1>1, <1>3, <2>1, <2>2, ExchangeStill
  <2>4. new \in RequestBuffers(k)
    <3>1. /\ new \in [blocks : UploadBlocks(k), size : {0}]
          /\ new.blocks = blocks
      BY <1>6, <1>7, <1>11 DEF RequestBuffers
    <3>2. \A i \in 1 .. Len(blocks) : i < Up(blocks[i].req)
      BY <1>1, <1>7, <1>11
    <3> HIDE DEF new
    <3> QED
      BY <3>1, <3>2 DEF RequestBuffers
  <2>5. SreqInv'
    <3> HIDE DEF new
    <3> QED
      BY <1>1, <1>2, <1>3, <2>1, <2>4, SreqStays
  <2>6. SresInv' /\ ServedInv'
    BY <1>1, <1>3, <1>8, <2>1, SresStays
  <2>7. CountersInv'
    BY <1>1, <1>3, <2>3 DEF CountersInv
  <2> QED
    BY <1>9, <2>3, <2>5, <2>6, <2>7 DEF IInv
<1>12. CASE blocks # None /\ ~ m.more
  <2>1. /\ sreq' = [sreq EXCEPT ![k] = None]
        /\ Invoke(m, blocks, sres, TRUE)
    BY <1>3, <1>12
  <2>2. blocks \in Payloads(k)
    <3>1. ASSUME NEW o \in Asked, KeyOf(o) = k, Alone(o)
          PROVE  Len(blocks) = Up(o)
      <4>1. \A q \in Asked : KeyOf(q) = k => q = o
        BY <1>1, <3>1, DomainIsAsked DEF Alone
      <4>2. o = r /\ m.num + 1 = Up(r)
        BY <1>1, <1>2, <1>12, <4>1
      <4>3. CASE m.num = Len(b.blocks) /\ blocks = Append(b.blocks, x)
        BY <1>5, <1>6, <1>12, <4>2, <4>3
      <4>4. CASE m.num < Len(b.blocks) /\ blocks = b.blocks
        <5> DEFINE n == Len(b.blocks)
        <5>1. n \in 1 .. n /\ n >= Up(r)
          BY <1>1, <1>6, <1>12, <4>2, <4>4
        <5>2. n < Up(b.blocks[n].req) /\ b.blocks[n].req = r
          <6>1. b.blocks[n].req \in Asked /\ KeyOf(b.blocks[n].req) = k
            BY <1>6, <1>12, <5>1 DEF UploadBlocks
          <6> QED
            BY <1>6, <1>12, <4>1, <4>2, <5>1, <6>1
        <5> QED
          BY <1>2, <1>6, <1>12, <5>1, <5>2
      <4> QED
        BY <1>6, <1>12, <4>3, <4>4
    <3> QED
      BY <1>1, <1>7, <1>12, <3>1 DEF Payloads
  <2>3. /\ NetInv' /\ copies' \in 0 .. MaxCopies
        /\ ServedInv' /\ SresInv'
    BY <1>1, <1>3, <1>8, <2>1, <2>2, InvokeInv
  <2>4. SreqInv'
    BY <1>1, <1>2, <1>3, <2>1, SreqStays
  <2>5. CountersInv'
    BY <1>1, <1>3, <2>3 DEF CountersInv
  <2> QED
    BY <1>9, <2>3, <2>4, <2>5 DEF IInv
<1> QED
  BY <1>10, <1>11, <1>12

\* coap_receive_blockwise_block2
LEMMA Block2Inv ==
  ASSUME IInv, NEW m \in net, m.to = "server", Block2(m), expired' = expired
  PROVE  IInv'
<1> DEFINE r == m.req
           k == KeyOf(r)
           b == FindResponse(k)
           due == b # None /\ b.next - m.num \in 0..1
           more == m.num + 1 < b.size
           part == Part(k, b.run, m.num)
           id == IF more THEN m.mid ELSE 0
           answer == Answer("ok", r, FALSE, m.num, more, part, id)
           n == Len(served[k])
<1>1. /\ r \in Asked /\ m.mid \in 1 .. mid /\ m.num \in Nat
      /\ asked \in Seq(Kind) /\ CountersInv /\ NetInv /\ ServedInv /\ SreqInv
      /\ ListsOK(sres)
  BY DEF IInv, NetInv, MsgOK, CountersInv, SresInv, ListsOK
<1>2. k \in Key
  BY <1>1, KindIs
<1>3. /\ UNCHANGED <<asked, mid>> /\ UNCHANGED client
      /\ seen' = seen /\ sreq' = sreq /\ served' = served
      /\ \/ /\ Exchange(m, {Empty("rst", m.mid)})
            /\ sres' = IF b = None THEN sres ELSE WithFirst(k, b, 0)
         \/ /\ Exchange(m, {})
            /\ UNCHANGED sres
         \/ /\ due /\ m.num < b.size
            /\ Exchange(m, IF more THEN {answer}
                           ELSE {answer, Empty("ack", m.mid)})
            /\ sres' = WithFirst(k, [b EXCEPT !.next = m.num + 1],
                                 IF more THEN 1 ELSE 0)
  BY DEF Block2, client
<1>4. sres[k] \in Seq(ResponseBuffers(k, n)) /\ n \in Nat
  BY <1>1, <1>2 DEF ListsOK, ServedInv
<1>5. b # None => sres[k] # << >> /\ b \in ResponseBuffers(k, n)
  <2>1. b # None => sres[k] # << >> /\ b = Head(sres[k])
    BY DEF FindResponse
  <2> HIDE DEF b, n
  <2> QED
    BY <1>4, <2>1
<1> HIDE DEF b
<1>6. ASSUME b # None, NEW c \in ResponseBuffers(k, n), NEW ref
      PROVE  ListsOK(WithFirst(k, c, ref))
  <2> DEFINE R == ResponseBuffers(k, n)
             s == IF ref = 0 THEN Tail(sres[k]) ELSE <<c>> \o Tail(sres[k])
  <2>1. s \in Seq(R)
    <3>1. Tail(sres[k]) \in Seq(R)
      <4>1. sres[k] \in Seq(R) /\ sres[k] # << >>
        BY <1>4, <1>5, <1>6
      <4> HIDE DEF R
      <4> QED
        BY <4>1
    <3>2. <<c>> \in Seq(R)
      BY <1>6
    <3> HIDE DEF R
    <3> QED
      BY <3>1, <3>2
  <2>2. WithFirst(k, c, ref) = [sres EXCEPT ![k] = s]
    BY DEF WithFirst
  <2> HIDE DEF s
  <2> QED
    BY <1>1, <1>2, <2>1, <2>2 DEF ListsOK
<1>7. NetInv' /\ copies' \in 0 .. MaxCopies /\ ListsOK(sres')
  <2>1. CASE Exchange(m, {Empty("rst", m.mid)})
             /\ sres' = IF b = None THEN sres ELSE WithFirst(k, b, 0)
    <3>1. \A y \in {Empty("rst", m.mid)} : MsgOK(y)
      BY EmptyOK
    <3>2. NetInv' /\ copies' \in 0 .. MaxCopies
      BY <1>1, <1>3, <2>1, <3>1, ExchangeStill
    <3>3. ListsOK(sres')
      BY <1>1, <1>5, <1>6, <2>1
    <3> QED
      BY <3>2, <3>3
  <2>2. CASE Exchange(m, {}) /\ UNCHANGED sres
    <3>1. NetInv' /\ copies' \in 0 .. MaxCopies
      BY <1>1, <1>3, <2>2, ExchangeStill
    <3> QED
      BY <1>1, <2>2, <3>1
  <2>3. CASE /\ due /\ m.num < b.size
             /\ Exchange(m, IF more THEN {answer}
                            ELSE {answer, Empty("ack", m.mid)})
             /\ sres' = WithFirst(k, [b EXCEPT !.next = m.num + 1],
                                  IF more THEN 1 ELSE 0)
    <3> DEFINE c == [b EXCEPT !.next = m.num + 1]
    <3>1. /\ b \in ResponseBuffers(k, n)
          /\ b \in [run : 1 .. n, size : Nat, next : Nat]
          /\ \E o \in Asked : KeyOf(o) = k /\ b.size = Down(o)
      BY <1>5, <2>3 DEF ResponseBuffers
    <3>2. c \in ResponseBuffers(k, n)
      <4>1. /\ c \in [run : 1 .. n, size : Nat, next : Nat]
            /\ c.next = m.num + 1 /\ c.size = b.size
        BY <1>1, <3>1
      <4> HIDE DEF c
      <4>2. c.next \in 1 .. c.size
        BY <1>1, <2>3, <3>1, <4>1
      <4> QED
        BY <3>1, <4>1, <4>2 DEF ResponseBuffers
    <3>3. ListsOK(sres')
      <4>1. sres' = WithFirst(k, c, IF more THEN 1 ELSE 0) /\ b # None
        BY <2>3
      <4> HIDE DEF c, more
      <4> QED
        BY <1>6, <3>2, <4>1
    <3>4. MsgOK(answer)
      <4>1. part \in Parts /\ part.key = k /\ part.num = m.num
        <5>1. b.run \in Nat \ {0}
          BY <1>4, <3>1
        <5> QED
          BY <1>1, <1>2, <5>1, PartIs
      <4>2. Alone(r) => m.num < Down(r) /\ (more <=> m.num + 1 < Down(r))
        <5>1. PICK o \in Asked : KeyOf(o) = k /\ b.size = Down(o)
          BY <3>1
        <5>2. Alone(r) => o = r
          BY <1>1, <5>1, DomainIsAsked DEF Alone
        <5> QED
          BY <2>3, <5>1, <5>2
      <4>3. more \in BOOLEAN
        OBVIOUS
      <4> HIDE DEF part, more, id, r
      <4> QED
        BY <1>1, <4>1, <4>2, <4>3, AnswerOK DEF k
    <3> DEFINE new == IF more THEN {answer} ELSE {answer, Empty("ack", m.mid)}
    <3>5. \A y \in new : MsgOK(y)
      <4> HIDE DEF answer
      <4> QED
        BY <3>4, EmptyOK
    <3>6. Exchange(m, new)
      BY <2>3
    <3> HIDE DEF new
    <3>7. NetInv' /\ copies' \in 0 .. MaxCopies
      BY <1>1, <1>3, <3>5, <3>6, ExchangeStill
    <3> QED
      BY <3>3, <3>7
  <2> QED
    BY <1>3, <2>1, <2>2, <2>3
<1>8. SresInv' /\ ServedInv'
  BY <1>1, <1>3, <1>7, SresStays
<1>9. SreqInv'
  BY <1>1, <1>2, <1>3, SreqStays
<1>10. CountersInv'
  BY <1>1, <1>3, <1>7 DEF CountersInv
<1>11. ClientInv'
  BY <1>3, ClientStays DEF IInv
<1> QED
  BY <1>7, <1>8, <1>9, <1>10, <1>11 DEF IInv

LEMMA ServerReceivesInv ==
  ASSUME IInv, NEW m \in net, ServerReceives(m)
  PROVE  IInv'
<1>1. m.to = "server" /\ expired' = expired
      /\ (Regular(m) \/ DropRepeated(m) \/ Block1(m) \/ Block2(m))
  BY DEF ServerReceives
<1>2. CASE DropRepeated(m)
  <2>1. /\ net' \subseteq net
        /\ UNCHANGED <<copies, expired, client, server>>
    BY <1>1, <1>2 DEF DropRepeated
  <2>2. UNCHANGED <<asked, mid, seen, sreq, sres, served>> /\ UNCHANGED client
    BY <2>1 DEF client, server
  <2>3. CountersInv /\ Grows
    BY <2>2, StandsStill DEF IInv
  <2>4. NetInv'
    BY <2>1, <2>3, MsgStays DEF IInv, NetInv
  <2>5. CountersInv'
    BY <2>1, <2>2, <2>3 DEF CountersInv
  <2>6. ServerInv'
    BY <2>2, <2>3, ServerStays DEF IInv, ServerInv
  <2>7. ClientInv'
    BY <2>2, ClientStays DEF IInv
  <2> QED
    BY <2>4, <2>5, <2>6, <2>7 DEF IInv, ServerInv
<1> QED
  BY <1>1, <1>2, RegularInv, Block1Inv, Block2Inv

\* blockwise_free_request_async and blockwise_free_response_async
LEMMA ServerTimerInv ==
  ASSUME IInv, NEW k \in Key,
         RequestBufferExpires(k) \/ ResponseBufferExpires(k)
  PROVE  IInv'
<1>1. /\ UNCHANGED <<asked, mid, copies, seen, served, net>>
      /\ UNCHANGED client /\ expired' = TRUE
  BY DEF RequestBufferExpires, ResponseBufferExpires, client
<1>2. CountersInv /\ Grows /\ SreqInv /\ ServedInv /\ ListsOK(sres)
  BY <1>1, StandsStill DEF IInv, SresInv, ListsOK
<1>3. NetInv'
  BY <1>1, <1>2, MsgStays DEF IInv, NetInv
<1>4. CountersInv'
  BY <1>1, <1>2 DEF CountersInv
<1>5. SreqInv'
  <2>1. sreq' = [sreq EXCEPT ![k] = None] \/ sreq' = sreq
    BY DEF RequestBufferExpires, ResponseBufferExpires
  <2> QED
    BY <1>1, <1>2, <2>1, SreqStays
<1>6. SresInv' /\ ServedInv'
  <2>1. ListsOK(sres')
    BY <1>2, TailOK DEF RequestBufferExpires, ResponseBufferExpires
  <2> QED
    BY <1>1, <1>2, <2>1, SresStays
<1>7. ClientInv'
  BY <1>1, ClientStays DEF IInv
<1> QED
  BY <1>3, <1>4, <1>5, <1>6, <1>7 DEF IInv

-----------------------------------------------------------------------------
(* Steps of the client.                                                    *)

\* A step of the client leaves the server's buffers alone.
LEMMA ClientMoves ==
  ASSUME IInv, Grows, UNCHANGED <<seen, sreq, sres, served>>,
         mid' \in 0 .. MaxMid, Len(asked') <= MaxRequests,
         copies' \in 0 .. MaxCopies, expired' \in BOOLEAN, NetInv', ClientInv'
  PROVE  IInv'
<1>1. CountersInv'
  BY DEF IInv, CountersInv, Grows
<1>2. ServerInv'
  BY ServerStays DEF IInv, ServerInv
<1> QED
  BY <1>1, <1>2 DEF IInv, ServerInv

\* The same for the receipt of a message without an answer to it.
LEMMA ClientAbsorbs ==
  ASSUME IInv, NEW m, Exchange(m, {}), UNCHANGED <<asked, mid, expired>>,
         UNCHANGED server, ClientInv'
  PROVE  IInv'
<1>1. CountersInv /\ NetInv /\ Grows
  BY StandsStill DEF IInv
<1>2. NetInv' /\ copies' \in 0 .. MaxCopies
  BY <1>1, ExchangeStill
<1>3. /\ UNCHANGED <<seen, sreq, sres, served>>
      /\ mid' \in 0 .. MaxMid /\ Len(asked') <= MaxRequests
      /\ expired' \in BOOLEAN
  BY <1>1 DEF server, CountersInv
<1> QED
  BY <1>1, <1>2, <1>3, ClientMoves

\* Until a request is issued nothing is kept for it.
LEMMA EntryIs ==
  ASSUME ClientInv, CountersInv, NEW r \in Request
  PROVE  \/ r \in Asked /\ cb[r].state # "idle"
         \/ /\ r > Len(asked) /\ cb[r].state = "idle"
            /\ creq[r] = None /\ cres[r] = None /\ handed[r] = None
<1>1. EntryInv(r) /\ Len(asked) \in Nat /\ r \in Nat /\ r >= 1
  BY BoundsAssumption DEF ClientInv, CountersInv, Request
<1>2. r \in Asked <=> r <= Len(asked)
  BY <1>1 DEF Asked
<1>3. CASE r \in Asked
  BY <1>1, <1>2, <1>3 DEF EntryInv
<1>4. CASE r \notin Asked
  <2>1. r > Len(asked) /\ cb[r].state = "idle"
    BY <1>1, <1>2, <1>4 DEF EntryInv
  <2>2. creq[r] = None /\ cres[r] = None
    BY <1>1, <2>1 DEF EntryInv, Live
  <2>3. handed[r] = None
    BY <1>1, <1>4 DEF EntryInv, Results
  <2> QED
    BY <2>1, <2>2, <2>3
<1> QED
  BY <1>3, <1>4

LEMMA CallbacksGrow ==
  ASSUME Grows
  PROVE  1 .. mid \subseteq 1 .. mid' /\ Callbacks(mid) \subseteq Callbacks(mid)'
<1>1. 1 .. mid \subseteq 1 .. mid'
  BY DEF Grows
<1> QED
  BY <1>1 DEF Callbacks

\* What is kept for r stays as it was, but its transaction may be closed and
\* its request buffer freed.
LEMMA EntryStays ==
  ASSUME ClientInv, CountersInv, Grows, asked' = asked, NEW r \in Request,
         cb'[r].state = cb[r].state, creq'[r] \in {creq[r], None},
         cres'[r] = cres[r], handed'[r] = handed[r]
  PROVE  EntryInv(r)'
<1>1. EntryInv(r)
  BY DEF ClientInv
<1>2. CASE r \in Asked
  <2>1. cres[r] \in AnswerBuffers(r)' \cup {None}
    BY <1>1, <1>2, AnswerBuffersStay DEF EntryInv
  <2>2. handed[r] \in Results(r)' \cup {None}
    BY <1>1, <1>2, ResultsStay DEF EntryInv
  <2>3. creq'[r] # None \/ cres'[r] # None => Live(r)'
    BY <1>1 DEF EntryInv, Live
  <2> QED
    BY <1>1, <2>1, <2>2, <2>3 DEF EntryInv
<1>3. CASE r \notin Asked
  BY <1>1, <1>3, EntryIs DEF EntryInv
<1> QED
  BY <1>2, <1>3

\* coap_clear_transaction: the callbacks keep their type.
LEMMA ClosedIs ==
  ASSUME ClientInv, NEW id
  PROVE  /\ Closed(id) \in [Request -> Callbacks(mid)]
         /\ \A r \in Request : Closed(id)[r].state = cb[r].state
<1> SUFFICES ASSUME NEW r \in Request
             PROVE  /\ Closed(id)[r] \in Callbacks(mid)
                    /\ Closed(id)[r].state = cb[r].state
  BY DEF Closed
<1> DEFINE c == [cb[r] EXCEPT !.open = FALSE]
<1>1. cb[r] \in Callbacks(mid)
  BY DEF ClientInv
<1>2. c \in Callbacks(mid) /\ c.state = cb[r].state
  <2>1. CASE cb[r] \in [state : {"live"}, mid : 1 .. mid, open : BOOLEAN]
    <3>1. c \in [state : {"live"}, mid : 1 .. mid, open : BOOLEAN]
      BY <2>1
    <3> QED
      BY <2>1, <3>1 DEF Callbacks
  <2>2. CASE cb[r] \in {Callback("idle", 0), Callback("freed", 0)}
    <3> DEFINE T == [state : {"idle", "freed"}, mid : {0}, open : {FALSE}]
    <3>1. cb[r] \in T
      <4>1. Callback("idle", 0) \in T /\ Callback("freed", 0) \in T
        BY DEF Callback
      <4> QED
        BY <2>2, <4>1
    <3>2. c = cb[r]
      BY <3>1
    <3> QED
      BY <1>1, <3>2
  <2> QED
    BY <1>1, <2>1, <2>2 DEF Callbacks
<1>3. Closed(id)[r] \in {c, cb[r]}
  BY DEF Closed
<1> QED
  BY <1>1, <1>2, <1>3

LEMMA ClosedInv ==
  ASSUME ClientInv, CountersInv, UNCHANGED <<asked, mid, cres, handed>>, NEW id,
         cb' = Closed(id), DOMAIN creq' = Request,
         creq' = [r \in Request |-> creq'[r]],
         \A r \in Request : creq'[r] \in {creq[r], None}
  PROVE  ClientInv'
<1>1. Grows
  BY StandsStill
<1>2. /\ cb' \in [Request -> Callbacks(mid)]
      /\ \A r \in Request : cb'[r].state = cb[r].state
  BY ClosedIs
<1>3. \A r \in Request : EntryInv(r)'
  BY <1>1, <1>2, EntryStays
<1>4. creq' \in [Request -> {None} \cup 1 .. mid]
  BY DEF ClientInv
<1>5. Callbacks(mid)' = Callbacks(mid)
  BY DEF Callbacks
<1> QED
  BY <1>2, <1>3, <1>4, <1>5 DEF ClientInv

\* oc_client_cb_free
LEMMA FreeInv ==
  ASSUME ClientInv, CountersInv, UNCHANGED <<asked, mid>>, NEW r \in Request,
         cb[r].state # "idle", Free(r), DOMAIN handed' = Request,
         \A o \in Request \ {r} : handed'[o] = handed[o],
         handed'[r] \in Results(r) \cup {None}
  PROVE  ClientInv'
<1> DEFINE freed == Callback("freed", 0)
<1>1. Grows /\ r \in Asked
  BY StandsStill, EntryIs
<1>2. /\ freed \in Callbacks(mid) /\ freed.state = "freed"
      /\ Callbacks(mid)' = Callbacks(mid)
  BY DEF Callbacks, Callback
<1>3. /\ cb' = [cb EXCEPT ![r] = freed]
      /\ creq' = [creq EXCEPT ![r] = None]
      /\ cres' = [cres EXCEPT ![r] = None]
  BY DEF Free
<1> HIDE DEF freed
<1>4. /\ cb' \in [Request -> Callbacks(mid)] /\ cb'[r] = freed
      /\ creq' \in [Request -> {None} \cup 1 .. mid] /\ creq'[r] = None
      /\ DOMAIN cres' = Request /\ cres'[r] = None
      /\ \A o \in Request \ {r} :
           cb'[o] = cb[o] /\ creq'[o] = creq[o] /\ cres'[o] = cres[o]
  BY <1>2, <1>3 DEF ClientInv
<1>5. ASSUME NEW o \in Request \ {r}
      PROVE  EntryInv(o)'
  BY <1>1, <1>4, EntryStays
<1>6. EntryInv(r)'
  <2>1. ~ (r > Len(asked))
    BY <1>1 DEF Asked, CountersInv
  <2>2. handed'[r] \in Results(r)' \cup {None}
    BY <1>1, ResultsStay
  <2> QED
    BY <1>2, <1>4, <2>1, <2>2 DEF EntryInv
<1> QED
  BY <1>2, <1>4, <1>5, <1>6 DEF ClientInv

LEMMA EmptyResult ==
  ASSUME NEW r \in Asked, NEW code \in {"ok", "error", "timeout"}
  PROVE  [code |-> code, payload |-> << >>] \in Results(r)
<1> DEFINE e == << >>
           h == [code |-> code, payload |-> e]
<1>1. e \in AnswerBlocks(r)
  BY DEF AnswerBlocks
<1>2. h.payload = << >>
  OBVIOUS
<1> HIDE DEF e
<1>3. h \in [code : {"ok", "error", "timeout"}, payload : AnswerBlocks(r)]
  BY <1>1
<1> HIDE DEF h
<1>4. h \in Results(r)
  BY <1>2, <1>3 DEF Results
<1> QED
  BY <1>4 DEF h, e

\* oc_client_cb_invoke
LEMMA HandOverInv ==
  ASSUME ClientInv, CountersInv, UNCHANGED <<asked, mid>>, NEW r \in Request,
         cb[r].state # "idle", NEW code, NEW payload,
         HandOver(r, code, payload),
         [code |-> code, payload |-> payload] \in Results(r)
  PROVE  ClientInv'
<1> DEFINE h == [code |-> code, payload |-> payload]
<1>1. handed' = [handed EXCEPT ![r] = h] /\ Free(r) /\ h \in Results(r)
  BY DEF HandOver
<1> HIDE DEF h
<1>2. /\ DOMAIN handed' = Request /\ handed'[r] = h
      /\ \A o \in Request \ {r} : handed'[o] = handed[o]
  BY <1>1 DEF ClientInv
<1> QED
  BY <1>1, <1>2, FreeInv

\* oc_blockwise_handle_block for a block of an answer: with the block in m the
\* buffer is in order, and when nobody else uses the key, it is as long as the
\* answer once no more blocks follow.
LEMMA ReceivedIs ==
  ASSUME ClientInv, CountersInv, NEW m, MsgOK(m), m.to = "client",
         m.kind \in {"ok", "error"}, m.req \in Request, Received(m.req, m) # None
  PROVE  /\ Received(m.req, m) \in AnswerBlocks(m.req)
         /\ Alone(m.req) =>
              IF m.more THEN Len(Received(m.req, m)) < Down(m.req)
              ELSE Len(Received(m.req, m)) = Down(m.req)
<1> DEFINE r == m.req
           part == m.part
           old == IF cres[r] = None THEN << >> ELSE cres[r].blocks
           p == Received(r, m)
<1>1. /\ m.part # None
      /\ p = handle_block(old, m.num, part)
  BY DEF Received
<1>2. /\ r \in Asked /\ m.num \in Nat /\ part \in Parts
      /\ part.key = KeyOf(r) /\ part.num = m.num
      /\ Alone(r) => m.num < Down(r) /\ (m.more <=> m.num + 1 < Down(r))
  BY <1>1 DEF MsgOK
<1>3. Down(r) \in Nat
  BY <1>2, KindIs DEF CountersInv
<1>4. old \in AnswerBlocks(r) /\ (old # << >> /\ Alone(r) => Len(old) < Down(r))
  <2>1. CASE cres[r] = None
    BY <2>1 DEF AnswerBlocks
  <2>2. CASE cres[r] # None
    <3>1. cres[r] \in AnswerBuffers(r)
      BY <2>2 DEF ClientInv, EntryInv
    <3> QED
      BY <2>2, <3>1 DEF AnswerBuffers
  <2> QED
    BY <2>1, <2>2
<1>5. old \in Seq(Parts) /\ Len(old) \in Nat
  BY <1>4 DEF AnswerBlocks
<1> HIDE DEF old, part, p
<1>6. \/ m.num < Len(old) /\ p = old
      \/ m.num = Len(old) /\ p = Append(old, part)
  BY <1>1, <1>2, <1>5 DEF handle_block, p
<1>7. CASE m.num < Len(old) /\ p = old
  <2>1. old # << >>
    BY <1>2, <1>5, <1>7
  <2>2. Alone(r) => Len(p) < Down(r) /\ m.more
    BY <1>2, <1>3, <1>4, <1>5, <1>7, <2>1
  <2> QED
    BY <1>4, <1>7, <2>2 DEF p
<1>8. CASE m.num = Len(old) /\ p = Append(old, part)
  <2>1. /\ p \in Seq(Parts) /\ Len(p) = m.num + 1
        /\ p[m.num + 1] = part
        /\ \A i \in 1 .. m.num : p[i] = old[i]
    BY <1>2, <1>5, <1>8
  <2>2. ASSUME NEW i \in 1 .. Len(p)
        PROVE  p[i].key = KeyOf(r) /\ p[i].num = i - 1
    <3>1. CASE i = m.num + 1
      BY <1>2, <2>1, <3>1
    <3>2. CASE i # m.num + 1
      <4>1. i \in 1 .. Len(old) /\ p[i] = old[i]
        BY <1>2, <1>8, <2>1, <3>2
      <4> QED
        BY <1>4, <4>1 DEF AnswerBlocks
    <3> QED
      BY <3>1, <3>2
  <2>3. p \in AnswerBlocks(r)
    BY <2>1, <2>2 DEF AnswerBlocks
  <2>4. Alone(r) => IF m.more THEN Len(p) < Down(r) ELSE Len(p) = Down(r)
    BY <1>2, <1>3, <2>1
  <2> QED
    BY <2>3, <2>4 DEF p
<1> QED
  BY <1>6, <1>7, <1>8

LEMMA RequestIs ==
  ASSUME CountersInv, NEW r \in Asked
  PROVE  r \in Request
  BY BoundsAssumption DEF CountersInv, Asked, Request

LEMMA ReceiveAckInv ==
  ASSUME IInv, NEW m, ReceiveAck(m), expired' = expired
  PROVE  IInv'
<1>1. /\ cb' = Closed(m.mid)
      /\ creq' = [r \in Request |->
                    IF r \in RequestOf(m.mid) THEN None ELSE creq[r]]
      /\ Exchange(m, {}) /\ UNCHANGED <<asked, mid, cres, handed>>
      /\ UNCHANGED server
  BY DEF ReceiveAck
<1>2. ClientInv'
  BY <1>1, ClosedInv DEF IInv
<1> QED
  BY <1>1, <1>2, ClientAbsorbs

LEMMA ReceiveResetInv ==
  ASSUME IInv, NEW m, ReceiveReset(m), expired' = expired
  PROVE  IInv'
<1>1. /\ \/ /\ cb' = Closed(m.mid)
            /\ creq' = [r \in Request |->
                          IF r \in RequestOf(m.mid) THEN None ELSE creq[r]]
            /\ UNCHANGED <<cres, handed>>
         \/ \E r \in ResponseOf(m.mid) : HandOver(r, "ok", << >>)
      /\ Exchange(m, {}) /\ UNCHANGED <<asked, mid>> /\ UNCHANGED server
  BY DEF ReceiveReset
<1>2. ClientInv /\ CountersInv
  BY DEF IInv
<1>3. CASE /\ cb' = Closed(m.mid)
           /\ creq' = [r \in Request |->
                         IF r \in RequestOf(m.mid) THEN None ELSE creq[r]]
           /\ UNCHANGED <<cres, handed>>
  <2>1. ClientInv'
    BY <1>1, <1>2, <1>3, ClosedInv
  <2> QED
    BY <1>1, <2>1, ClientAbsorbs
<1>4. CASE \E r \in ResponseOf(m.mid) : HandOver(r, "ok", << >>)
  <2>1. PICK r \in ResponseOf(m.mid) : HandOver(r, "ok", << >>)
    BY <1>4
  <2>2. r \in Request /\ r \in Asked /\ cb[r].state # "idle"
    BY <1>2, EntryIs DEF ResponseOf
  <2>3. [code |-> "ok", payload |-> << >>] \in Results(r)
    BY <2>2, EmptyResult
  <2>4. ClientInv'
    BY <1>1, <1>2, <2>1, <2>2, <2>3, HandOverInv
  <2> QED
    BY <1>1, <2>4, ClientAbsorbs
<1> QED
  BY <1>1, <1>3, <1>4

\* The client sends a message with the next message ID.
LEMMA SendsNext ==
  ASSUME CountersInv, asked' = asked, mid < MaxMid, mid' = mid + 1
  PROVE  /\ Grows /\ mid' \in 1 .. mid' /\ mid' \in 0 .. MaxMid
         /\ Len(asked') <= MaxRequests /\ expired \in BOOLEAN
<1>1. Len(asked) \in Nat /\ mid \in Nat
  BY BoundsAssumption DEF CountersInv
<1> QED
  BY <1>1, BoundsAssumption DEF Grows, CountersInv, Asked

LEMMA SentOK ==
  ASSUME NEW x, NEW r \in Asked', NEW opt \in {"plain", "block1", "block2"},
         NEW num \in Nat, NEW more \in BOOLEAN, NEW id \in 1 .. mid',
         x = ToServer(r, opt, num, more, id),
         opt = "plain" => Up(r)' <= 1,
         opt = "block1" => num < Up(r)' /\ (more <=> num + 1 < Up(r)')
  PROVE  MsgOK(x)'
<1>1. /\ x.to = "server" /\ x.req = r /\ x.opt = opt /\ x.num = num
      /\ x.more = more /\ x.mid = id
  BY DEF ToServer
<1> QED
  BY <1>1 DEF MsgOK

LEMMA ReceiveContinueInv ==
  ASSUME IInv, NEW m \in net, m.to = "client", ReceiveContinue(m),
         expired' = expired
  PROVE  IInv'
<1> DEFINE r == m.req
           next == m.num + 1
<1>1. /\ r \in Asked /\ m.num \in Nat
      /\ CountersInv /\ ClientInv /\ NetInv /\ asked \in Seq(Kind)
  BY DEF IInv, NetInv, MsgOK, ReceiveContinue, CountersInv
<1>2. r \in Request /\ Up(r) \in Nat
  BY <1>1, RequestIs, KindIs
<1>3. asked' = asked /\ UNCHANGED server
  BY DEF ReceiveContinue
<1>4. CASE /\ Live(r) /\ creq[r] # None /\ next < Up(r)
           /\ mid < MaxMid /\ mid' = mid + 1
           /\ cb' = Closed(m.mid)
           /\ creq' = [creq EXCEPT ![r] = mid + 1]
           /\ Exchange(m, {ToServer(r, "block1", next, next + 1 < Up(r),
                                    mid + 1)})
           /\ UNCHANGED <<cres, handed>>
  <2>1. /\ Grows /\ mid' \in 1 .. mid' /\ mid' \in 0 .. MaxMid
        /\ Len(asked') <= MaxRequests /\ expired' \in BOOLEAN
    BY <1>1, <1>3, <1>4, SendsNext
  <2>2. NetInv' /\ copies' \in 0 .. MaxCopies
    <3> DEFINE more == next + 1 < Up(r)
    <3>1. r \in Asked' /\ Up(r)' = Up(r)
      BY <1>1, <2>1, GrowsKeeps
    <3>2. next \in Nat /\ more \in BOOLEAN /\ next < Up(r)
          /\ (more <=> next + 1 < Up(r))
      BY <1>1, <1>4
    <3>3. ASSUME NEW x \in {ToServer(r, "block1", next, more, mid + 1)}
          PROVE  MsgOK(x)'
      <4>1. x = ToServer(r, "block1", next, more, mid')
        BY <1>4, <3>3
      <4> HIDE DEF next, more
      <4> QED
        BY <2>1, <3>1, <3>2, <4>1, SentOK
    <3> QED
      BY <1>1, <1>4, <2>1, <3>3, ExchangeNet
  <2>3. /\ cb' \in [Request -> Callbacks(mid)]
        /\ \A o \in Request : cb'[o].state = cb[o].state
    BY <1>1, <1>4, ClosedIs
  <2>4. cb' \in [Request -> Callbacks(mid)']
    BY <2>1, <2>3, CallbacksGrow
  <2>5. /\ creq' \in [Request -> {None} \cup 1 .. mid']
        /\ \A o \in Request \ {r} : creq'[o] = creq[o]
    BY <1>1, <1>4, <2>1, CallbacksGrow DEF ClientInv
  <2>6. \A o \in Request \ {r} : EntryInv(o)'
    BY <1>1, <1>3, <1>4, <2>1, <2>3, <2>5, EntryStays
  <2>7. EntryInv(r)'
    <3>1. EntryInv(r)
      BY <1>1, <1>2 DEF ClientInv
    <3>2. cres'[r] \in AnswerBuffers(r)' \cup {None}
      BY <1>1, <1>4, <2>1, <3>1, AnswerBuffersStay DEF EntryInv
    <3>3. handed'[r] \in Results(r)' \cup {None}
      BY <1>1, <1>4, <2>1, <3>1, ResultsStay DEF EntryInv
    <3>4. Live(r)'
      BY <1>2, <1>4, <2>3 DEF Live
    <3> QED
      BY <1>2, <1>3, <2>3, <3>1, <3>2, <3>3, <3>4 DEF EntryInv
  <2>8. ClientInv'
    BY <1>1, <1>4, <2>4, <2>5, <2>6, <2>7 DEF ClientInv
  <2> QED
    BY <1>3, <2>1, <2>2, <2>8, ClientMoves DEF server
<1>5. CASE /\ HandOver(r, "ok", << >>) /\ Exchange(m, {}) /\ UNCHANGED mid
           /\ Live(r)
  <2>1. [code |-> "ok", payload |-> << >>] \in Results(r) /\ cb[r].state # "idle"
    BY <1>1, <1>5, EmptyResult DEF Live
  <2>2. ClientInv'
    BY <1>1, <1>2, <1>3, <1>5, <2>1, HandOverInv
  <2> QED
    BY <1>3, <1>5, <2>2, ClientAbsorbs
<1>6. CASE Exchange(m, {}) /\ UNCHANGED <<mid, cb, creq, cres, handed>>
  <2>1. UNCHANGED client
    BY <1>3, <1>6 DEF client, ReceiveContinue
  <2>2. ClientInv'
    BY <1>1, <2>1, ClientStays
  <2> QED
    BY <1>3, <1>6, <2>2, ClientAbsorbs
<1> QED
  BY <1>4, <1>5, <1>6 DEF ReceiveContinue

\* coap_receive for an answer
LEMMA ReceiveAnswerInv ==
  ASSUME IInv, NEW m \in net, m.to = "client", ReceiveAnswer(m),
         expired' = expired
  PROVE  IInv'
<1> DEFINE r == m.req
           p == Received(r, m)
           result == IF m.kind = "error" \/ p = None THEN << >> ELSE p
<1>1. /\ r \in Asked /\ m.num \in Nat /\ m.kind \in {"ok", "error"} /\ MsgOK(m)
      /\ CountersInv /\ ClientInv /\ NetInv /\ asked \in Seq(Kind)
  BY DEF IInv, NetInv, MsgOK, ReceiveAnswer, CountersInv
<1>2. r \in Request
  BY <1>1, RequestIs
<1>3. asked' = asked /\ UNCHANGED server
  BY DEF ReceiveAnswer
<1>4. p # None => /\ p \in AnswerBlocks(r)
                  /\ Alone(r) => IF m.more THEN Len(p) < Down(r)
                                 ELSE Len(p) = Down(r)
  BY <1>1, <1>2, ReceivedIs
<1>5. CASE /\ Live(r) /\ AsksNext(r, m)
           /\ mid < MaxMid /\ mid' = mid + 1
           /\ cb' = [cb EXCEPT ![r].mid = mid + 1, ![r].open = TRUE]
           /\ creq' = IF m.b1 THEN [creq EXCEPT ![r] = None] ELSE creq
           /\ cres' = [cres EXCEPT ![r] = [mid |-> mid + 1, blocks |-> p]]
           /\ Exchange(m, {ToServer(r, "block2", m.num + 1, FALSE, mid + 1)})
           /\ UNCHANGED handed
  <2>1. /\ Grows /\ mid' \in 1 .. mid' /\ mid' \in 0 .. MaxMid
        /\ Len(asked') <= MaxRequests /\ expired' \in BOOLEAN
    BY <1>1, <1>3, <1>5, SendsNext
  <2>2. NetInv' /\ copies' \in 0 .. MaxCopies
    <3>1. r \in Asked' /\ m.num + 1 \in Nat
      BY <1>1, <2>1, GrowsKeeps
    <3>2. ASSUME NEW x \in {ToServer(r, "block2", m.num + 1, FALSE, mid + 1)}
          PROVE  MsgOK(x)'
      <4>1. x = ToServer(r, "block2", m.num + 1, FALSE, mid')
        BY <1>5, <3>2
      <4> QED
        BY <2>1, <3>1, <4>1, SentOK
    <3> QED
      BY <1>1, <1>5, <2>1, <3>2, ExchangeNet
  <2> DEFINE c == [cb[r] EXCEPT !.mid = mid + 1, !.open = TRUE]
             buffer == [mid |-> mid + 1, blocks |-> p]
  <2>3. c \in Callbacks(mid)' /\ c.state = "live"
    <3>1. cb[r] \in [state : {"live"}, mid : 1 .. mid, open : BOOLEAN]
      <4>1. cb[r] \in Callbacks(mid)
        BY <1>1, <1>2 DEF ClientInv
      <4>2. cb[r] \notin {Callback("idle", 0), Callback("freed", 0)}
        BY <1>5 DEF Live, Callback
      <4> QED
        BY <4>1, <4>2 DEF Callbacks
    <3>2. /\ c \in [state : {"live"}, mid : 1 .. mid', open : BOOLEAN]
          /\ c.state = "live"
      BY <1>5, <2>1, <3>1
    <3> QED
      BY <3>2 DEF Callbacks
  <2>4. /\ cb' = [cb EXCEPT ![r] = c] /\ cres' = [cres EXCEPT ![r] = buffer]
        /\ creq' = IF m.b1 THEN [creq EXCEPT ![r] = None] ELSE creq
    BY <1>5
  <2>5. buffer \in AnswerBuffers(r)'
    <3>1. p \in AnswerBlocks(r) /\ (Alone(r) => Len(p) < Down(r))
      BY <1>4, <1>5 DEF AsksNext
    <3>2. p \in AnswerBlocks(r)' /\ (Alone(r)' => Len(p) < Down(r)')
      BY <1>1, <2>1, <3>1, AnswerBlocksStay, GrowsKeeps
    <3>3. ASSUME NEW id \in 1 .. mid', NEW q \in AnswerBlocks(r)',
                 Alone(r)' => Len(q) < Down(r)'
          PROVE  [mid |-> id, blocks |-> q] \in AnswerBuffers(r)'
      BY <3>3 DEF AnswerBuffers
    <3> HIDE DEF p
    <3>4. [mid |-> mid', blocks |-> p] \in AnswerBuffers(r)'
      BY <2>1, <3>2, <3>3
    <3> QED
      BY <1>5, <3>4
  <2> HIDE DEF c, buffer
  <2>6. /\ cb' \in [Request -> Callbacks(mid)'] /\ cb'[r] = c
        /\ creq' \in [Request -> {None} \cup 1 .. mid']
        /\ DOMAIN cres' = Request /\ cres'[r] = buffer
        /\ DOMAIN handed' = Request
        /\ \A o \in Request \ {r} :
             cb'[o] = cb[o] /\ creq'[o] = creq[o] /\ cres'[o] = cres[o]
    <3>1. /\ cb \in [Request -> Callbacks(mid)']
          /\ creq \in [Request -> {None} \cup 1 .. mid']
          /\ DOMAIN cres = Request /\ DOMAIN handed = Request
      BY <1>1, <2>1, CallbacksGrow DEF ClientInv
    <3>2. /\ cb' \in [Request -> Callbacks(mid)'] /\ cb'[r] = c
          /\ \A o \in Request \ {r} : cb'[o] = cb[o]
      BY <1>2, <2>3, <2>4, <3>1
    <3>3. /\ creq' \in [Request -> {None} \cup 1 .. mid']
          /\ \A o \in Request \ {r} : creq'[o] = creq[o]
      BY <1>2, <2>4, <3>1
    <3>4. /\ DOMAIN cres' = Request /\ cres'[r] = buffer
          /\ \A o \in Request \ {r} : cres'[o] = cres[o]
      BY <1>2, <2>4, <3>1
    <3> QED
      BY <1>5, <3>1, <3>2, <3>3, <3>4
  <2>7. \A o \in Request \ {r} : EntryInv(o)'
    BY <1>1, <1>3, <1>5, <2>1, <2>6, EntryStays
  <2>8. EntryInv(r)'
    <3>1. EntryInv(r)
      BY <1>1, <1>2 DEF ClientInv
    <3>2. handed'[r] \in Results(r)' \cup {None}
      BY <1>1, <1>5, <2>1, <3>1, ResultsStay DEF EntryInv
    <3>3. Live(r)' /\ cb[r].state = "live" /\ cb'[r].state = "live"
      BY <1>5, <2>3, <2>6 DEF Live
    <3> QED
      BY <1>3, <2>5, <2>6, <3>1, <3>2, <3>3 DEF EntryInv
  <2>9. ClientInv'
    BY <2>6, <2>7, <2>8 DEF ClientInv
  <2> QED
    BY <1>3, <2>1, <2>2, <2>9, ClientMoves DEF server
<1>6. CASE /\ Live(r) /\ ~ AsksNext(r, m) /\ HandOver(r, m.kind, result)
           /\ Exchange(m, {}) /\ UNCHANGED mid
  <2>1. [code |-> m.kind, payload |-> result] \in Results(r)
    <3>1. CASE m.kind = "error" \/ p = None
      BY <1>1, <3>1, EmptyResult
    <3>2. CASE ~ (m.kind = "error" \/ p = None)
      <4>1. /\ result = p /\ p \in AnswerBlocks(r)
            /\ Alone(r) => Len(p) = Down(r)
        BY <1>1, <1>4, <1>6, <3>2 DEF AsksNext
      <4>2. ASSUME NEW q \in AnswerBlocks(r), Alone(r) => Len(q) = Down(r),
                   NEW code \in {"ok", "error"}
            PROVE  [code |-> code, payload |-> q] \in Results(r)
        BY <1>1, <4>2 DEF Results
      <4> HIDE DEF p, result
      <4> QED
        BY <1>1, <4>1, <4>2
    <3> QED
      BY <3>1, <3>2
  <2>2. ClientInv'
    <3>1. cb[r].state # "idle"
      BY <1>6 DEF Live
    <3> HIDE DEF result
    <3> QED
      BY <1>1, <1>2, <1>3, <1>6, <2>1, <3>1, HandOverInv
  <2> QED
    BY <1>3, <1>6, <2>2, ClientAbsorbs
<1>7. CASE Exchange(m, {}) /\ UNCHANGED <<mid, cb, creq, cres, handed>>
  <2>1. UNCHANGED client
    BY <1>3, <1>7 DEF client, ReceiveAnswer
  <2>2. ClientInv'
    BY <1>1, <2>1, ClientStays
  <2> QED
    BY <1>3, <1>7, <2>2, ClientAbsorbs
<1> QED
  BY <1>5, <1>6, <1>7 DEF ReceiveAnswer

LEMMA ClientReceivesInv ==
  ASSUME IInv, NEW m \in net, ClientReceives(m)
  PROVE  IInv'
  BY ReceiveAckInv, ReceiveResetInv, ReceiveContinueInv, ReceiveAnswerInv
    DEF ClientReceives

\* coap_send_transaction and oc_client_cb_remove_async
LEMMA ClientTimerInv ==
  ASSUME IInv, NEW r \in Request, GiveUp(r) \/ ExchangeEnds(r)
  PROVE  IInv'
<1>1. /\ UNCHANGED <<net, copies, mid, asked>> /\ UNCHANGED server
      /\ expired' = TRUE
  BY DEF GiveUp, ExchangeEnds
<1>2. CountersInv /\ ClientInv /\ NetInv /\ Grows
  BY <1>1, StandsStill DEF IInv
<1>3. cb[r].state # "idle"
  <2>1. cb[r] # Callback("idle", 0)
    BY DEF GiveUp, ExchangeEnds, Live, Callback
  <2>2. cb[r] \in Callbacks(mid)
    BY <1>2 DEF ClientInv
  <2>3. CASE cb[r] \in [state : {"live"}, mid : 1 .. mid, open : BOOLEAN]
    BY <2>3
  <2>4. CASE cb[r] = Callback("freed", 0)
    BY <2>4 DEF Callback
  <2> QED
    BY <2>1, <2>2, <2>3, <2>4 DEF Callbacks
<1>4. r \in Asked
  BY <1>2, <1>3, EntryIs
<1>5. ClientInv'
  <2>1. CASE GiveUp(r)
    <3>1. [code |-> "timeout", payload |-> << >>] \in Results(r)
      BY <1>4, EmptyResult
    <3> QED
      BY <1>1, <1>2, <1>3, <2>1, <3>1, HandOverInv DEF GiveUp
  <2>2. CASE ExchangeEnds(r)
    <3>1. handed[r] \in Results(r) \cup {None} /\ DOMAIN handed = Request
      BY <1>2 DEF ClientInv, EntryInv
    <3> QED
      BY <1>1, <1>2, <1>3, <2>2, <3>1, FreeInv DEF ExchangeEnds
  <2> QED
    BY <2>1, <2>2
<1>6. NetInv'
  BY <1>1, <1>2, MsgStays DEF NetInv
<1>7. /\ UNCHANGED <<seen, sreq, sres, served>>
      /\ mid' \in 0 .. MaxMid /\ Len(asked') <= MaxRequests
      /\ copies' \in 0 .. MaxCopies /\ expired' \in BOOLEAN
  BY <1>1, <1>2 DEF server, CountersInv
<1> QED
  BY <1>2, <1>5, <1>6, <1>7, ClientMoves

\* oc_do_get and oc_do_post
LEMMA StartInv ==
  ASSUME IInv, NEW kind \in Kind, Start(kind)
  PROVE  IInv'
<1> SUFFICES ASSUME NEW r, r = Len(asked) + 1
             PROVE  IInv'
  OBVIOUS
<1> DEFINE m == IF kind.up > 1 THEN ToServer(r, "block1", 0, TRUE, mid + 1)
                ELSE ToServer(r, "plain", 0, FALSE, mid + 1)
           c == [state |-> "live", mid |-> mid + 1,
                 open |-> kind.up > 1 \/ kind.con]
<1>1. /\ r \in Request /\ mid < MaxMid /\ mid' = mid + 1
      /\ asked' = Append(asked, kind)
      /\ net' = net \cup {m}
      /\ cb' = [cb EXCEPT ![r] = c]
      /\ creq' = IF kind.up > 1 THEN [creq EXCEPT ![r] = mid + 1] ELSE creq
      /\ UNCHANGED <<copies, expired, cres, handed>> /\ UNCHANGED server
  BY DEF Start
<1>2. CountersInv /\ ClientInv /\ NetInv
  BY DEF IInv
<1>3. /\ asked \in Seq(Kind) /\ asked' \in Seq(Kind) /\ Len(asked) \in Nat
      /\ Len(asked') = r /\ asked'[r] = kind
      /\ \A o \in 1 .. Len(asked) : asked'[o] = asked[o]
      /\ mid \in Nat /\ mid' \in Nat
  BY <1>1, <1>2, BoundsAssumption DEF CountersInv
<1>4. Grows /\ mid' \in 1 .. mid' /\ mid' \in 0 .. MaxMid
  BY <1>1, <1>3, BoundsAssumption DEF Grows, Asked
<1>5. Len(asked') <= MaxRequests /\ r \in Asked' /\ r \notin Asked
  BY <1>1, <1>3, BoundsAssumption DEF Request, Asked
<1>6. kind.up \in Nat /\ kind.con \in BOOLEAN /\ Up(r)' = kind.up
  BY <1>3, KindAssumption DEF Up
<1>7. NetInv'
  <2>1. ASSUME NEW x \in {m}
        PROVE  MsgOK(x)'
    <3>1. CASE kind.up > 1
      <4>1. x = ToServer(r, "block1", 0, TRUE, mid')
        BY <1>1, <2>1, <3>1
      <4>2. 0 < Up(r)' /\ 0 + 1 < Up(r)'
        BY <1>6, <3>1
      <4> QED
        BY <1>4, <1>5, <4>1, <4>2, SentOK
    <3>2. CASE ~ (kind.up > 1)
      <4>1. x = ToServer(r, "plain", 0, FALSE, mid')
        BY <1>1, <2>1, <3>2
      <4>2. Up(r)' <= 1
        BY <1>6, <3>2
      <4> QED
        BY <1>4, <1>5, <4>1, <4>2, SentOK
    <3> QED
      BY <3>1, <3>2
  <2>2. \A x \in net : MsgOK(x)'
    BY <1>2, <1>4, MsgStays DEF NetInv
  <2> HIDE DEF m
  <2> QED
    BY <1>1, <2>1, <2>2 DEF NetInv
<1>8. c \in Callbacks(mid)' /\ c.state = "live"
  <2>1. c \in [state : {"live"}, mid : 1 .. mid', open : BOOLEAN]
    BY <1>1, <1>4
  <2> QED
    BY <2>1 DEF Callbacks
<1> HIDE DEF c
<1>9. /\ cb' \in [Request -> Callbacks(mid)'] /\ cb'[r] = c
      /\ creq' \in [Request -> {None} \cup 1 .. mid']
      /\ DOMAIN cres' = Request /\ DOMAIN handed' = Request
      /\ \A o \in Request \ {r} : cb'[o] = cb[o] /\ creq'[o] = creq[o]
  BY <1>1, <1>2, <1>4, <1>8, CallbacksGrow DEF ClientInv
<1>10. ASSUME NEW o \in Request \ {r}
       PROVE  EntryInv(o)'
  <2>1. EntryInv(o) /\ o \in Nat
    BY <1>2 DEF ClientInv, Request
  <2>2. cb'[o].state = "idle" <=> o > Len(asked')
    BY <1>3, <1>9, <2>1 DEF EntryInv
  <2>3. creq'[o] # None \/ cres'[o] # None => Live(o)'
    BY <1>1, <1>9, <2>1 DEF EntryInv, Live
  <2>4. CASE o \in Asked
    <3>1. cres'[o] \in AnswerBuffers(o)' \cup {None}
      BY <1>1, <1>4, <2>1, <2>4, AnswerBuffersStay DEF EntryInv
    <3>2. handed'[o] \in Results(o)' \cup {None}
      BY <1>1, <1>4, <2>1, <2>4, ResultsStay DEF EntryInv
    <3> QED
      BY <2>2, <2>3, <3>1, <3>2 DEF EntryInv
  <2>5. CASE o \notin Asked
    <3>1. cres'[o] = None /\ handed'[o] = None
      BY <1>1, <1>2, <2>5, EntryIs
    <3> QED
      BY <2>2, <2>3, <3>1 DEF EntryInv
  <2> QED
    BY <2>4, <2>5
<1>11. EntryInv(r)'
  <2>1. cres'[r] = None /\ handed'[r] = None
    BY <1>1, <1>2, <1>5, EntryIs
  <2>2. Live(r)' /\ cb'[r].state # "idle" /\ ~ (r > Len(asked'))
    BY <1>3, <1>8, <1>9 DEF Live
  <2> QED
    BY <2>1, <2>2 DEF EntryInv
<1>12. ClientInv'
  BY <1>9, <1>10, <1>11 DEF ClientInv
<1>13. /\ UNCHANGED <<seen, sreq, sres, served>>
       /\ copies' \in 0 .. MaxCopies /\ expired' \in BOOLEAN
  BY <1>1, <1>2 DEF server, CountersInv
<1> QED
  BY <1>4, <1>5, <1>7, <1>12, <1>13, ClientMoves

-----------------------------------------------------------------------------
(* Every behaviour.                                                        *)

LEMMA InitInv ==
  ASSUME Init
  PROVE  IInv
<1>1. NetInv
  BY DEF Init, NetInv
<1>2. CountersInv /\ Len(asked) = 0
  <2>1. asked \in Seq(Kind) /\ Len(asked) = 0
    BY DEF Init
  <2>2. mid \in 0 .. MaxMid /\ copies \in 0 .. MaxCopies
    BY BoundsAssumption DEF Init
  <2>3. Len(asked) <= MaxRequests
    BY <2>1, BoundsAssumption
  <2> QED
    BY <2>1, <2>2, <2>3 DEF Init, CountersInv
<1>3. SreqInv /\ SresInv /\ ServedInv
  BY DEF Init, SreqInv, SresInv, ServedInv
<1>4. ClientInv
  <2> DEFINE idle == Callback("idle", 0)
  <2>1. idle \in Callbacks(mid) /\ idle.state = "idle"
    BY DEF Callbacks, Callback
  <2>2. cb = [r \in Request |-> idle]
    BY DEF Init
  <2> HIDE DEF idle
  <2>3. \A r \in Request : r > Len(asked)
    BY <1>2 DEF Request
  <2>4. \A r \in Request : EntryInv(r)
    BY <2>1, <2>2, <2>3 DEF Init, EntryInv
  <2> QED
    BY <2>1, <2>2, <2>4 DEF Init, ClientInv
<1> QED
  BY <1>1, <1>2, <1>3, <1>4 DEF IInv

LEMMA NextInv ==
  ASSUME IInv, [Next]_vars
  PROVE  IInv'
<1>1. CASE Next
  BY <1>1, StartInv, ServerReceivesInv, ClientReceivesInv, ServerTimerInv,
    ClientTimerInv DEF Next, Timer
<1>2. CASE UNCHANGED vars
  <2>1. /\ UNCHANGED <<net, copies, expired, asked, mid, seen>>
        /\ UNCHANGED <<sreq, sres, served>> /\ UNCHANGED client
    BY <1>2 DEF vars, client, server
  <2>2. CountersInv /\ NetInv /\ ClientInv /\ Grows
    BY <2>1, StandsStill DEF IInv
  <2>3. NetInv' /\ ClientInv'
    BY <2>1, <2>2, MsgStays, ClientStays DEF NetInv
  <2>4. /\ mid' \in 0 .. MaxMid /\ Len(asked') <= MaxRequests
        /\ copies' \in 0 .. MaxCopies /\ expired' \in BOOLEAN
    BY <2>1, <2>2 DEF CountersInv
  <2> QED
    BY <2>1, <2>2, <2>3, <2>4, ClientMoves
<1> QED
  BY <1>1, <1>2

LEMMA Invariance == Spec => []IInv
<1>1. Init => IInv
  BY InitInv
<1>2. IInv /\ [Next]_vars => IInv'
  BY NextInv
<1> QED
  BY <1>1, <1>2, PTL DEF Spec

-----------------------------------------------------------------------------
(* The theorems.                                                           *)

\* Only a new request makes requests with its key overlap.
LEMMA SharedStays ==
  ASSUME \/ \E m \in net : ServerReceives(m) \/ ClientReceives(m)
         \/ Timer
         \/ UNCHANGED vars
  PROVE  shared' = shared
<1>1. ASSUME NEW m, ServerReceives(m)
      PROVE  shared' = shared
  BY <1>1 DEF ServerReceives, Regular, DropRepeated, Block1, Block2, client
<1>2. ASSUME NEW m, ClientReceives(m)
      PROVE  shared' = shared
  BY <1>2 DEF ClientReceives, ReceiveAck, ReceiveReset, ReceiveContinue,
    ReceiveAnswer
<1>3. ASSUME Timer
      PROVE  shared' = shared
  BY <1>3 DEF Timer, RequestBufferExpires, ResponseBufferExpires, GiveUp,
    ExchangeEnds, client
<1> QED
  BY <1>1, <1>2, <1>3 DEF vars, client

SharedInv == shared \subseteq Key

LEMMA SharedInvariance == Spec => []SharedInv
<1>1. Init => SharedInv
  BY DEF Init, SharedInv
<1>2. ASSUME SharedInv, [Next]_vars
      PROVE  SharedInv'
  <2>1. ASSUME NEW kind \in Kind, Start(kind)
        PROVE  SharedInv'
    <3>1. kind.key \in Key /\ shared' \subseteq shared \cup {kind.key}
      BY <2>1, KindAssumption DEF Start
    <3> QED
      BY <1>2, <3>1 DEF SharedInv
  <2> QED
    BY <1>2, <2>1, SharedStays DEF Next, SharedInv
<1> QED
  BY <1>1, <1>2, PTL DEF Spec

LEMMA InvGivesSound ==
  ASSUME IInv, SharedInv
  PROVE  BuffersAreSound
<1>1. /\ CountersInv /\ ClientInv /\ SreqInv /\ SresInv /\ ServedInv
  BY DEF IInv
<1>2. ASSUME NEW r \in Request
      PROVE  /\ cb[r] \in [state : {"live"}, mid : 1..mid, open : BOOLEAN]
                            \cup {Callback("idle", 0), Callback("freed", 0)}
             /\ (cb[r].state = "idle") <=> (r > Len(asked))
             /\ creq[r] \in {None} \cup 1..mid
             /\ cres[r] # None => /\ cres[r].mid \in 1..mid
                                  /\ cres[r].blocks \in Seq(Parts)
             /\ creq[r] # None \/ cres[r] # None => Live(r)
  <2>1. EntryInv(r) /\ cb[r] \in Callbacks(mid) /\ creq[r] \in {None} \cup 1..mid
    BY <1>1 DEF ClientInv
  <2>2. cres[r] # None => /\ cres[r].mid \in 1..mid
                          /\ cres[r].blocks \in Seq(Parts)
    BY <2>1 DEF EntryInv, AnswerBuffers, AnswerBlocks
  <2> QED
    BY <2>1, <2>2 DEF EntryInv, Callbacks
<1>3. ASSUME NEW k \in Key
      PROVE  /\ sreq[k] # None => sreq[k].blocks \in Seq(Blocks)
             /\ \A i \in DOMAIN sres[k] :
                  sres[k][i].run \in 1..Len(served[k])
                  /\ sres[k][i].next \in 1..sres[k][i].size
  <2>1. sreq[k] # None => sreq[k].blocks \in Seq(Blocks)
    BY <1>1 DEF SreqInv, RequestBuffers, UploadBlocks
  <2> DEFINE n == Len(served[k])
             R == ResponseBuffers(k, n)
  <2>2. sres[k] \in Seq(R)
    BY <1>1 DEF SresInv
  <2>3. ASSUME NEW i \in DOMAIN sres[k]
        PROVE  sres[k][i].run \in 1..n /\ sres[k][i].next \in 1..sres[k][i].size
    <3>1. sres[k][i] \in R
      <4> HIDE DEF R
      <4> QED
        BY <2>2
    <3> HIDE DEF n
    <3> QED
      BY <3>1 DEF ResponseBuffers
  <2> QED
    BY <2>1, <2>3
<1>4. TypeOK
  BY <1>1, <1>2, <1>3 DEF TypeOK, CountersInv, SharedInv
<1> QED
  BY <1>2, <1>4 DEF BuffersAreSound

LEMMA InvGivesAssembled ==
  ASSUME IInv
  PROVE  PayloadsAreAssembled
<1>1. CountersInv /\ ClientInv /\ ServedInv /\ asked \in Seq(Kind)
  BY DEF IInv, CountersInv
<1>2. DOMAIN asked = Asked
  BY <1>1, DomainIsAsked
<1>3. ASSUME NEW k \in Key, NEW n \in DOMAIN served[k]
      PROVE  LET p == served[k][n]
             IN /\ InPlace(p)
                /\ \A i \in DOMAIN p : KeyOf(p[i].req) = k
                /\ \A r \in DOMAIN asked :
                     KeyOf(r) = k /\ Alone(r) => p = Payload(r)
  <2>1. served[k][n] \in Payloads(k)
    <3> DEFINE S == Payloads(k)
    <3>1. served[k] \in Seq(S)
      BY <1>1 DEF ServedInv
    <3> HIDE DEF S
    <3>2. served[k][n] \in S
      BY <3>1
    <3> QED
      BY <3>2 DEF S
  <2> SUFFICES ASSUME NEW p \in Payloads(k)
               PROVE  /\ InPlace(p)
                      /\ \A i \in DOMAIN p : KeyOf(p[i].req) = k
                      /\ \A r \in DOMAIN asked :
                           KeyOf(r) = k /\ Alone(r) => p = Payload(r)
    BY <2>1
  <2>2. /\ p \in Seq(Blocks) /\ DOMAIN p = 1 .. Len(p) /\ Len(p) \in Nat
        /\ \A i \in 1 .. Len(p) :
             p[i].req \in Asked /\ KeyOf(p[i].req) = k /\ p[i].num = i - 1
        /\ \A r \in Asked : KeyOf(r) = k /\ Alone(r) => Len(p) = Up(r)
    BY DEF Payloads, UploadBlocks
  <2>3. ASSUME NEW r \in DOMAIN asked, KeyOf(r) = k, Alone(r)
        PROVE  p = Payload(r)
    <3>1. Len(p) = Up(r)
      BY <1>2, <2>2, <2>3
    <3>2. ASSUME NEW i \in 1 .. Len(p)
          PROVE  p[i] = Block(r, i - 1)
      <4>1. p[i].req = r
        BY <1>2, <2>2, <2>3 DEF Alone
      <4>2. p[i] \in Blocks /\ p[i].num = i - 1
        BY <2>2
      <4> QED
        BY <4>1, <4>2 DEF Block, Blocks
    <3>3. p = [i \in 1 .. Len(p) |-> p[i]]
      BY <2>2
    <3> QED
      BY <3>1, <3>2, <3>3 DEF Payload
  <2> QED
    BY <2>2, <2>3 DEF InPlace
<1>4. ASSUME NEW r \in DOMAIN asked, handed[r] # None
      PROVE  LET p == handed[r].payload
             IN /\ InPlace(p)
                /\ \A i \in DOMAIN p : p[i].key = KeyOf(r)
                /\ Alone(r) /\ p # <<>> => Len(p) = Down(r)
  <2>1. r \in Request
    BY <1>1, <1>2, RequestIs
  <2>2. handed[r] \in Results(r)
    BY <1>1, <1>4, <2>1 DEF ClientInv, EntryInv
  <2>3. /\ handed[r].payload \in AnswerBlocks(r)
        /\ Alone(r) /\ handed[r].payload # << >> =>
             Len(handed[r].payload) = Down(r)
    BY <2>2 DEF Results
  <2> SUFFICES ASSUME NEW p \in AnswerBlocks(r)
               PROVE  InPlace(p) /\ \A i \in DOMAIN p : p[i].key = KeyOf(r)
    BY <2>3
  <2>4. p \in Seq(Parts) /\ DOMAIN p = 1 .. Len(p)
    BY DEF AnswerBlocks
  <2> QED
    BY <2>4 DEF InPlace, AnswerBlocks
<1> QED
  BY <1>3, <1>4 DEF PayloadsAreAssembled

\* The buffers of oc_blockwise.c never outlive the client callback they point
\* to, and offsets and message IDs stay in range, for any number of requests,
\* blocks and copies of messages.
THEOREM BuffersStaySound == Spec => []BuffersAreSound
<1>1. IInv /\ SharedInv => BuffersAreSound
  BY InvGivesSound
<1> QED
  BY <1>1, Invariance, SharedInvariance, PTL

\* Whatever is lost, delayed, reordered or repeated, the payloads that
\* oc_blockwise_handle_block assembles reach the applications in order, with
\* blocks of their key only, and whole unless another request had this key.
THEOREM PayloadsStayAssembled == Spec => []PayloadsAreAssembled
<1>1. IInv => PayloadsAreAssembled
  BY InvGivesAssembled
<1> QED
  BY <1>1, Invariance, PTL

-----------------------------------------------------------------------------
(* Message IDs.  An ACK or a RST has only its message ID to tell what it   *)
(* is for; no two requests ever use the same one.                          *)

\* Messages with a token.
Bears(m) ==
  m.to = "server" \/ (m.to = "client" /\ m.kind \in {"continue", "ok", "error"})

LEMMA BearsRequest ==
  ASSUME IInv, NEW m \in net, Bears(m)
  PROVE  /\ m.req \in Asked /\ m.req \in Request /\ KeyOf(m.req) \in Key
         /\ m.num \in Nat /\ Up(m.req) \in Nat /\ Down(m.req) \in Nat
<1>1. m.req \in Asked /\ m.num \in Nat
  BY DEF Bears, IInv, NetInv, MsgOK
<1>2. m.req \in Request
  BY <1>1, BoundsAssumption DEF IInv, CountersInv, Asked, Request
<1> QED
  BY <1>1, <1>2, KindIs DEF IInv, CountersInv

\* The message IDs of the buffers and of messages under way.
LEMMA IdsAre ==
  ASSUME IInv
  PROVE  /\ mid \in Nat /\ None \notin Nat
         /\ \A o \in Request : /\ creq[o] \in {None} \cup 1 .. mid
                               /\ cres[o] # None => cres[o].mid \in 1 .. mid
<1>1. mid \in Nat /\ None \notin Nat
  BY BoundsAssumption, NoneAssumption DEF IInv, CountersInv
<1>2. ASSUME NEW o \in Request
      PROVE  /\ creq[o] \in {None} \cup 1 .. mid
             /\ cres[o] # None => cres[o].mid \in 1 .. mid
  BY DEF IInv, ClientInv, EntryInv, AnswerBuffers
<1> QED
  BY <1>1, <1>2

IdsDiffer ==
  \A r, o \in Request :
    /\ r # o /\ creq[r] # None => creq[r] # creq[o]
    /\ cres[r] # None => cres[r].mid # creq[o]

\* The message ID of a request under way is that of no other's buffers.
MidsOwned ==
  \A m \in net : \A o \in Request :
    m.to = "server" /\ o # m.req =>
      creq[o] # m.mid /\ (cres[o] # None => cres[o].mid # m.mid)

OwnedInv == IdsDiffer /\ MidsOwned

\* Buffers are dropped, and r's are given the new message ID.
LEMMA OwnedStays ==
  ASSUME IInv, OwnedInv, NEW r, NEW new, net' \subseteq net \cup new,
         \A x \in new : x.to = "server" => x.req = r /\ x.mid = mid + 1,
         \A o \in Request :
           /\ creq'[o] \in {creq[o], None} \/ (o = r /\ creq'[o] = mid + 1)
           /\ \/ cres'[o] \in {cres[o], None}
              \/ o = r /\ cres'[o].mid = mid + 1 /\ creq'[o] # mid + 1
  PROVE  OwnedInv'
<1>1. /\ mid \in Nat /\ None \notin Nat
      /\ \A o \in Request : /\ creq[o] \in {None} \cup 1 .. mid
                            /\ cres[o] # None => cres[o].mid \in 1 .. mid
  BY IdsAre
<1>2. IdsDiffer /\ MidsOwned
  BY DEF OwnedInv
<1>3. PICK id : id = mid + 1
  OBVIOUS
<1>4. id \in Nat /\ id # None /\ id \notin 1 .. mid /\ \A i \in 1 .. mid : i # None
  BY <1>1, <1>3
<1>5. \A o \in Request :
        /\ creq'[o] \in {creq[o], None} \/ (o = r /\ creq'[o] = id)
        /\ \/ cres'[o] \in {cres[o], None}
           \/ o = r /\ cres'[o].mid = id /\ creq'[o] # id
  BY <1>3
<1>6. ASSUME NEW a \in Request, NEW b \in Request, a # b, creq'[a] # None
      PROVE  creq'[a] # creq'[b]
  BY <1>1, <1>2, <1>4, <1>5, <1>6 DEF IdsDiffer
<1>7. ASSUME NEW a \in Request, NEW b \in Request, cres'[a] # None
      PROVE  cres'[a].mid # creq'[b]
  <2>1. \/ cres'[a] = cres[a] /\ cres[a].mid \in 1 .. mid /\ cres[a].mid # creq[b]
        \/ a = r /\ cres'[a].mid = id /\ creq'[r] # id
    BY <1>1, <1>2, <1>5, <1>7 DEF IdsDiffer
  <2>2. creq'[b] \in {creq[b], None} \/ (b = r /\ creq'[b] = id)
    BY <1>5
  <2> QED
    BY <1>1, <1>4, <2>1, <2>2
<1>8. ASSUME NEW x \in net', NEW o \in Request, x.to = "server", o # x.req
      PROVE  creq'[o] # x.mid /\ (cres'[o] # None => cres'[o].mid # x.mid)
  <2>1. CASE x \in net
    <3>1. /\ x.mid \in 1 .. mid /\ creq[o] # x.mid
          /\ cres[o] # None => cres[o].mid # x.mid
      BY <1>2, <1>8, <2>1 DEF IInv, NetInv, MsgOK, MidsOwned
    <3> QED
      BY <1>4, <1>5, <3>1
  <2>2. CASE x \in new
    <3>1. x.mid = id /\ o # r
      BY <1>3, <1>8, <2>2
    <3> QED
      BY <1>1, <1>4, <1>5, <3>1
  <2> QED
    BY <1>8, <2>1, <2>2
<1> QED
  BY <1>6, <1>7, <1>8 DEF OwnedInv, IdsDiffer, MidsOwned

\* What the server sends for m.
FromServer(m, x) ==
  /\ x.to = "client"
  /\ Bears(x) => x.req = m.req
  /\ ~Bears(x) => x.kind \in {"ack", "rst"} /\ x.mid = m.mid

LEMMA FromServerIs ==
  ASSUME NEW m
  PROVE  /\ FromServer(m, Empty("ack", m.mid))
         /\ FromServer(m, Empty("rst", m.mid))
         /\ \A num, id : FromServer(m, Continue(m.req, num, id))
         /\ \A kind \in {"ok", "error"} : \A b1, num, more, part, id :
              FromServer(m, Answer(kind, m.req, b1, num, more, part, id))
<1>1. FromServer(m, Empty("ack", m.mid)) /\ FromServer(m, Empty("rst", m.mid))
  BY DEF FromServer, Empty, Bears
<1>2. ASSUME NEW num, NEW id
      PROVE  FromServer(m, Continue(m.req, num, id))
  BY DEF FromServer, Continue, Bears
<1>3. ASSUME NEW kind \in {"ok", "error"}, NEW b1, NEW num, NEW more, NEW part,
             NEW id
      PROVE  FromServer(m, Answer(kind, m.req, b1, num, more, part, id))
  BY DEF FromServer, Answer, Bears
<1> QED
  BY <1>1, <1>2, <1>3

\* The server does something for the key of m and sends what is for m.
Serves(m) ==
  /\ UNCHANGED client
  /\ \A k \in Key : k # KeyOf(m.req) =>
       sreq'[k] = sreq[k] /\ sres'[k] = sres[k] /\ served'[k] = served[k]
  /\ \E new : net' \subseteq net \cup new /\ \A x \in new : FromServer(m, x)

LEMMA ExchangeSends ==
  ASSUME NEW m, NEW new, Exchange(m, new)
  PROVE  net' \subseteq net \cup new
  BY DEF Exchange

LEMMA InvokeServes ==
  ASSUME IInv, NEW m \in net, m.to = "server", NEW payload, NEW lists,
         DOMAIN lists = Key, NEW b1, Invoke(m, payload, lists, b1)
  PROVE  /\ \A k \in Key : k # KeyOf(m.req) =>
              sres'[k] = lists[k] /\ served'[k] = served[k]
         /\ \E new :
              net' \subseteq net \cup new /\ \A x \in new : FromServer(m, x)
<1> DEFINE r == m.req
           id == IF b1 \/ ~asked[r].con THEN 0 ELSE m.mid
           acks == IF b1 THEN {Empty("ack", m.mid)} ELSE {}
           more == Down(r) > 1
           part == IF Down(r) = 0 THEN None
                   ELSE Part(KeyOf(r), Len(served[KeyOf(r)]) + 1, 0)
           ok == Answer("ok", r, b1, 0, more, part, id)
           error == Answer("error", r, b1, 0, FALSE, None, id)
<1>1. KeyOf(r) \in Key /\ DOMAIN served = Key
  BY BearsRequest DEF Bears, IInv, ServedInv
<1>2. \A k \in Key : k # KeyOf(r) => sres'[k] = lists[k] /\ served'[k] = served[k]
  BY <1>1 DEF Invoke
<1>3. FromServer(m, ok) /\ FromServer(m, error)
  BY FromServerIs
<1>4. \A x \in acks : FromServer(m, x)
  BY FromServerIs
<1>5. Exchange(m, acks \cup {ok}) \/ Exchange(m, acks \cup {error})
  BY DEF Invoke
<1> HIDE DEF acks, ok, error
<1>6. PICK new : /\ new \in {acks \cup {ok}, acks \cup {error}}
                 /\ Exchange(m, new)
  BY <1>5
<1>7. net' \subseteq net \cup new /\ \A x \in new : FromServer(m, x)
  BY <1>3, <1>4, <1>6, ExchangeSends
<1> QED
  BY <1>2, <1>7

LEMMA ServerServes ==
  ASSUME IInv, NEW m \in net, ServerReceives(m)
  PROVE  Serves(m)
<1>0. m.to = "server"
  BY DEF ServerReceives
<1>1. PICK k : k = KeyOf(m.req)
  OBVIOUS
<1>2. /\ k \in Key
      /\ DOMAIN sreq = Key /\ DOMAIN sres = Key /\ DOMAIN served = Key
  BY <1>0, <1>1, BearsRequest DEF Bears, IInv, SreqInv, SresInv, ServedInv
<1>3. CASE Regular(m)
  <2>1. PICK payload, lists :
          /\ Invoke(m, payload, lists, FALSE)
          /\ lists = IF sres[k] = << >> THEN sres
                     ELSE [sres EXCEPT ![k] = Tail(@)]
    BY <1>1, <1>3 DEF Regular
  <2>2. DOMAIN lists = Key /\ \A j \in Key : j # k => lists[j] = sres[j]
    BY <1>2, <2>1
  <2>3. UNCHANGED client /\ \A j \in Key : j # k => sreq'[j] = sreq[j]
    BY <1>1, <1>2, <1>3 DEF Regular
  <2> QED
    BY <1>0, <1>1, <2>1, <2>2, <2>3, InvokeServes DEF Serves
<1>4. CASE DropRepeated(m)
  <2>1. PICK new : new = {}
    OBVIOUS
  <2>2. /\ net' \subseteq net \cup new /\ \A x \in new : FromServer(m, x)
        /\ UNCHANGED client /\ UNCHANGED <<sreq, sres, served>>
    BY <1>4, <2>1 DEF DropRepeated, server
  <2> QED
    BY <2>2 DEF Serves
<1>5. CASE Block1(m)
  <2>1. UNCHANGED client /\ \A j \in Key : j # k => sreq'[j] = sreq[j]
    BY <1>1, <1>2, <1>5 DEF Block1
  <2>2. \/ Exchange(m, {Empty("rst", m.mid)}) /\ UNCHANGED <<sres, served>>
        \/ Exchange(m, {Continue(m.req, m.num, m.mid)})
             /\ UNCHANGED <<sres, served>>
        \/ \E payload : Invoke(m, payload, sres, TRUE)
    BY <1>5 DEF Block1
  <2>3. CASE Exchange(m, {Empty("rst", m.mid)}) /\ UNCHANGED <<sres, served>>
    BY <2>1, <2>3, <1>1, ExchangeSends, FromServerIs DEF Serves
  <2>4. CASE Exchange(m, {Continue(m.req, m.num, m.mid)})
               /\ UNCHANGED <<sres, served>>
    BY <2>1, <2>4, <1>1, ExchangeSends, FromServerIs DEF Serves
  <2>5. CASE \E payload : Invoke(m, payload, sres, TRUE)
    <3>1. PICK payload : Invoke(m, payload, sres, TRUE)
      BY <2>5
    <3>2. /\ \A j \in Key : j # k => sres'[j] = sres[j] /\ served'[j] = served[j]
          /\ \E new :
               net' \subseteq net \cup new /\ \A x \in new : FromServer(m, x)
      BY <1>0, <1>1, <1>2, <3>1, InvokeServes
    <3> QED
      BY <1>1, <2>1, <3>2 DEF Serves
  <2> QED
    BY <2>2, <2>3, <2>4, <2>5
<1>6. CASE Block2(m)
  <2>1. UNCHANGED client /\ UNCHANGED <<sreq, served>>
    BY <1>6 DEF Block2
  <2>2. \A j \in Key : j # k => sres'[j] = sres[j]
    BY <1>1, <1>2, <1>6 DEF Block2, WithFirst
  <2>3. PICK new : Exchange(m, new) /\ \A x \in new : FromServer(m, x)
    <3> DEFINE b == FindResponse(k)
               more == m.num + 1 < b.size
               answer == Answer("ok", m.req, FALSE, m.num, more,
                                Part(k, b.run, m.num), IF more THEN m.mid ELSE 0)
    <3>1. \/ Exchange(m, {Empty("rst", m.mid)})
          \/ Exchange(m, {})
          \/ Exchange(m, IF more THEN {answer}
                         ELSE {answer, Empty("ack", m.mid)})
      BY <1>1, <1>6 DEF Block2
    <3>2. FromServer(m, answer)
      BY FromServerIs
    <3> HIDE DEF answer
    <3> QED
      BY <3>1, <3>2, FromServerIs
  <2> QED
    BY <1>1, <2>1, <2>2, <2>3, ExchangeSends DEF Serves
<1> QED
  BY <1>3, <1>4, <1>5, <1>6 DEF ServerReceives

\* The client does something for m's request and sends what is for it.
Handles(m) ==
  /\ UNCHANGED <<asked, sreq, sres, served>> /\ mid' \in {mid, mid + 1}
  /\ \A o \in Request : o # m.req =>
       /\ creq'[o] = creq[o] /\ cres'[o] = cres[o]
       /\ Live(o)' = Live(o) /\ handed'[o] = handed[o]
  /\ creq'[m.req] \in {creq[m.req], None, mid + 1}
  /\ \/ cres'[m.req] \in {cres[m.req], None}
     \/ cres'[m.req].mid = mid + 1 /\ creq'[m.req] # mid + 1
  /\ \E new : /\ net' \subseteq net \cup new
              /\ \A x \in new :
                   x.to = "server" /\ x.req = m.req /\ x.mid = mid + 1

\* The callback and the buffers of r go, and nothing of other requests.
LEMMA FreeIs ==
  ASSUME IInv, NEW r \in Request, Free(r)
  PROVE  /\ creq'[r] = None /\ cres'[r] = None
         /\ \A o \in Request : o # r =>
              /\ creq'[o] = creq[o] /\ cres'[o] = cres[o]
              /\ Live(o)' = Live(o)
<1>1. DOMAIN cb = Request /\ DOMAIN creq = Request /\ DOMAIN cres = Request
  BY DEF IInv, ClientInv
<1> QED
  BY <1>1 DEF Free, Live

LEMMA HandOverHandles ==
  ASSUME IInv, NEW m, m.req \in Request, NEW code, NEW payload,
         HandOver(m.req, code, payload), Exchange(m, {}),
         UNCHANGED <<asked, mid>>, UNCHANGED server
  PROVE  Handles(m)
<1>1. DOMAIN handed = Request
  BY DEF IInv, ClientInv
<1>2. \A o \in Request : o # m.req => handed'[o] = handed[o]
  BY <1>1 DEF HandOver
<1>3. /\ creq'[m.req] = None /\ cres'[m.req] = None
      /\ \A o \in Request : o # m.req =>
           /\ creq'[o] = creq[o] /\ cres'[o] = cres[o]
           /\ Live(o)' = Live(o)
  BY FreeIs DEF HandOver
<1>4. net' \subseteq net \cup {} /\ UNCHANGED <<sreq, sres, served>>
  BY ExchangeSends DEF server
<1> QED
  BY <1>2, <1>3, <1>4 DEF Handles

LEMMA ContinueHandles ==
  ASSUME IInv, NEW m \in net, m.to = "client", ReceiveContinue(m)
  PROVE  Handles(m)
<1> DEFINE r == m.req
<1>1. r \in Request
  BY BearsRequest DEF Bears, ReceiveContinue
<1>2. /\ DOMAIN creq = Request /\ UNCHANGED asked /\ UNCHANGED server
      /\ UNCHANGED <<sreq, sres, served>> /\ mid \in Nat
  BY IdsAre DEF IInv, ClientInv, ReceiveContinue, server
<1>3. CASE /\ mid' = mid + 1 /\ cb' = Closed(m.mid)
           /\ creq' = [creq EXCEPT ![r] = mid + 1]
           /\ Exchange(m, {ToServer(r, "block1", m.num + 1,
                                    m.num + 1 + 1 < Up(r), mid + 1)})
           /\ UNCHANGED <<cres, handed>>
  <2>1. PICK x : x = ToServer(r, "block1", m.num + 1,
                              m.num + 1 + 1 < Up(r), mid + 1)
    OBVIOUS
  <2>2. x.to = "server" /\ x.req = r /\ x.mid = mid + 1
    BY <2>1 DEF ToServer
  <2>3. net' \subseteq net \cup {x}
    BY <1>3, <2>1, ExchangeSends
  <2>4. \A o \in Request : Live(o)' = Live(o)
    BY <1>3, ClosedIs DEF Live, IInv
  <2>5. /\ creq'[r] = mid + 1
        /\ \A o \in Request : o # r => creq'[o] = creq[o]
    BY <1>1, <1>2, <1>3
  <2>7. \E new : /\ net' \subseteq net \cup new
                 /\ \A y \in new :
                      y.to = "server" /\ y.req = r /\ y.mid = mid + 1
    <3>1. PICK new : new = {x}
      OBVIOUS
    <3> QED
      BY <2>2, <2>3, <3>1
  <2> QED
    BY <1>2, <1>3, <2>7, <2>4, <2>5 DEF Handles
<1>4. CASE HandOver(r, "ok", << >>) /\ Exchange(m, {}) /\ mid' = mid
  BY <1>1, <1>2, <1>4, HandOverHandles
<1>5. CASE Exchange(m, {}) /\ UNCHANGED <<mid, cb, creq, cres, handed>>
  <2>1. net' \subseteq net \cup {}
    BY <1>5, ExchangeSends
  <2> QED
    BY <1>2, <1>5, <2>1 DEF Handles, Live
<1> QED
  BY <1>3, <1>4, <1>5 DEF ReceiveContinue

LEMMA AnswerHandles ==
  ASSUME IInv, NEW m \in net, m.to = "client", ReceiveAnswer(m)
  PROVE  Handles(m)
<1> DEFINE r == m.req
           p == Received(r, m)
<1>1. r \in Request
  BY BearsRequest DEF Bears, ReceiveAnswer
<1>2. /\ DOMAIN creq = Request /\ DOMAIN cres = Request /\ mid \in Nat
      /\ cb \in [Request -> Callbacks(mid)]
      /\ UNCHANGED asked /\ UNCHANGED server /\ UNCHANGED <<sreq, sres, served>>
  BY IdsAre DEF IInv, ClientInv, ReceiveAnswer, server
<1>3. CASE /\ mid' = mid + 1
           /\ cb' = [cb EXCEPT ![r].mid = mid + 1, ![r].open = TRUE]
           /\ creq' = IF m.b1 THEN [creq EXCEPT ![r] = None] ELSE creq
           /\ cres' = [cres EXCEPT ![r] = [mid |-> mid + 1, blocks |-> p]]
           /\ Exchange(m, {ToServer(r, "block2", m.num + 1, FALSE, mid + 1)})
           /\ UNCHANGED handed
  <2>1. PICK x : x = ToServer(r, "block2", m.num + 1, FALSE, mid + 1)
    OBVIOUS
  <2>2. x.to = "server" /\ x.req = r /\ x.mid = mid + 1
    BY <2>1 DEF ToServer
  <2>3. net' \subseteq net \cup {x}
    BY <1>3, <2>1, ExchangeSends
  <2>4. \A o \in Request : o # r =>
          /\ creq'[o] = creq[o] /\ cres'[o] = cres[o] /\ Live(o)' = Live(o)
    BY <1>1, <1>2, <1>3 DEF Live
  <2>5. creq'[r] \in {creq[r], None} /\ creq'[r] # mid + 1
    BY <1>1, <1>2, <1>3, IdsAre
  <2>6. cres'[r].mid = mid + 1
    BY <1>1, <1>2, <1>3
  <2>7. \E new : /\ net' \subseteq net \cup new
                 /\ \A y \in new :
                      y.to = "server" /\ y.req = r /\ y.mid = mid + 1
    <3>1. PICK new : new = {x}
      OBVIOUS
    <3> QED
      BY <2>2, <2>3, <3>1
  <2> QED
    BY <1>2, <1>3, <2>7, <2>4, <2>5, <2>6 DEF Handles
<1>4. CASE /\ HandOver(r, m.kind, IF m.kind = "error" \/ p = None THEN << >>
                                  ELSE p)
           /\ Exchange(m, {}) /\ mid' = mid
  BY <1>1, <1>2, <1>4, HandOverHandles
<1>5. CASE Exchange(m, {}) /\ UNCHANGED <<mid, cb, creq, cres, handed>>
  <2>1. net' \subseteq net \cup {}
    BY <1>5, ExchangeSends
  <2> QED
    BY <1>2, <1>5, <2>1 DEF Handles, Live
<1> QED
  BY <1>3, <1>4, <1>5 DEF ReceiveAnswer

\* An ACK or a RST has no effect but that buffers are dropped.
LEMMA OwnedEmpty ==
  ASSUME IInv, OwnedInv, NEW m, ReceiveAck(m) \/ ReceiveReset(m)
  PROVE  OwnedInv'
<1>1. Exchange(m, {})
  BY DEF ReceiveAck, ReceiveReset
<1>2. PICK new, r : new = {} /\ r = 0 /\ net' \subseteq net \cup new
  BY <1>1, ExchangeSends
<1>3. /\ DOMAIN creq = Request /\ DOMAIN cres = Request
  BY DEF IInv, ClientInv
<1>4. \A o \in Request :
        creq'[o] \in {creq[o], None} /\ cres'[o] \in {cres[o], None}
  BY <1>3 DEF ReceiveAck, ReceiveReset, HandOver, Free
<1> QED
  BY <1>2, <1>4, OwnedStays

LEMMA OwnedNext ==
  ASSUME IInv, OwnedInv, [Next]_vars
  PROVE  OwnedInv'
<1>1. ASSUME NEW kind \in Kind, Start(kind)
      PROVE  OwnedInv'
  <2>1. PICK r, x : /\ r = Len(asked) + 1
                    /\ x = IF kind.up > 1
                           THEN ToServer(r, "block1", 0, TRUE, mid + 1)
                           ELSE ToServer(r, "plain", 0, FALSE, mid + 1)
    OBVIOUS
  <2>2. /\ net' = net \cup {x} /\ cres' = cres
        /\ creq' = IF kind.up > 1 THEN [creq EXCEPT ![r] = mid + 1] ELSE creq
    BY <1>1, <2>1 DEF Start
  <2>3. x.to = "server" /\ x.req = r /\ x.mid = mid + 1
    BY <2>1 DEF ToServer
  <2>4. \A o \in Request :
          creq'[o] = creq[o] \/ (o = r /\ creq'[o] = mid + 1)
    BY <2>2 DEF IInv, ClientInv
  <2>5. PICK new : new = {x}
    OBVIOUS
  <2> QED
    BY <2>2, <2>3, <2>4, <2>5, OwnedStays
<1>2. ASSUME NEW m \in net, ServerReceives(m)
      PROVE  OwnedInv'
  <2>1. Serves(m)
    BY <1>2, ServerServes
  <2>2. PICK new : net' \subseteq net \cup new /\ \A x \in new : FromServer(m, x)
    BY <2>1 DEF Serves
  <2>3. /\ creq' = creq /\ cres' = cres
        /\ \A x \in new : x.to # "server"
    BY <2>1, <2>2 DEF Serves, client, FromServer
  <2> QED
    BY <2>2, <2>3, OwnedStays
<1>3. ASSUME NEW m \in net, ClientReceives(m)
      PROVE  OwnedInv'
  <2>1. CASE ReceiveAck(m) \/ ReceiveReset(m)
    BY <2>1, OwnedEmpty
  <2>2. CASE ReceiveContinue(m) \/ ReceiveAnswer(m)
    <3>1. Handles(m)
      BY <1>3, <2>2, ContinueHandles, AnswerHandles DEF ClientReceives
    <3>2. PICK new : /\ net' \subseteq net \cup new
                     /\ \A x \in new : x.req = m.req /\ x.mid = mid + 1
      BY <3>1 DEF Handles
    <3>3. \A o \in Request :
            /\ creq'[o] \in {creq[o], None} \/ (o = m.req /\ creq'[o] = mid + 1)
            /\ \/ cres'[o] \in {cres[o], None}
               \/ o = m.req /\ cres'[o].mid = mid + 1 /\ creq'[o] # mid + 1
      BY <3>1 DEF Handles
    <3> QED
      BY <3>2, <3>3, OwnedStays
  <2> QED
    BY <1>3, <2>1, <2>2 DEF ClientReceives
<1>4. ASSUME Timer \/ UNCHANGED vars
      PROVE  OwnedInv'
  <2>1. PICK new, r : new = {} /\ r = 0 /\ net' \subseteq net \cup new
    BY <1>4 DEF Timer, RequestBufferExpires, ResponseBufferExpires, GiveUp,
      ExchangeEnds, vars
  <2>2. DOMAIN creq = Request /\ DOMAIN cres = Request
    BY DEF IInv, ClientInv
  <2>3. \A o \in Request :
          creq'[o] \in {creq[o], None} /\ cres'[o] \in {cres[o], None}
    BY <1>4, <2>2 DEF Timer, RequestBufferExpires, ResponseBufferExpires,
      GiveUp, ExchangeEnds, HandOver, Free, vars, client
  <2> QED
    BY <2>1, <2>3, OwnedStays
<1> QED
  BY <1>1, <1>2, <1>3, <1>4 DEF Next

LEMMA OwnedInvariance == Spec => []OwnedInv
<1>1. Init => OwnedInv
  BY DEF Init, OwnedInv, IdsDiffer, MidsOwned
<1>2. IInv /\ OwnedInv /\ [Next]_vars => OwnedInv'
  BY OwnedNext
<1> QED
  BY <1>1, <1>2, Invariance, PTL DEF Spec

-----------------------------------------------------------------------------
(* Undisturbed exchanges.  As long as no message is received twice and no  *)
(* timer expires, a request that overlaps with none of its key has at most *)
(* one message under way, and that message tells where the buffers on both *)
(* sides are.                                                              *)

Undisturbed == copies = 0 /\ ~expired

\* Messages that belong to an upload.
Uploads(m) ==
  \/ m.to = "server" /\ m.opt = "block1"
  \/ m.to = "client" /\ m.kind = "continue"

FirstBlocks(r, n) == [i \in 1 .. n |-> Block(r, i - 1)]
FirstParts(k, run, n) == [i \in 1 .. n |-> Part(k, run, i - 1)]

\* The server keeps nothing for k.
Idle(k) == sreq[k] = None /\ sres[k] = << >>

\* The server has the first n blocks of r's payload.
HasBlocks(r, n) ==
  /\ IF n = 0 THEN sreq[KeyOf(r)] = None
     ELSE sreq[KeyOf(r)] = [blocks |-> FirstBlocks(r, n), size |-> 0]
  /\ sres[KeyOf(r)] = << >>
  /\ cres[r] = None

\* The handler was called for r; the client has n blocks of the answer, and
\* the server's buffer is at block next, or gone when there is none.
HasParts(r, run, n, next) ==
  /\ served[KeyOf(r)][run] = Payload(r)
  /\ sreq[KeyOf(r)] = None
  /\ sres[KeyOf(r)] = IF next < Down(r)
                      THEN <<[run |-> run, size |-> Down(r), next |-> next]>>
                      ELSE << >>
  /\ IF n = 0 THEN cres[r] = None
     ELSE cres[r] # None /\ cres[r].blocks = FirstParts(KeyOf(r), run, n)

Runs(r) == 1 .. Len(served[KeyOf(r)])

\* Where the buffers are while m is under way.
PlainPlace(m) == HasBlocks(m.req, 0)
Block1Place(m) == HasBlocks(m.req, m.num) /\ creq[m.req] = m.mid
ContinuePlace(m) ==
  /\ HasBlocks(m.req, m.num + 1) /\ creq[m.req] # None
  /\ m.num + 1 < Up(m.req)
Block2Place(m) ==
  /\ \E run \in Runs(m.req) : HasParts(m.req, run, m.num, m.num)
  /\ cres[m.req].mid = m.mid
  /\ m.num \in 1 .. Down(m.req) - 1
AnswerPlace(m) ==
  /\ m.more <=> m.num + 1 < Down(m.req)
  /\ \E run \in Runs(m.req) :
       /\ HasParts(m.req, run, m.num, m.num + 1)
       /\ IF Down(m.req) = 0 THEN m.num = 0 /\ m.part = None
          ELSE m.num < Down(m.req) /\ m.part = Part(KeyOf(m.req), run, m.num)

Placed(m) ==
  /\ Live(m.req)
  /\ m.to = "server" => /\ m.opt = "plain" => PlainPlace(m)
                        /\ m.opt = "block1" => Block1Place(m)
                        /\ m.opt = "block2" => Block2Place(m)
  /\ m.to = "client" => /\ m.kind = "continue" => ContinuePlace(m)
                        /\ m.kind = "ok" => AnswerPlace(m)
                        /\ m.kind = "error" => Idle(KeyOf(m.req))

\* No two requests with r's key have been under way at a time.
Lone(r) == KeyOf(r) \notin shared

OneMessage ==
  \A m, n \in net :
    Bears(m) /\ Bears(n) /\ m.req = n.req /\ Lone(m.req) => m = n
AllPlaced == \A m \in net : Bears(m) /\ Lone(m.req) => Placed(m)

\* An ACK or RST, which bears no token, is not for the request buffer of an
\* upload that is going on, and a RST for no response buffer.
AckOK(m) ==
  /\ m.kind \in {"ack", "rst"} /\ m.mid \in 1 .. mid
  /\ \A b \in net : Uploads(b) /\ Lone(b.req) => creq[b.req] # m.mid
  /\ m.kind = "rst" =>
       \A r \in Asked : Lone(r) /\ cres[r] # None => cres[r].mid # m.mid
AcksOK == \A m \in net : ~Bears(m) => AckOK(m)

KeysApart ==
  \A r, o \in Asked :
    Lone(r) /\ Live(r) /\ Live(o) /\ KeyOf(r) = KeyOf(o) => r = o
UnusedIsIdle ==
  \A k \in Key \ shared : Idle(k) \/ \E r \in Asked : Live(r) /\ KeyOf(r) = k

\* What UndisturbedIsExact says of r.
Exact(r) ==
  handed[r] # None /\ handed[r].code = "ok" =>
    \E n \in DOMAIN served[KeyOf(r)] :
      /\ served[KeyOf(r)][n] = Payload(r)
      /\ Len(handed[r].payload) = Down(r)
      /\ \A i \in 1 .. Down(r) :
           handed[r].payload[i] = Part(KeyOf(r), n, i - 1)
AllExact == \A r \in Asked : Lone(r) => Exact(r)

CalmInv ==
  /\ OneMessage /\ AllPlaced /\ AcksOK
  /\ KeysApart /\ UnusedIsIdle
  /\ AllExact

UndisturbedInv == Undisturbed => CalmInv

\* What is under way for r is as it was if nothing is done for it or its key.
LEMMA PlacedStays ==
  ASSUME NEW m, Placed(m), asked'[m.req] = asked[m.req],
         Live(m.req)' = Live(m.req),
         sreq'[KeyOf(m.req)] = sreq[KeyOf(m.req)],
         sres'[KeyOf(m.req)] = sres[KeyOf(m.req)],
         served'[KeyOf(m.req)] = served[KeyOf(m.req)],
         cres'[m.req] = cres[m.req], Uploads(m) => creq'[m.req] = creq[m.req]
  PROVE  Placed(m)'
<1> DEFINE r == m.req
<1>1. /\ KeyOf(r)' = KeyOf(r) /\ Up(r)' = Up(r) /\ Down(r)' = Down(r)
      /\ Payload(r)' = Payload(r)
  BY DEF KeyOf, Up, Down, Payload
<1>2. \A n : HasBlocks(r, n)' <=> HasBlocks(r, n)
  BY <1>1 DEF HasBlocks
<1>3. /\ Runs(r)' = Runs(r)
      /\ \A run, n, next : HasParts(r, run, n, next)' <=> HasParts(r, run, n, next)
  BY <1>1 DEF HasParts, Runs
<1>4. CASE m.to = "server"
  BY <1>1, <1>2, <1>3, <1>4
  DEF Placed, PlainPlace, Block1Place, Block2Place, Uploads
<1>5. CASE m.to = "client"
  BY <1>1, <1>2, <1>3, <1>5
  DEF Placed, ContinuePlace, AnswerPlace, Idle, Uploads
<1> QED
  BY <1>4, <1>5 DEF Placed

\* What was handed over stays exact.
LEMMA ExactStays ==
  ASSUME NEW r, Exact(r), asked'[r] = asked[r], handed'[r] = handed[r],
         \A n \in DOMAIN served[KeyOf(r)] :
           /\ n \in DOMAIN served'[KeyOf(r)]
           /\ served'[KeyOf(r)][n] = served[KeyOf(r)][n]
  PROVE  Exact(r)'
<1>1. /\ KeyOf(r)' = KeyOf(r) /\ Down(r)' = Down(r)
      /\ Payload(r)' = Payload(r)
  BY DEF KeyOf, Up, Down, Payload
<1> QED
  BY <1>1 DEF Exact

\* A message m of a request is received and at most one new one sent: it is
\* enough to look at the request, its key and the new messages.
LEMMA Turn ==
  ASSUME IInv, CalmInv, NEW m \in net, Bears(m), Lone(m.req), NEW new,
         shared' = shared,
         net' = (net \ {m}) \cup new,
         asked' = asked, mid' \in Nat, mid <= mid',
         \A k \in Key : k # KeyOf(m.req) =>
           sreq'[k] = sreq[k] /\ sres'[k] = sres[k] /\ served'[k] = served[k],
         \A k \in Key : \A n \in DOMAIN served[k] :
           n \in DOMAIN served'[k] /\ served'[k][n] = served[k][n],
         \A o \in Request : o # m.req =>
           /\ creq'[o] = creq[o] /\ cres'[o] = cres[o]
           /\ Live(o)' = Live(o) /\ handed'[o] = handed[o],
         \A x \in new : Bears(x) => x.req = m.req /\ Placed(x)',
         \A x, y \in new : Bears(x) /\ Bears(y) => x = y,
         \A x \in new : ~Bears(x) =>
           /\ x.kind = "ack" /\ x.mid \in 1 .. mid'
           /\ \A o \in Request : o # m.req => creq[o] # x.mid
           /\ \A y \in new : ~Uploads(y),
         \A x \in new : Uploads(x) =>
           \A a \in net : ~Bears(a) => creq'[m.req] # a.mid,
         Live(m.req)' \/ Idle(KeyOf(m.req))',
         \/ cres'[m.req] \in {cres[m.req], None}
         \/ cres'[m.req].mid = mid + 1,
         Exact(m.req)'
  PROVE  CalmInv'
<1> DEFINE r == m.req
<1>1. /\ r \in Asked /\ r \in Request /\ KeyOf(r) \in Key /\ Live(r)
      /\ Asked' = Asked /\ Asked \subseteq Request /\ mid \in Nat
      /\ \A o \in Asked : KeyOf(o)' = KeyOf(o) /\ KeyOf(o) \in Key
      /\ \A o : Lone(o)' <=> Lone(o)
  BY BearsRequest, KindIs, BoundsAssumption
  DEF CalmInv, AllPlaced, Placed, Asked, KeyOf, Lone, IInv, CountersInv, Request
<1>2. \A x \in net \ {m} : Bears(x) /\ Lone(x.req) =>
        /\ x.req # r /\ x.req \in Asked /\ KeyOf(x.req) # KeyOf(r)
  <2> SUFFICES ASSUME NEW x \in net \ {m}, Bears(x), Lone(x.req)
               PROVE  /\ x.req # r /\ x.req \in Asked
                      /\ KeyOf(x.req) # KeyOf(r)
    OBVIOUS
  <2>1. x.req # r
    BY DEF CalmInv, OneMessage
  <2>2. x.req \in Asked /\ Live(x.req)
    BY BearsRequest DEF CalmInv, AllPlaced, Placed
  <2> QED
    BY <1>1, <2>1, <2>2 DEF CalmInv, KeysApart
<1>3. \A x : Uploads(x) => Bears(x)
  BY DEF Uploads, Bears
<1>4. OneMessage'
  BY <1>1, <1>2 DEF CalmInv, OneMessage
<1>5. AllPlaced'
  <2>1. ASSUME NEW x \in net \ {m}, Bears(x), Lone(x.req)
        PROVE  Placed(x)'
    <3>1. /\ x.req \in Request /\ x.req # r /\ KeyOf(x.req) \in Key
          /\ KeyOf(x.req) # KeyOf(r) /\ Placed(x)
      BY <1>1, <1>2, <2>1 DEF CalmInv, AllPlaced
    <3> QED
      BY <3>1, PlacedStays
  <2> QED
    BY <1>1, <2>1 DEF AllPlaced
<1>6. AcksOK'
  <2>1. ASSUME NEW x \in net \ {m}, ~Bears(x)
        PROVE  AckOK(x)'
    <3>1. AckOK(x)
      BY <2>1 DEF CalmInv, AcksOK
    <3>2. ASSUME NEW b \in net', Uploads(b), Lone(b.req)
          PROVE  creq'[b.req] # x.mid
      <4>1. CASE b \in new
        BY <1>3, <2>1, <3>2, <4>1
      <4>2. CASE b \in net \ {m}
        BY <1>1, <1>2, <1>3, <3>1, <3>2, <4>2 DEF AckOK
      <4> QED
        BY <4>1, <4>2
    <3>3. x.mid \in 1 .. mid' /\ x.mid \in 1 .. mid
      BY <1>1, <3>1 DEF AckOK
    <3>4. ASSUME x.kind = "rst", NEW o \in Asked, Lone(o), cres'[o] # None
          PROVE  cres'[o].mid # x.mid
      <4>1. cres[o] # None => cres[o].mid # x.mid
        BY <3>1, <3>4 DEF AckOK
      <4>2. x.mid # mid + 1
        BY <1>1, <3>3
      <4> QED
        BY <1>1, <3>4, <4>1, <4>2
    <3> QED
      BY <1>1, <3>1, <3>2, <3>3, <3>4 DEF AckOK
  <2>2. ASSUME NEW x \in new, ~Bears(x)
        PROVE  AckOK(x)'
    <3>1. ASSUME NEW b \in net', Uploads(b), Lone(b.req)
          PROVE  creq'[b.req] # x.mid
      <4>1. b \in net \ {m}
        BY <2>2, <3>1
      <4> QED
        BY <1>1, <1>2, <1>3, <2>2, <3>1, <4>1
    <3> QED
      BY <1>1, <2>2, <3>1 DEF AckOK
  <2> QED
    BY <2>1, <2>2 DEF AcksOK
<1>7. KeysApart'
  <2>1. \A o \in Asked : Live(o)' => Live(o)
    BY <1>1
  <2> QED
    BY <1>1, <2>1 DEF CalmInv, KeysApart
<1>8. UnusedIsIdle'
  <2> SUFFICES ASSUME NEW k \in Key \ shared
               PROVE  Idle(k)' \/ \E o \in Asked' : Live(o)' /\ KeyOf(o)' = k
    BY DEF UnusedIsIdle
  <2>1. CASE k = KeyOf(r)
    BY <1>1, <2>1
  <2>2. CASE k # KeyOf(r)
    BY <1>1, <2>2 DEF CalmInv, UnusedIsIdle, Idle
  <2> QED
    BY <2>1, <2>2
<1>9. AllExact'
  <2> SUFFICES ASSUME NEW o \in Asked, o # r, Lone(o)
               PROVE  Exact(o)'
    BY <1>1 DEF AllExact
  <2> QED
    BY <1>1, ExactStays DEF CalmInv, AllExact
<1> QED
  BY <1>4, <1>5, <1>6, <1>7, <1>8, <1>9 DEF CalmInv

\* The same for the most frequent case, one new message c.
LEMMA TurnOne ==
  ASSUME IInv, CalmInv, NEW m \in net, Bears(m), Lone(m.req), NEW c,
         shared' = shared,
         net' = (net \ {m}) \cup {c}, Bears(c), c.req = m.req, Placed(c)',
         Uploads(c) => \A a \in net : ~Bears(a) => creq'[m.req] # a.mid,
         asked' = asked, mid' \in Nat, mid <= mid',
         \A k \in Key : k # KeyOf(m.req) =>
           sreq'[k] = sreq[k] /\ sres'[k] = sres[k] /\ served'[k] = served[k],
         \A k \in Key : \A n \in DOMAIN served[k] :
           n \in DOMAIN served'[k] /\ served'[k][n] = served[k][n],
         \A o \in Request : o # m.req =>
           /\ creq'[o] = creq[o] /\ cres'[o] = cres[o]
           /\ Live(o)' = Live(o) /\ handed'[o] = handed[o],
         \/ cres'[m.req] \in {cres[m.req], None}
         \/ cres'[m.req].mid = mid + 1,
         Exact(m.req)'
  PROVE  CalmInv'
<1>1. PICK new : new = {c}
  OBVIOUS
<1>2. /\ net' = (net \ {m}) \cup new
      /\ \A x \in new : Bears(x) => x.req = m.req /\ Placed(x)'
      /\ \A x, y \in new : Bears(x) /\ Bears(y) => x = y
      /\ \A x \in new : ~Bears(x) =>
           /\ x.kind = "ack" /\ x.mid \in 1 .. mid'
           /\ \A o \in Request : o # m.req => creq[o] # x.mid
           /\ \A y \in new : ~Uploads(y)
      /\ \A x \in new : Uploads(x) =>
           \A a \in net : ~Bears(a) => creq'[m.req] # a.mid
  BY <1>1
<1>3. Live(m.req)'
  BY DEF Placed
<1> QED
  BY <1>2, <1>3, Turn

LEMMA CalmExchange ==
  ASSUME copies = 0, copies' = 0, NEW m, NEW new, Exchange(m, new)
  PROVE  net' = (net \ {m}) \cup new
  BY DEF Exchange

\* When the client does nothing, what it keeps is as before.
LEMMA ClientIsSame ==
  ASSUME IInv, UNCHANGED client, NEW r \in Request
  PROVE  /\ asked' = asked /\ mid' = mid /\ mid \in Nat
         /\ shared' = shared /\ Live(r)' = Live(r)
         /\ creq' = creq /\ cres' = cres /\ handed' = handed
<1>1. mid \in Nat
  BY BoundsAssumption DEF IInv, CountersInv
<1> QED
  BY <1>1 DEF client, Live

\* The handler is called once the payload of m's request is complete.
LEMMA CalmInvoke ==
  ASSUME IInv, OwnedInv, CalmInv, copies = 0, copies' = 0, NEW m \in net,
         Lone(m.req), m.to = "server", NEW b1 \in BOOLEAN, b1 => creq[m.req] = m.mid,
         m.mid \in 1 .. mid,
         sres[KeyOf(m.req)] = << >>, cres[m.req] = None,
         Invoke(m, Payload(m.req), sres, b1), UNCHANGED client,
         sreq'[KeyOf(m.req)] = None,
         \A j \in Key : j # KeyOf(m.req) => sreq'[j] = sreq[j]
  PROVE  CalmInv'
<1> DEFINE r == m.req
           id == IF b1 \/ ~asked[r].con THEN 0 ELSE m.mid
           acks == IF b1 THEN {Empty("ack", m.mid)} ELSE {}
<1>0. PICK k, down, payload, run, ok, error :
        /\ k = KeyOf(r) /\ down = Down(r) /\ payload = Payload(r)
        /\ run = Len(served[k]) + 1
        /\ ok = Answer("ok", r, b1, 0, down > 1,
                       IF down = 0 THEN None ELSE Part(k, run, 0), id)
        /\ error = Answer("error", r, b1, 0, FALSE, None, id)
  OBVIOUS
<1>1. /\ r \in Asked /\ r \in Request /\ k \in Key /\ down \in Nat
      /\ Bears(m) /\ Live(r)
  BY <1>0, BearsRequest DEF Bears, CalmInv, AllPlaced, Placed
<1>2. /\ asked' = asked /\ mid' = mid /\ mid \in Nat /\ shared' = shared
      /\ creq' = creq /\ cres' = cres /\ handed' = handed
      /\ \A o \in Request : Live(o)' = Live(o)
  BY <1>1, ClientIsSame
<1>3. /\ DOMAIN served = Key /\ DOMAIN sres = Key /\ DOMAIN sreq = Key
      /\ \A j \in Key : served[j] \in Seq(Payloads(j))
  BY DEF IInv, ServedInv, SresInv, SreqInv
<1> DEFINE buffer == [run |-> run, size |-> down, next |-> 1]
<1>4. /\ served' = [served EXCEPT ![k] = Append(@, payload)]
      /\ \/ /\ Exchange(m, acks \cup {ok})
            /\ sres' = IF down > 1 THEN [sres EXCEPT ![k] = Append(@, buffer)]
                       ELSE sres
         \/ /\ Exchange(m, acks \cup {error})
            /\ sres' = sres
  BY <1>0 DEF Invoke
<1>5. /\ run \in Nat \ {0} /\ Len(served'[k]) = run
      /\ served'[k] = Append(served[k], payload) /\ served'[k][run] = payload
      /\ \A j \in Key : j # k => served'[j] = served[j]
  BY <1>0, <1>1, <1>3, <1>4
<1>6. \A j \in Key : \A n \in DOMAIN served[j] :
        n \in DOMAIN served'[j] /\ served'[j][n] = served[j][n]
  <2>1. \A n \in DOMAIN served[k] :
          n \in DOMAIN served'[k] /\ served'[k][n] = served[k][n]
    BY <1>1, <1>3, <1>5
  <2> QED
    BY <1>5, <2>1
<1>7. /\ sreq'[k] = None
      /\ \A j \in Key : j # k => sreq'[j] = sreq[j] /\ sres'[j] = sres[j]
  BY <1>0, <1>1, <1>3, <1>4
<1>8. /\ KeyOf(r)' = k /\ Down(r)' = down /\ Payload(r)' = payload
      /\ Live(r)'
  BY <1>0, <1>1, <1>2 DEF KeyOf, Up, Down, Payload
<1>9. Exact(r)'
  <2>1. Exact(r) /\ asked'[r] = asked[r] /\ handed'[r] = handed[r]
    BY <1>1, <1>2 DEF CalmInv, AllExact
  <2> QED
    BY <1>0, <1>1, <1>6, <2>1, ExactStays
<1>10. \A x \in acks : /\ ~Bears(x) /\ ~Uploads(x) /\ x.kind = "ack"
                       /\ x.mid \in 1 .. mid'
                       /\ \A o \in Request : o # r => creq[o] # x.mid
  <2>1. b1 => \A o \in Request : o # r => creq[o] # m.mid
    <3>1. b1 => creq[r] # None
      BY <1>2, NoneAssumption
    <3> QED
      BY <1>1, <3>1 DEF OwnedInv, IdsDiffer
  <2> QED
    BY <1>2, <2>1 DEF Empty, Bears, Uploads
<1>11. ASSUME NEW new, NEW answer, new = acks \cup {answer},
              Exchange(m, new), answer.req = r,
              Bears(answer), ~Uploads(answer), Placed(answer)'
       PROVE  CalmInv'
  <2>1. /\ \A x \in new : Bears(x) => x = answer
        /\ \A x \in new : ~Uploads(x)
        /\ \A x \in new : ~Bears(x) => x \in acks
    BY <1>10, <1>11
  <2>2. net' = (net \ {m}) \cup new
    BY <1>11, CalmExchange
  <2>3. /\ \A x \in new : Bears(x) => x.req = r /\ Placed(x)'
        /\ \A x, y \in new : Bears(x) /\ Bears(y) => x = y
        /\ \A x \in new : ~Bears(x) =>
             /\ x.kind = "ack" /\ x.mid \in 1 .. mid'
             /\ \A o \in Request : o # r => creq[o] # x.mid
             /\ \A y \in new : ~Uploads(y)
        /\ \A x \in new : Uploads(x) =>
             \A a \in net : ~Bears(a) => creq'[r] # a.mid
    <3> HIDE DEF acks
    <3> QED BY <1>10, <1>11, <2>1
  <2>4. /\ \A j \in Key : j # KeyOf(r) =>
             sreq'[j] = sreq[j] /\ sres'[j] = sres[j] /\ served'[j] = served[j]
        /\ \A o \in Request : o # r =>
             /\ creq'[o] = creq[o] /\ cres'[o] = cres[o]
             /\ Live(o)' = Live(o) /\ handed'[o] = handed[o]
        /\ Live(r)' /\ asked' = asked /\ mid' \in Nat /\ mid <= mid'
    BY <1>0, <1>2, <1>5, <1>7, <1>8
  <2> QED
    BY <1>1, <1>2, <1>6, <1>9, <2>2, <2>3, <2>4, Turn
<1>12. ASSUME Exchange(m, acks \cup {ok}),
              sres' = IF down > 1 THEN [sres EXCEPT ![k] = Append(@, buffer)]
                      ELSE sres
       PROVE  CalmInv'
  <2>1. /\ ok.to = "client" /\ ok.kind = "ok" /\ ok.req = r /\ ok.num = 0
        /\ ok.more <=> 1 < down
        /\ ok.part = IF down = 0 THEN None ELSE Part(k, run, 0)
    BY <1>0 DEF Answer
  <2>2. sres'[k] = IF 1 < down THEN <<buffer>> ELSE << >>
    BY <1>0, <1>1, <1>3, <1>12
  <2>3. HasParts(r, run, 0, 1)'
    BY <1>2, <1>5, <1>7, <1>8, <2>2 DEF HasParts
  <2>4. AnswerPlace(ok)'
    <3>1. run \in Runs(r)'
      BY <1>5, <1>8 DEF Runs
    <3>2. IF Down(r)' = 0 THEN ok.num = 0 /\ ok.part = None
          ELSE ok.num < Down(r)' /\ ok.part = Part(KeyOf(r)', run, ok.num)
      BY <1>1, <1>8, <2>1
    <3>3. ok.more <=> ok.num + 1 < Down(r)'
      BY <1>1, <1>8, <2>1
    <3>4. HasParts(ok.req, run, ok.num, ok.num + 1)'
      BY <2>1, <2>3
    <3> QED
      BY <2>1, <3>1, <3>2, <3>3, <3>4 DEF AnswerPlace
  <2>5. Placed(ok)' /\ Bears(ok) /\ ~Uploads(ok)
    BY <1>8, <2>1, <2>4 DEF Placed, Bears, Uploads
  <2> HIDE DEF acks
  <2> QED
    BY <1>11, <1>12, <2>1, <2>5
<1>13. ASSUME Exchange(m, acks \cup {error}), sres' = sres
       PROVE  CalmInv'
  <2>1. error.to = "client" /\ error.kind = "error" /\ error.req = r
    BY <1>0 DEF Answer
  <2>2. Idle(k)'
    BY <1>0, <1>7, <1>13 DEF Idle
  <2>3. Placed(error)' /\ Bears(error) /\ ~Uploads(error)
    BY <1>8, <2>1, <2>2 DEF Placed, Bears, Uploads
  <2> HIDE DEF acks
  <2> QED
    BY <1>11, <1>13, <2>1, <2>3
<1> QED
  BY <1>4, <1>12, <1>13

\* A message that is lost, or received without any effect.
LEMMA CalmLess ==
  ASSUME IInv, CalmInv, net' \subseteq net, UNCHANGED client,
         UNCHANGED <<sreq, sres, served>>
  PROVE  CalmInv'
<1>1. UNCHANGED <<asked, shared, mid, cb, creq, cres, handed>>
  BY DEF client
<1>2. /\ \A r : KeyOf(r)' = KeyOf(r) /\ Live(r)' = Live(r)
      /\ \A r : Lone(r)' <=> Lone(r)
      /\ \A k : Idle(k)' = Idle(k)
      /\ Asked' = Asked
  BY <1>1 DEF KeyOf, Live, Lone, Idle, Asked
<1>3. AllPlaced'
  <2>1. ASSUME NEW x \in net, Bears(x), Lone(x.req)
        PROVE  Placed(x)'
    BY <1>1, <1>2, <2>1, PlacedStays DEF CalmInv, AllPlaced
  <2> QED
    BY <1>2, <2>1 DEF AllPlaced
<1>4. AcksOK'
  BY <1>1, <1>2 DEF CalmInv, AcksOK, AckOK
<1>5. AllExact'
  BY <1>1, <1>2, ExactStays DEF CalmInv, AllExact
<1>6. OneMessage'
  BY <1>1, <1>2 DEF CalmInv, OneMessage
<1>7. KeysApart' /\ UnusedIsIdle'
  BY <1>1, <1>2 DEF CalmInv, KeysApart, UnusedIsIdle
<1> QED
  BY <1>3, <1>4, <1>5, <1>6, <1>7 DEF CalmInv

\* What is done for a key of which requests have overlapped does not disturb
\* the requests of the others.
LEMMA Aside ==
  ASSUME IInv, CalmInv, NEW k \in shared, NEW new, net' \subseteq net \cup new,
         UNCHANGED <<asked, shared>>, mid' \in Nat, mid <= mid',
         \A j \in Key : j # k =>
           sreq'[j] = sreq[j] /\ sres'[j] = sres[j] /\ served'[j] = served[j],
         \A o \in Asked : KeyOf(o) # k =>
           /\ creq'[o] = creq[o] /\ cres'[o] = cres[o]
           /\ Live(o)' = Live(o) /\ handed'[o] = handed[o],
         \A x \in new : Bears(x) => KeyOf(x.req) = k,
         \A x \in new : ~Bears(x) =>
           /\ x.kind \in {"ack", "rst"} /\ x.mid \in 1 .. mid
           /\ \A o \in Asked : KeyOf(o) # k =>
                creq[o] # x.mid /\ (cres[o] # None => cres[o].mid # x.mid)
  PROVE  CalmInv'
<1>1. /\ Asked' = Asked /\ mid \in Nat
      /\ \A o : KeyOf(o)' = KeyOf(o) /\ (Lone(o)' <=> Lone(o))
      /\ \A o \in Asked : KeyOf(o) \in Key
      /\ \A o : Lone(o) => KeyOf(o) # k
  BY IdsAre, KindIs DEF Asked, KeyOf, Lone, IInv, CountersInv
<1>2. \A x \in net' : Bears(x) /\ Lone(x.req) => x \in net /\ x.req \in Asked
  BY <1>1, BearsRequest
<1>3. \A x : Uploads(x) => Bears(x)
  BY DEF Uploads, Bears
<1>4. OneMessage'
  BY <1>1, <1>2 DEF CalmInv, OneMessage
<1>5. AllPlaced'
  <2>1. ASSUME NEW x \in net', Bears(x), Lone(x.req)
        PROVE  Placed(x)'
    <3>1. /\ Placed(x) /\ x.req \in Asked /\ KeyOf(x.req) # k
          /\ KeyOf(x.req) \in Key
      BY <1>1, <1>2, <2>1 DEF CalmInv, AllPlaced
    <3> QED
      BY <3>1, PlacedStays
  <2> QED
    BY <1>1, <2>1 DEF AllPlaced
<1>6. AcksOK'
  <2> SUFFICES ASSUME NEW x \in net', ~Bears(x)
               PROVE  AckOK(x)'
    BY DEF AcksOK
  <2>1. x.kind \in {"ack", "rst"} /\ x.mid \in 1 .. mid
    BY DEF CalmInv, AcksOK, AckOK
  <2>2. x.mid \in 1 .. mid'
    BY <1>1, <2>1
  <2>3. ASSUME NEW b \in net', Uploads(b), Lone(b.req)
        PROVE  creq'[b.req] # x.mid
    <3>1. b \in net /\ b.req \in Asked /\ KeyOf(b.req) # k
      BY <1>1, <1>2, <1>3, <2>3
    <3>2. creq[b.req] # x.mid
      BY <2>3, <3>1 DEF CalmInv, AcksOK, AckOK
    <3> QED
      BY <3>1, <3>2
  <2>4. ASSUME x.kind = "rst", NEW o \in Asked, Lone(o), cres'[o] # None
        PROVE  cres'[o].mid # x.mid
    <3>1. KeyOf(o) # k /\ cres'[o] = cres[o]
      BY <1>1, <2>4
    <3> QED
      BY <2>4, <3>1 DEF CalmInv, AcksOK, AckOK
  <2> QED
    BY <1>1, <2>1, <2>2, <2>3, <2>4 DEF AckOK
<1>7. KeysApart'
  <2>1. ASSUME NEW a \in Asked, NEW b \in Asked, Lone(a), Live(a)', Live(b)',
               KeyOf(a) = KeyOf(b)
        PROVE  a = b
    <3>1. KeyOf(a) # k /\ Live(a) /\ Live(b)
      BY <1>1, <2>1
    <3> QED
      BY <2>1, <3>1 DEF CalmInv, KeysApart
  <2> QED
    BY <1>1, <2>1 DEF KeysApart
<1>8. UnusedIsIdle'
  <2>1. ASSUME NEW j \in Key \ shared, ~Idle(j)'
        PROVE  \E o \in Asked : Live(o)' /\ KeyOf(o) = j
    <3>1. j # k /\ ~Idle(j)
      BY <2>1 DEF Idle
    <3>2. PICK o \in Asked : Live(o) /\ KeyOf(o) = j
      BY <2>1, <3>1 DEF CalmInv, UnusedIsIdle
    <3> QED
      BY <3>1, <3>2
  <2> QED
    BY <1>1, <2>1 DEF UnusedIsIdle
<1>9. AllExact'
  <2>1. ASSUME NEW o \in Asked, Lone(o)
        PROVE  Exact(o)'
    <3>1. /\ Exact(o) /\ asked'[o] = asked[o] /\ handed'[o] = handed[o]
          /\ served'[KeyOf(o)] = served[KeyOf(o)]
      BY <1>1, <2>1 DEF CalmInv, AllExact
    <3> QED
      BY <3>1, ExactStays
  <2> QED
    BY <1>1, <2>1 DEF AllExact
<1> QED
  BY <1>4, <1>5, <1>6, <1>7, <1>8, <1>9 DEF CalmInv

LEMMA ServesAside ==
  ASSUME IInv, OwnedInv, CalmInv, NEW m \in net, m.to = "server",
         ~Lone(m.req), Serves(m)
  PROVE  CalmInv'
<1>1. PICK k, new : /\ k = KeyOf(m.req)
                    /\ net' \subseteq net \cup new
                    /\ \A x \in new : FromServer(m, x)
  BY DEF Serves
<1>2. k \in shared /\ Asked \subseteq Request
  BY <1>1, RequestIs DEF Lone, IInv
<1>3. /\ UNCHANGED <<asked, shared, mid, creq, cres, handed>> /\ mid \in Nat
      /\ \A o : Live(o)' = Live(o)
  BY IdsAre DEF Serves, client, Live
<1>4. \A x \in new : Bears(x) => KeyOf(x.req) = k
  BY <1>1 DEF FromServer
<1>5. ASSUME NEW x \in new, ~Bears(x)
      PROVE  /\ x.kind \in {"ack", "rst"} /\ x.mid \in 1 .. mid
             /\ \A o \in Asked : KeyOf(o) # k =>
                  creq[o] # x.mid /\ (cres[o] # None => cres[o].mid # x.mid)
  <2>1. x.kind \in {"ack", "rst"} /\ x.mid = m.mid
    BY <1>1, <1>5 DEF FromServer
  <2>2. m.mid \in 1 .. mid
    BY DEF IInv, NetInv, MsgOK
  <2> QED
    BY <1>1, <1>2, <2>1, <2>2 DEF OwnedInv, MidsOwned
<1>6. \A j \in Key : j # k =>
        sreq'[j] = sreq[j] /\ sres'[j] = sres[j] /\ served'[j] = served[j]
  BY <1>1 DEF Serves
<1>7. mid' \in Nat /\ mid <= mid'
  BY <1>3
<1> QED
  BY <1>1, <1>2, <1>3, <1>4, <1>5, <1>6, <1>7, Aside

LEMMA HandlesAside ==
  ASSUME IInv, CalmInv, NEW m, m.req \in Asked, ~Lone(m.req), Handles(m),
         shared' = shared
  PROVE  CalmInv'
<1>1. PICK k, new : /\ k = KeyOf(m.req)
                    /\ net' \subseteq net \cup new
                    /\ \A x \in new : x.to = "server" /\ x.req = m.req
  BY DEF Handles
<1>2. k \in shared /\ Asked \subseteq Request
  BY <1>1, RequestIs DEF Lone, IInv
<1>3. /\ UNCHANGED <<asked, sreq, sres, served>>
      /\ mid' \in Nat /\ mid <= mid'
  BY IdsAre DEF Handles
<1>4. \A o \in Asked : KeyOf(o) # k =>
        /\ creq'[o] = creq[o] /\ cres'[o] = cres[o]
        /\ Live(o)' = Live(o) /\ handed'[o] = handed[o]
  BY <1>1, <1>2 DEF Handles
<1>5. \A x \in new : Bears(x) /\ KeyOf(x.req) = k
  BY <1>1 DEF Bears
<1> QED
  BY <1>1, <1>2, <1>3, <1>4, <1>5, Aside

LEMMA CalmRegular ==
  ASSUME IInv, OwnedInv, CalmInv, copies = 0, copies' = 0, NEW m \in net,
         Lone(m.req), m.to = "server", Regular(m)
  PROVE  CalmInv'
<1> DEFINE r == m.req
           k == KeyOf(r)
<1>1. /\ k \in Key /\ Up(r) \in Nat /\ Bears(m) /\ DOMAIN sreq = Key
  BY BearsRequest DEF Bears, IInv, SreqInv
<1>2. m.mid \in 1 .. mid /\ Up(r) <= 1
  BY DEF IInv, NetInv, MsgOK, Regular
<1>3. Idle(k) /\ cres[r] = None
  BY <1>1
  DEF CalmInv, AllPlaced, Placed, PlainPlace, HasBlocks, Idle, Regular
<1>4. /\ sreq'[k] = None
      /\ \A j \in Key : j # k => sreq'[j] = sreq[j]
  BY <1>1, <1>3 DEF Regular, Idle
<1>5. Payload(r) = IF Up(r) = 0 THEN << >> ELSE <<Block(r, 0)>>
  <2>1. CASE Up(r) = 0
    BY <2>1 DEF Payload
  <2>2. CASE Up(r) = 1
    BY <2>2 DEF Payload
  <2> QED
    BY <1>1, <1>2, <2>1, <2>2
<1>6. Invoke(m, Payload(r), sres, FALSE) /\ UNCHANGED client
  BY <1>3, <1>5 DEF Regular, Idle
<1> QED
  BY <1>2, <1>3, <1>4, <1>6, CalmInvoke DEF Idle

LEMMA FirstBlocksIs ==
  ASSUME NEW r \in Request, NEW n \in Nat
  PROVE  /\ FirstBlocks(r, n) \in Seq(Blocks)
         /\ Len(FirstBlocks(r, n)) = n
         /\ FirstBlocks(r, n + 1) = Append(FirstBlocks(r, n), Block(r, n))
         /\ FirstBlocks(r, 0) = << >>
<1>1. \A i \in Nat : Block(r, i) \in Blocks
  BY DEF Block, Blocks
<1>2. ASSUME NEW j \in Nat
      PROVE  /\ FirstBlocks(r, j) \in Seq(Blocks) /\ Len(FirstBlocks(r, j)) = j
             /\ \A i \in 1 .. j : FirstBlocks(r, j)[i] = Block(r, i - 1)
  <2>1. \A i \in 1 .. j : Block(r, i - 1) \in Blocks
    BY <1>1
  <2> QED
    BY <2>1 DEF FirstBlocks
<1>3. FirstBlocks(r, n + 1) = Append(FirstBlocks(r, n), Block(r, n))
  <2> DEFINE a == FirstBlocks(r, n + 1)
             b == FirstBlocks(r, n)
             x == Block(r, n)
  <2>1. /\ a \in Seq(Blocks) /\ Len(a) = n + 1
        /\ \A i \in 1 .. n + 1 : a[i] = Block(r, i - 1)
    BY <1>2
  <2>2. /\ b \in Seq(Blocks) /\ Len(b) = n /\ x \in Blocks
        /\ \A i \in 1 .. n : b[i] = Block(r, i - 1)
    BY <1>1, <1>2
  <2>3. a[n + 1] = x
    <3>1. n + 1 - 1 = n
      OBVIOUS
    <3> QED
      BY <2>1, <3>1
  <2> HIDE DEF a, b, x
  <2>4. \A i \in 1 .. n + 1 : a[i] = Append(b, x)[i]
    BY <2>1, <2>2, <2>3
  <2>5. a = Append(b, x)
    BY <2>1, <2>2, <2>4
  <2> QED
    BY <2>5 DEF a, b, x
<1> QED
  BY <1>2, <1>3 DEF FirstBlocks

LEMMA CalmBlock1 ==
  ASSUME IInv, OwnedInv, CalmInv, copies = 0, copies' = 0, NEW m \in net,
         Lone(m.req), m.to = "server", Block1(m)
  PROVE  CalmInv'
<1> DEFINE r == m.req
<1>0. PICK k, num : k = KeyOf(r) /\ num = m.num
  OBVIOUS
<1>1. /\ r \in Asked /\ r \in Request /\ k \in Key /\ num \in Nat
      /\ Up(r) \in Nat /\ Bears(m) /\ DOMAIN sreq = Key
  BY <1>0, BearsRequest DEF Bears, IInv, SreqInv
<1>2. /\ m.mid \in 1 .. mid /\ num < Up(r) /\ (m.more <=> num + 1 < Up(r))
  BY <1>0 DEF IInv, NetInv, MsgOK, Block1
<1>3. HasBlocks(r, num) /\ creq[r] = m.mid /\ Live(r)
  BY <1>0, <1>1 DEF CalmInv, AllPlaced, Placed, Block1Place, Block1
<1> DEFINE b == BufferFor(m)
           blocks == FirstBlocks(r, num + 1)
<1>4. b = [blocks |-> FirstBlocks(r, num), size |-> 0] /\ b # None
  <2>1. [blocks |-> FirstBlocks(r, num), size |-> 0] # None
    BY <1>1, FirstBlocksIs, NoneAssumption
  <2>2. CASE num = 0
    BY <1>0, <1>1, <1>3, <2>1, <2>2, FirstBlocksIs
    DEF BufferFor, NewRequestBuffer, HasBlocks
  <2>3. CASE num # 0
    <3>1. sreq[k] = [blocks |-> FirstBlocks(r, num), size |-> 0]
      BY <1>0, <1>3, <2>3 DEF HasBlocks
    <3>2. sreq[k].size # Len(sreq[k].blocks)
      BY <1>1, <2>3, <3>1, FirstBlocksIs
    <3> QED
      BY <1>0, <2>1, <3>1, <3>2 DEF BufferFor
  <2> QED
    BY <2>2, <2>3
<1>5. handle_block(b.blocks, m.num, Block(r, m.num)) = blocks /\ blocks # None
  <2> HIDE DEF b
  <2>1. b.blocks = FirstBlocks(r, num)
    BY <1>4
  <2>2. /\ Len(FirstBlocks(r, num)) = num
        /\ blocks = Append(FirstBlocks(r, num), Block(r, num))
    BY <1>1, FirstBlocksIs
  <2>3. num + 1 \in Nat
    BY <1>1
  <2>4. blocks \in Seq(Blocks)
    BY <1>1, <2>3, FirstBlocksIs
  <2> HIDE DEF blocks
  <2>5. ~(num > num)
    BY <1>1
  <2>6. handle_block(b.blocks, num, Block(r, num)) = blocks
    BY <2>1, <2>2, <2>5 DEF handle_block
  <2> QED
    BY <1>0, <2>4, <2>6, NoneAssumption
<1>6. UNCHANGED client
  BY DEF Block1
<1> HIDE DEF b
<1>7. \/ /\ m.more
         /\ sreq' = [sreq EXCEPT ![k] = [b EXCEPT !.blocks = blocks]]
         /\ Exchange(m, {Continue(r, m.num, m.mid)})
         /\ UNCHANGED <<sres, served>>
      \/ /\ ~m.more
         /\ sreq' = [sreq EXCEPT ![k] = None]
         /\ Invoke(m, blocks, sres, TRUE)
  <2> HIDE DEF blocks
  <2> QED
    BY <1>0, <1>4, <1>5 DEF Block1, b
<1>8. CASE m.more /\ UNCHANGED <<sres, served>>
           /\ sreq' = [sreq EXCEPT ![k] = [b EXCEPT !.blocks = blocks]]
           /\ Exchange(m, {Continue(r, m.num, m.mid)})
  <2>1. PICK c : c = Continue(r, num, m.mid)
    OBVIOUS
  <2>2. /\ c.to = "client" /\ c.kind = "continue" /\ c.req = r /\ c.num = num
        /\ Bears(c) /\ Uploads(c)
    BY <2>1 DEF Continue, Bears, Uploads
  <2>3. /\ asked' = asked /\ mid' = mid /\ mid \in Nat /\ shared' = shared
        /\ creq' = creq /\ cres' = cres /\ handed' = handed
        /\ \A o \in Request : Live(o)' = Live(o)
    BY <1>1, <1>6, ClientIsSame
  <2>4. KeyOf(r)' = k /\ Up(r)' = Up(r)
    BY <1>0, <2>3 DEF KeyOf, Up
  <2>5. sreq'[k] = [blocks |-> FirstBlocks(r, num + 1), size |-> 0]
    <3> HIDE DEF blocks
    <3>1. [b EXCEPT !.blocks = blocks] = [blocks |-> blocks, size |-> 0]
      BY <1>4
    <3>2. sreq'[k] = [blocks |-> blocks, size |-> 0]
      BY <1>1, <1>8, <3>1
    <3> QED
      BY <3>2 DEF blocks
  <2>6. HasBlocks(r, num + 1)'
    BY <1>0, <1>1, <1>3, <1>8, <2>3, <2>4, <2>5 DEF HasBlocks
  <2>7. Placed(c)'
    <3>1. creq[r] # None
      BY <1>2, <1>3, <2>3, NoneAssumption
    <3>2. ContinuePlace(c)'
      BY <1>2, <1>8, <2>2, <2>3, <2>4, <2>6, <3>1 DEF ContinuePlace
    <3> QED
      BY <1>1, <1>3, <2>2, <2>3, <3>2 DEF Placed
  <2>8. net' = (net \ {m}) \cup {c}
    BY <1>0, <1>8, <2>1, CalmExchange
  <2>9. \A a \in net : ~Bears(a) => creq'[r] # a.mid
    <3>1. Uploads(m)
      BY DEF Uploads, Block1
    <3> QED
      BY <2>3, <3>1 DEF CalmInv, AcksOK, AckOK
  <2>10. \A j \in Key : j # KeyOf(r) =>
           sreq'[j] = sreq[j] /\ sres'[j] = sres[j] /\ served'[j] = served[j]
    BY <1>0, <1>1, <1>8
  <2>11. Exact(r)'
    BY <1>1, <1>8, <2>3, ExactStays DEF CalmInv, AllExact
  <2>12. /\ \A o \in Request : o # r =>
              /\ creq'[o] = creq[o] /\ cres'[o] = cres[o]
              /\ Live(o)' = Live(o) /\ handed'[o] = handed[o]
         /\ asked' = asked /\ mid' \in Nat /\ mid <= mid'
         /\ \A j \in Key : \A n \in DOMAIN served[j] :
              n \in DOMAIN served'[j] /\ served'[j][n] = served[j][n]
    BY <1>8, <2>3
  <2> QED
    BY <1>1, <2>2, <2>3, <2>7, <2>8, <2>9, <2>10, <2>11, <2>12, TurnOne
<1>9. CASE ~m.more /\ sreq' = [sreq EXCEPT ![k] = None]
           /\ Invoke(m, blocks, sres, TRUE)
  <2>1. Up(r) = num + 1
    BY <1>1, <1>2, <1>9
  <2>2. blocks = Payload(r)
    BY <2>1 DEF FirstBlocks, Payload
  <2>3. /\ sreq'[k] = None
        /\ \A j \in Key : j # k => sreq'[j] = sreq[j]
    BY <1>1, <1>9
  <2>4. sres[k] = << >> /\ cres[r] = None
    BY <1>0, <1>3 DEF HasBlocks
  <2> HIDE DEF blocks
  <2> QED
    BY <1>0, <1>2, <1>3, <1>6, <1>9, <2>2, <2>3, <2>4, CalmInvoke
<1> QED
  BY <1>7, <1>8, <1>9

LEMMA CalmBlock2 ==
  ASSUME IInv, OwnedInv, CalmInv, copies = 0, copies' = 0, NEW m \in net,
         Lone(m.req), m.to = "server", Block2(m)
  PROVE  CalmInv'
<1> DEFINE r == m.req
<1>0. PICK k, num, down : k = KeyOf(r) /\ num = m.num /\ down = Down(r)
  OBVIOUS
<1>1. /\ r \in Asked /\ r \in Request /\ k \in Key /\ num \in Nat
      /\ down \in Nat /\ Bears(m) /\ DOMAIN sres = Key /\ m.mid \in 1 .. mid
  BY <1>0, BearsRequest DEF Bears, IInv, SresInv, NetInv, MsgOK
<1>2. Block2Place(m) /\ Live(r)
  BY <1>1 DEF CalmInv, AllPlaced, Placed, Block2
<1>3. PICK run \in Runs(r) : HasParts(r, run, num, num)
  BY <1>0, <1>2 DEF Block2Place
<1>4. cres[r].mid = m.mid /\ num \in 1 .. down - 1
  BY <1>0, <1>2 DEF Block2Place
<1>5. PICK b, next : /\ b = [run |-> run, size |-> down, next |-> num]
                     /\ next = [run |-> run, size |-> down, next |-> num + 1]
  OBVIOUS
<1>6. sres[k] = <<b>> /\ b # None /\ run \in Nat
  <2>1. run \in Nat
    BY DEF Runs
  <2>2. b \in [run : Nat, size : Nat, next : Nat]
    BY <1>1, <1>5, <2>1
  <2>3. num < down
    BY <1>1, <1>4
  <2>4. sres[k] = <<b>>
    BY <1>0, <1>3, <1>5, <2>3 DEF HasParts
  <2> QED
    BY <2>1, <2>2, <2>4, NoneAssumption
<1>7. FindResponse(k) = b
  BY <1>6 DEF FindResponse
<1>8. PICK c, ack :
        /\ c = Answer("ok", r, FALSE, num, num + 1 < down, Part(k, run, num),
                      IF num + 1 < down THEN m.mid ELSE 0)
        /\ ack = Empty("ack", m.mid)
  OBVIOUS
<1>9. /\ Exchange(m, IF num + 1 < down THEN {c} ELSE {c, ack})
      /\ sres' = WithFirst(k, next, IF num + 1 < down THEN 1 ELSE 0)
      /\ UNCHANGED <<client, sreq, served>>
  <2>1. /\ b.next - m.num \in 0 .. 1 /\ m.num < b.size
        /\ b.size = down /\ b.run = run /\ [b EXCEPT !.next = m.num + 1] = next
    BY <1>0, <1>1, <1>4, <1>5
  <2> QED
    BY <1>0, <1>1, <1>6, <1>7, <1>8, <2>1 DEF Block2
<1>10. /\ asked' = asked /\ mid' = mid /\ mid \in Nat /\ shared' = shared
       /\ creq' = creq /\ cres' = cres /\ handed' = handed
       /\ \A o \in Request : Live(o)' = Live(o)
  BY <1>1, <1>9, ClientIsSame
<1>11. /\ KeyOf(r)' = k /\ Down(r)' = down /\ Payload(r)' = Payload(r)
  BY <1>0, <1>10 DEF KeyOf, Down, Up, Payload
<1>12. /\ c.to = "client" /\ c.kind = "ok" /\ c.req = r /\ c.num = num
       /\ (c.more <=> num + 1 < down) /\ c.part = Part(k, run, num)
       /\ Bears(c) /\ ~Uploads(c)
  BY <1>8 DEF Answer, Bears, Uploads
<1>13. sres'[k] = IF num + 1 < down THEN <<next>> ELSE << >>
  <2>1. CASE num + 1 < down
    <3>1. sres' = [sres EXCEPT ![k] = <<next>> \o Tail(@)]
      BY <1>9, <2>1 DEF WithFirst
    <3>2. sres'[k] = <<next>> \o Tail(<<b>>)
      BY <1>1, <1>6, <3>1
    <3> QED
      BY <2>1, <3>2
  <2>2. CASE ~(num + 1 < down)
    <3>1. sres' = [sres EXCEPT ![k] = Tail(@)]
      BY <1>9, <2>2 DEF WithFirst
    <3> QED
      BY <1>1, <1>6, <2>2, <3>1
  <2> QED
    BY <2>1, <2>2
<1>14. Placed(c)'
  <2>1. HasParts(r, run, num, num + 1)'
    BY <1>0, <1>3, <1>5, <1>9, <1>10, <1>11, <1>13 DEF HasParts
  <2>2. run \in Runs(r)'
    BY <1>0, <1>9, <1>11 DEF Runs
  <2>3. num < down /\ down # 0
    BY <1>1, <1>4
  <2>4. AnswerPlace(c)'
    BY <1>11, <1>12, <2>1, <2>2, <2>3 DEF AnswerPlace
  <2> QED
    BY <1>1, <1>2, <1>10, <1>12, <2>4 DEF Placed
<1>15. /\ \A j \in Key : j # KeyOf(r) =>
            sreq'[j] = sreq[j] /\ sres'[j] = sres[j] /\ served'[j] = served[j]
       /\ \A j \in Key : \A n \in DOMAIN served[j] :
            n \in DOMAIN served'[j] /\ served'[j][n] = served[j][n]
  BY <1>0, <1>1, <1>9 DEF WithFirst
<1>16. Exact(r)'
  BY <1>1, <1>9, <1>10, ExactStays DEF CalmInv, AllExact
<1>17. /\ \A o \in Request : o # r =>
            /\ creq'[o] = creq[o] /\ cres'[o] = cres[o]
            /\ Live(o)' = Live(o) /\ handed'[o] = handed[o]
       /\ asked' = asked /\ mid' \in Nat /\ mid <= mid' /\ Live(r)'
  BY <1>1, <1>2, <1>10
<1>18. CASE num + 1 < down
  <2>1. net' = (net \ {m}) \cup {c}
    BY <1>9, <1>18, CalmExchange
  <2> QED
    BY <1>1, <1>10, <1>12, <1>14, <1>15, <1>16, <1>17, <2>1, TurnOne
<1>19. CASE ~(num + 1 < down)
  <2>1. PICK new : new = {c, ack}
    OBVIOUS
  <2>2. net' = (net \ {m}) \cup new
    BY <1>9, <1>19, <2>1, CalmExchange
  <2>3. ack.to = "client" /\ ack.kind = "ack" /\ ack.mid = m.mid
    BY <1>8 DEF Empty
  <2>4. ~Bears(ack) /\ ~Uploads(ack)
    BY <2>3 DEF Bears, Uploads
  <2>5. \A o \in Request : creq[o] # m.mid
    <3>1. cres[r] # None
      BY <1>3, <1>4 DEF HasParts
    <3> QED
      BY <1>1, <1>4, <3>1 DEF OwnedInv, IdsDiffer
  <2>6. /\ \A x \in new : Bears(x) => x.req = r /\ Placed(x)'
        /\ \A x, y \in new : Bears(x) /\ Bears(y) => x = y
        /\ \A x \in new : ~Bears(x) =>
             /\ x.kind = "ack" /\ x.mid \in 1 .. mid'
             /\ \A o \in Request : o # r => creq[o] # x.mid
             /\ \A y \in new : ~Uploads(y)
        /\ \A x \in new : Uploads(x) =>
             \A a \in net : ~Bears(a) => creq'[r] # a.mid
    BY <1>1, <1>10, <1>12, <1>14, <2>1, <2>3, <2>4, <2>5
  <2> QED
    BY <1>1, <1>10, <1>15, <1>16, <1>17, <2>2, <2>6, Turn
<1> QED
  BY <1>18, <1>19

LEMMA CalmServer ==
  ASSUME IInv, OwnedInv, CalmInv, copies = 0, copies' = 0, NEW m \in net,
         ServerReceives(m)
  PROVE  CalmInv'
<1>1. m.to = "server"
  BY DEF ServerReceives
<1>2. CASE ~Lone(m.req)
  BY <1>1, <1>2, ServerServes, ServesAside
<1>3. CASE DropRepeated(m)
  <2>1. net' \subseteq net /\ UNCHANGED client /\ UNCHANGED <<sreq, sres, served>>
    BY <1>3 DEF DropRepeated, server
  <2> QED
    BY <2>1, CalmLess
<1>4. CASE Lone(m.req) /\ (Regular(m) \/ Block1(m) \/ Block2(m))
  BY <1>1, <1>4, CalmRegular, CalmBlock1, CalmBlock2
<1> QED
  BY <1>2, <1>3, <1>4 DEF ServerReceives

-----------------------------------------------------------------------------
(* Steps of the client.                                                    *)

LEMMA FirstPartsIs ==
  ASSUME NEW k \in Key, NEW run \in Nat \ {0}, NEW n \in Nat
  PROVE  /\ FirstParts(k, run, n) \in Seq(Parts)
         /\ Len(FirstParts(k, run, n)) = n
         /\ FirstParts(k, run, n + 1) =
              Append(FirstParts(k, run, n), Part(k, run, n))
         /\ FirstParts(k, run, 0) = << >>
         /\ \A i \in 1 .. n : FirstParts(k, run, n)[i] = Part(k, run, i - 1)
<1>1. \A i \in Nat : Part(k, run, i) \in Parts
  BY DEF Part, Parts
<1>2. ASSUME NEW j \in Nat
      PROVE  /\ FirstParts(k, run, j) \in Seq(Parts)
             /\ Len(FirstParts(k, run, j)) = j
             /\ \A i \in 1 .. j : FirstParts(k, run, j)[i] = Part(k, run, i - 1)
  <2>1. \A i \in 1 .. j : Part(k, run, i - 1) \in Parts
    BY <1>1
  <2> QED
    BY <2>1 DEF FirstParts
<1>3. FirstParts(k, run, n + 1) = Append(FirstParts(k, run, n), Part(k, run, n))
  <2> DEFINE a == FirstParts(k, run, n + 1)
             b == FirstParts(k, run, n)
             x == Part(k, run, n)
  <2>1. /\ a \in Seq(Parts) /\ Len(a) = n + 1
        /\ \A i \in 1 .. n + 1 : a[i] = Part(k, run, i - 1)
    BY <1>2
  <2>2. /\ b \in Seq(Parts) /\ Len(b) = n /\ x \in Parts
        /\ \A i \in 1 .. n : b[i] = Part(k, run, i - 1)
    BY <1>1, <1>2
  <2>3. a[n + 1] = x
    <3>1. n + 1 - 1 = n
      OBVIOUS
    <3> QED
      BY <2>1, <3>1
  <2> HIDE DEF a, b, x
  <2>4. \A i \in 1 .. n + 1 : a[i] = Append(b, x)[i]
    BY <2>1, <2>2, <2>3
  <2>5. a = Append(b, x)
    BY <2>1, <2>2, <2>4
  <2> QED
    BY <2>5 DEF a, b, x
<1> QED
  BY <1>2, <1>3 DEF FirstParts

\* An empty ACK, or a RST that is for no response buffer, frees no buffer that
\* is still needed.
LEMMA CalmEmpty ==
  ASSUME IInv, CalmInv, copies = 0, copies' = 0, NEW m \in net, ~Bears(m),
         cb' = Closed(m.mid),
         creq' = [r \in Request |->
                    IF r \in RequestOf(m.mid) THEN None ELSE creq[r]],
         Exchange(m, {}), UNCHANGED <<asked, shared, mid, cres, handed>>,
         UNCHANGED <<sreq, sres, served>>
  PROVE  CalmInv'
<1>2. net' = net \ {m}
  BY CalmExchange
<1>3. AckOK(m)
  BY DEF CalmInv, AcksOK
<1>4. /\ \A r \in Request : Live(r)' = Live(r)
      /\ \A r : KeyOf(r)' = KeyOf(r) /\ (Lone(r)' <=> Lone(r))
      /\ \A k : Idle(k)' = Idle(k)
      /\ Asked' = Asked /\ Asked \subseteq Request
  BY ClosedIs, RequestIs DEF Live, KeyOf, Lone, Idle, Asked, IInv
<1>6. \A x \in net : Uploads(x) /\ Lone(x.req) => creq'[x.req] = creq[x.req]
  <2> SUFFICES ASSUME NEW x \in net, Uploads(x), Lone(x.req)
               PROVE  creq'[x.req] = creq[x.req]
    OBVIOUS
  <2>1. Bears(x)
    BY DEF Uploads, Bears
  <2>2. x.req \in Request /\ creq[x.req] # m.mid
    BY <1>3, <2>1, BearsRequest DEF AckOK
  <2> QED
    BY <2>2 DEF RequestOf
<1>7. AllPlaced'
  <2>1. ASSUME NEW x \in net, Bears(x), Lone(x.req)
        PROVE  Placed(x)'
    <3>1. x.req \in Request /\ Placed(x)
      BY <2>1, BearsRequest DEF CalmInv, AllPlaced
    <3> QED
      BY <1>4, <1>6, <2>1, <3>1, PlacedStays
  <2> QED
    BY <1>2, <1>4, <2>1 DEF AllPlaced
<1>8. AcksOK'
  BY <1>2, <1>4, <1>6 DEF CalmInv, AcksOK, AckOK
<1>9. AllExact'
  BY <1>4, ExactStays DEF CalmInv, AllExact
<1>10. OneMessage'
  BY <1>2, <1>4 DEF CalmInv, OneMessage
<1>12. KeysApart' /\ UnusedIsIdle'
  BY <1>4 DEF CalmInv, KeysApart, UnusedIsIdle
<1> QED
  BY <1>7, <1>8, <1>9, <1>10, <1>12 DEF CalmInv

\* A RST for a response buffer ends a request whose key is shared.
LEMMA CalmReset ==
  ASSUME IInv, CalmInv, copies = 0, copies' = 0, NEW m \in net, ~Bears(m),
         ReceiveReset(m)
  PROVE  CalmInv'
<1>1. /\ m.kind = "rst" /\ Exchange(m, {}) /\ UNCHANGED <<mid, asked, shared>>
      /\ UNCHANGED server /\ UNCHANGED <<sreq, sres, served>>
  BY DEF ReceiveReset, server
<1>2. CASE /\ cb' = Closed(m.mid)
           /\ creq' = [r \in Request |->
                         IF r \in RequestOf(m.mid) THEN None ELSE creq[r]]
           /\ UNCHANGED <<cres, handed>>
  BY <1>1, <1>2, CalmEmpty
<1>3. ASSUME NEW r \in ResponseOf(m.mid), HandOver(r, "ok", << >>)
      PROVE  CalmInv'
  <2>1. r \in Request /\ cres[r] # None /\ cres[r].mid = m.mid
    BY <1>3 DEF ResponseOf
  <2>2. r \in Asked
    BY <2>1, EntryIs DEF IInv
  <2>3. ~Lone(r)
    BY <1>1, <2>1, <2>2 DEF CalmInv, AcksOK, AckOK
  <2>4. PICK k, new : k = KeyOf(r) /\ new = {}
    OBVIOUS
  <2>5. k \in shared /\ net' \subseteq net \cup new
    BY <1>1, <2>3, <2>4, ExchangeSends DEF Lone
  <2>6. DOMAIN handed = Request /\ mid' \in Nat /\ mid <= mid'
    BY <1>1, IdsAre DEF IInv, ClientInv
  <2>7. \A o \in Request : o # r =>
          /\ creq'[o] = creq[o] /\ cres'[o] = cres[o]
          /\ Live(o)' = Live(o) /\ handed'[o] = handed[o]
    BY <1>3, <2>1, <2>6, FreeIs DEF HandOver
  <2>8. \A o \in Asked : KeyOf(o) # k =>
          /\ creq'[o] = creq[o] /\ cres'[o] = cres[o]
          /\ Live(o)' = Live(o) /\ handed'[o] = handed[o]
    BY <2>4, <2>7, RequestIs DEF IInv
  <2>9. \A x \in new : FALSE
    BY <2>4
  <2> QED
    BY <1>1, <2>5, <2>6, <2>8, <2>9, Aside
<1> QED
  BY <1>2, <1>3 DEF ReceiveReset

\* 2.31 Continue finds the upload's buffer, and the next block is sent.
LEMMA CalmContinue ==
  ASSUME IInv, CalmInv, copies = 0, copies' = 0, NEW m \in net,
         Lone(m.req), m.to = "client", ReceiveContinue(m)
  PROVE  CalmInv'
<1> DEFINE r == m.req
<1>1. m.kind = "continue" /\ Bears(m)
  BY DEF ReceiveContinue, Bears
<1>2. PICK k, num, id :
        k = KeyOf(r) /\ num = m.num /\ id = mid + 1
  OBVIOUS
<1>3. /\ r \in Asked /\ r \in Request /\ k \in Key /\ num \in Nat
      /\ mid \in Nat
  BY <1>1, <1>2, BearsRequest, IdsAre
<1>4. Live(r) /\ HasBlocks(r, num + 1) /\ creq[r] # None
  BY <1>1, <1>2 DEF CalmInv, AllPlaced, Placed, ContinuePlace
<1>5. PICK c :
        c = ToServer(r, "block1", num + 1, num + 1 + 1 < Up(r), id)
  OBVIOUS
<1>6. /\ mid' = id /\ cb' = Closed(m.mid) /\ creq' = [creq EXCEPT ![r] = id]
      /\ Exchange(m, {c}) /\ UNCHANGED <<cres, handed, asked, shared>>
      /\ UNCHANGED <<sreq, sres, served>>
  BY <1>2, <1>4, <1>5 DEF ReceiveContinue, server
<1>7. /\ c.to = "server" /\ c.req = r /\ c.opt = "block1" /\ c.num = num + 1
      /\ c.mid = id /\ Bears(c)
  BY <1>5 DEF ToServer, Bears
<1>8. net' = (net \ {m}) \cup {c}
  BY <1>6, CalmExchange
<1>9. \A o \in Request : Live(o)' = Live(o)
  BY <1>6, ClosedIs DEF Live, IInv
<1>10. /\ creq'[r] = id
       /\ \A o \in Request : o # r => creq'[o] = creq[o]
  BY <1>3, <1>6 DEF IInv, ClientInv
<1>11. Placed(c)'
  <2>1. HasBlocks(r, num + 1)'
    BY <1>4, <1>6 DEF HasBlocks, KeyOf
  <2>2. Block1Place(c)'
    BY <1>7, <1>10, <2>1 DEF Block1Place
  <2> QED
    BY <1>3, <1>4, <1>7, <1>9, <2>2 DEF Placed
<1>12. \A a \in net : ~Bears(a) => creq'[r] # a.mid
  <2>1. \A a \in net : ~Bears(a) => a.mid \in 1 .. mid
    BY DEF CalmInv, AcksOK, AckOK
  <2> QED
    BY <1>2, <1>3, <1>10, <2>1
<1>14. Exact(r)'
  BY <1>3, <1>6, ExactStays DEF CalmInv, AllExact
<1>15. /\ \A j \in Key : j # KeyOf(r) =>
            sreq'[j] = sreq[j] /\ sres'[j] = sres[j] /\ served'[j] = served[j]
       /\ \A j \in Key : \A n \in DOMAIN served[j] :
            n \in DOMAIN served'[j] /\ served'[j][n] = served[j][n]
       /\ \A o \in Request : o # r =>
            /\ creq'[o] = creq[o] /\ cres'[o] = cres[o]
            /\ Live(o)' = Live(o) /\ handed'[o] = handed[o]
       /\ asked' = asked /\ mid' \in Nat /\ mid <= mid'
  BY <1>2, <1>3, <1>6, <1>9, <1>10
<1> QED
  BY <1>1, <1>6, <1>7, <1>8, <1>11, <1>12, <1>14, <1>15, TurnOne

\* The exchange ends: nothing is left of it on either side, and what is handed
\* over is the answer.
LEMMA CalmHandOver ==
  ASSUME IInv, CalmInv, copies = 0, copies' = 0, NEW m \in net, Bears(m),
         Lone(m.req), shared' = shared,
         NEW code, NEW payload, HandOver(m.req, code, payload),
         Exchange(m, {}), UNCHANGED <<asked, mid>>, UNCHANGED server,
         Idle(KeyOf(m.req)),
         code = "ok" =>
           \E n \in DOMAIN served[KeyOf(m.req)] :
             /\ served[KeyOf(m.req)][n] = Payload(m.req)
             /\ Len(payload) = Down(m.req)
             /\ \A i \in 1 .. Down(m.req) :
                  payload[i] = Part(KeyOf(m.req), n, i - 1)
  PROVE  CalmInv'
<1> DEFINE r == m.req
<1>1. PICK new, h : new = {} /\ h = [code |-> code, payload |-> payload]
  OBVIOUS
<1>2. r \in Request /\ mid \in Nat
  BY BearsRequest, IdsAre
<1>3. /\ handed' = [handed EXCEPT ![r] = h]
      /\ cb' = [cb EXCEPT ![r] = Callback("freed", 0)]
      /\ creq' = [creq EXCEPT ![r] = None]
      /\ cres' = [cres EXCEPT ![r] = None]
      /\ UNCHANGED <<sreq, sres, served>>
  BY <1>1 DEF HandOver, Free, server
<1>4. /\ DOMAIN handed = Request /\ DOMAIN cb = Request
      /\ DOMAIN creq = Request /\ DOMAIN cres = Request
  BY DEF IInv, ClientInv
<1>5. \A o \in Request : o # r =>
        /\ creq'[o] = creq[o] /\ cres'[o] = cres[o]
        /\ Live(o)' = Live(o) /\ handed'[o] = handed[o]
  BY <1>3, <1>4 DEF Live
<1>6. creq'[r] = None /\ cres'[r] = None /\ handed'[r] = h
  BY <1>2, <1>3, <1>4
<1>8. /\ KeyOf(r)' = KeyOf(r) /\ Down(r)' = Down(r)
      /\ Payload(r)' = Payload(r)
  BY DEF KeyOf, Up, Down, Payload
<1>9. Idle(KeyOf(r))'
  BY <1>3, <1>8 DEF Idle
<1>10. Exact(r)'
  BY <1>1, <1>3, <1>6, <1>8 DEF Exact
<1>11. net' = (net \ {m}) \cup new
  BY <1>1, CalmExchange
<1>12. /\ \A x \in new : Bears(x) => x.req = m.req /\ Placed(x)'
       /\ \A x, y \in new : Bears(x) /\ Bears(y) => x = y
       /\ \A x \in new : ~Bears(x) =>
            /\ x.kind = "ack" /\ x.mid \in 1 .. mid'
            /\ \A o \in Request : o # m.req => creq[o] # x.mid
            /\ \A y \in new : ~Uploads(y)
       /\ \A x \in new : Uploads(x) =>
            \A a \in net : ~Bears(a) => creq'[m.req] # a.mid
  BY <1>1
<1>13. /\ \A j \in Key : j # KeyOf(r) =>
            sreq'[j] = sreq[j] /\ sres'[j] = sres[j] /\ served'[j] = served[j]
       /\ \A j \in Key : \A n \in DOMAIN served[j] :
            n \in DOMAIN served'[j] /\ served'[j][n] = served[j][n]
       /\ asked' = asked /\ mid' \in Nat /\ mid <= mid'
  BY <1>2, <1>3
<1> QED
  BY <1>5, <1>6, <1>9, <1>10, <1>11, <1>12, <1>13, Turn

\* The block in m is the next one of the answer.
LEMMA CalmReceived ==
  ASSUME IInv, NEW m \in net, Bears(m), NEW run \in Runs(m.req),
         HasParts(m.req, run, m.num, m.num + 1),
         m.part = Part(KeyOf(m.req), run, m.num)
  PROVE  /\ Received(m.req, m) = FirstParts(KeyOf(m.req), run, m.num + 1)
         /\ Received(m.req, m) # None
<1> DEFINE r == m.req
<1>1. PICK k, num, part : k = KeyOf(r) /\ num = m.num /\ part = m.part
  OBVIOUS
<1>2. k \in Key /\ num \in Nat /\ run \in Nat \ {0} /\ num + 1 \in Nat
  BY <1>1, BearsRequest DEF Runs
<1>3. part = Part(k, run, num) /\ part # None
  BY <1>1, <1>2, PartIs, NoneAssumption
<1>4. PICK old, all :
        old = FirstParts(k, run, num) /\ all = FirstParts(k, run, num + 1)
  OBVIOUS
<1>5. /\ Len(old) = num /\ all = Append(old, part)
      /\ all \in Seq(Parts)
  BY <1>2, <1>3, <1>4, FirstPartsIs
<1>6. (IF cres[r] = None THEN << >> ELSE cres[r].blocks) = old
  <2>1. CASE num = 0
    BY <1>1, <1>2, <1>4, <2>1, FirstPartsIs DEF HasParts
  <2>2. CASE num # 0
    BY <1>1, <1>4, <2>2 DEF HasParts
  <2> QED
    BY <2>1, <2>2
<1>7. handle_block(old, num, part) = all
  <2>1. ~(num > num)
    BY <1>2
  <2> QED
    BY <1>5, <2>1 DEF handle_block
<1>8. Received(r, m) = all
  BY <1>1, <1>3, <1>6, <1>7 DEF Received
<1> QED
  BY <1>1, <1>4, <1>5, <1>8, NoneAssumption

\* A block of the answer after which another one is fetched.
LEMMA CalmFetch ==
  ASSUME IInv, CalmInv, copies = 0, copies' = 0, NEW m \in net,
         Lone(m.req), m.to = "client", m.kind = "ok", NEW run \in Runs(m.req),
         HasParts(m.req, run, m.num, m.num + 1), m.num + 1 < Down(m.req),
         Received(m.req, m) = FirstParts(KeyOf(m.req), run, m.num + 1),
         AsksNext(m.req, m), ReceiveAnswer(m)
  PROVE  CalmInv'
<1> DEFINE r == m.req
<1>1. Bears(m)
  BY DEF Bears
<1>2. PICK k, num, id, down, parts :
        /\ k = KeyOf(r) /\ num = m.num /\ id = mid + 1 /\ down = Down(r)
        /\ parts = FirstParts(k, run, num + 1)
  OBVIOUS
<1>3. /\ r \in Asked /\ r \in Request /\ k \in Key /\ num \in Nat
      /\ mid \in Nat /\ down \in Nat /\ run \in Nat \ {0} /\ num + 1 < down
  BY <1>1, <1>2, BearsRequest, IdsAre DEF Runs
<1>4. Live(r)
  BY <1>1 DEF CalmInv, AllPlaced, Placed
<1>5. PICK c, buffer : /\ c = ToServer(r, "block2", num + 1, FALSE, id)
                       /\ buffer = [mid |-> id, blocks |-> parts]
  OBVIOUS
<1>6. /\ mid' = id
      /\ cb' = [cb EXCEPT ![r].mid = id, ![r].open = TRUE]
      /\ creq' = IF m.b1 THEN [creq EXCEPT ![r] = None] ELSE creq
      /\ cres' = [cres EXCEPT ![r] = buffer]
      /\ Exchange(m, {c}) /\ UNCHANGED <<handed, asked, shared>>
      /\ UNCHANGED <<sreq, sres, served>>
  BY <1>2, <1>4, <1>5 DEF ReceiveAnswer, server
<1>7. /\ c.to = "server" /\ c.req = r /\ c.opt = "block2" /\ c.num = num + 1
      /\ c.mid = id /\ Bears(c) /\ ~Uploads(c)
  BY <1>5 DEF ToServer, Bears, Uploads
<1>8. net' = (net \ {m}) \cup {c}
  BY <1>6, CalmExchange
<1>9. /\ cb \in [Request -> Callbacks(mid)] /\ DOMAIN creq = Request
      /\ DOMAIN cres = Request
  BY DEF IInv, ClientInv
<1>10. \A o \in Request : Live(o)' = Live(o)
  <2>1. \A o \in Request \ {r} : cb'[o] = cb[o]
    BY <1>6, <1>9
  <2>2. cb'[r] = [cb[r] EXCEPT !.mid = id, !.open = TRUE]
    BY <1>3, <1>6, <1>9
  <2>3. cb[r] \in [state : {"live"}, mid : 1 .. mid, open : BOOLEAN]
    <3>1. cb[r] \in Callbacks(mid)
      BY <1>3, <1>9
    <3>2. cb[r] \notin {Callback("idle", 0), Callback("freed", 0)}
      BY <1>4 DEF Live, Callback
    <3> QED
      BY <3>1, <3>2 DEF Callbacks
  <2>4. cb'[r].state = cb[r].state
    BY <2>2, <2>3
  <2> QED
    BY <2>1, <2>4 DEF Live
<1>11. /\ cres'[r] = buffer /\ creq'[r] \in {creq[r], None}
       /\ \A o \in Request : o # r =>
            creq'[o] = creq[o] /\ cres'[o] = cres[o]
  BY <1>3, <1>6, <1>9
<1>12. KeyOf(r)' = k /\ Down(r)' = down /\ Payload(r)' = Payload(r)
  BY <1>2, <1>6 DEF KeyOf, Up, Down, Payload
<1>13. buffer # None /\ buffer.mid = id /\ buffer.blocks = parts
  <2>1. id \in Nat /\ num + 1 \in Nat
    BY <1>2, <1>3
  <2>2. parts \in Seq(Parts)
    BY <1>2, <1>3, <2>1, FirstPartsIs
  <2>3. buffer \in [mid : Nat, blocks : Seq(Parts)]
    BY <1>5, <2>1, <2>2
  <2> QED
    BY <1>5, <2>3, NoneAssumption
<1>14. Placed(c)'
  <2>1. /\ served[k][run] = Payload(r) /\ sreq[k] = None
        /\ sres[k] = <<[run |-> run, size |-> down, next |-> num + 1]>>
    BY <1>2, <1>3 DEF HasParts
  <2>2. num + 1 # 0
    BY <1>3
  <2>3. HasParts(r, run, num + 1, num + 1)'
    BY <1>2, <1>3, <1>6, <1>11, <1>12, <1>13, <2>1, <2>2 DEF HasParts
  <2>4. run \in Runs(r)'
    BY <1>2, <1>6, <1>12 DEF Runs
  <2>5. num + 1 \in 1 .. down - 1
    BY <1>3
  <2>6. Block2Place(c)'
    BY <1>7, <1>11, <1>12, <1>13, <2>3, <2>4, <2>5 DEF Block2Place
  <2> QED
    BY <1>3, <1>4, <1>7, <1>10, <2>6 DEF Placed
<1>15. cres'[r].mid = mid + 1
  BY <1>2, <1>11, <1>13
<1>16. Exact(r)'
  BY <1>3, <1>6, ExactStays DEF CalmInv, AllExact
<1>17. /\ \A j \in Key : j # KeyOf(r) =>
            sreq'[j] = sreq[j] /\ sres'[j] = sres[j] /\ served'[j] = served[j]
       /\ \A j \in Key : \A n \in DOMAIN served[j] :
            n \in DOMAIN served'[j] /\ served'[j][n] = served[j][n]
       /\ \A o \in Request : o # r =>
            /\ creq'[o] = creq[o] /\ cres'[o] = cres[o]
            /\ Live(o)' = Live(o) /\ handed'[o] = handed[o]
       /\ asked' = asked /\ mid' \in Nat /\ mid <= mid'
  BY <1>2, <1>3, <1>6, <1>10, <1>11
<1> QED
  BY <1>1, <1>6, <1>7, <1>8, <1>14, <1>15, <1>16, <1>17, TurnOne

LEMMA CalmAnswer ==
  ASSUME IInv, CalmInv, copies = 0, copies' = 0, NEW m \in net,
         Lone(m.req), m.to = "client", ReceiveAnswer(m)
  PROVE  CalmInv'
<1> DEFINE r == m.req
           p == Received(r, m)
<1>1. m.kind \in {"ok", "error"} /\ Bears(m)
  BY DEF ReceiveAnswer, Bears
<1>2. Live(r)
  BY <1>1 DEF CalmInv, AllPlaced, Placed
<1>3. UNCHANGED server /\ asked' = asked /\ shared' = shared
  BY DEF ReceiveAnswer
<1>4. ~AsksNext(r, m) =>
        /\ HandOver(r, m.kind, IF m.kind = "error" \/ p = None THEN << >> ELSE p)
        /\ Exchange(m, {}) /\ mid' = mid
  BY <1>2 DEF ReceiveAnswer
<1>5. CASE m.kind = "error"
  <2>1. HandOver(r, "error", << >>) /\ Exchange(m, {}) /\ mid' = mid
    BY <1>4, <1>5 DEF AsksNext
  <2>2. Idle(KeyOf(r))
    BY <1>1, <1>5 DEF CalmInv, AllPlaced, Placed
  <2> QED
    BY <1>1, <1>3, <2>1, <2>2, CalmHandOver
<1>6. CASE m.kind = "ok"
  <2>1. AnswerPlace(m)
    BY <1>1, <1>6 DEF CalmInv, AllPlaced, Placed
  <2>2. PICK run \in Runs(r) :
          /\ HasParts(r, run, m.num, m.num + 1)
          /\ IF Down(r) = 0 THEN m.num = 0 /\ m.part = None
             ELSE m.num < Down(r) /\ m.part = Part(KeyOf(r), run, m.num)
    BY <2>1 DEF AnswerPlace
  <2>3. /\ m.num \in Nat /\ Down(r) \in Nat /\ KeyOf(r) \in Key
        /\ run \in Nat \ {0} /\ (m.more <=> m.num + 1 < Down(r))
    BY <1>1, <2>1, BearsRequest DEF AnswerPlace, Runs
  <2>4. run \in DOMAIN served[KeyOf(r)] /\ served[KeyOf(r)][run] = Payload(r)
    <3>1. served[KeyOf(r)] \in Seq(Payloads(KeyOf(r)))
      BY <2>3 DEF IInv, ServedInv
    <3> QED
      BY <2>2, <3>1 DEF Runs, HasParts
  <2>5. m.num + 1 >= Down(r) => Idle(KeyOf(r))
    BY <2>2, <2>3 DEF HasParts, Idle
  <2>6. CASE Down(r) = 0
    <3>1. p = None
      BY <2>2, <2>6 DEF Received
    <3>2. HandOver(r, "ok", << >>) /\ Exchange(m, {}) /\ mid' = mid
      BY <1>4, <1>6, <3>1 DEF AsksNext
    <3>3. PICK payload : payload = << >>
      OBVIOUS
    <3>4. /\ Len(payload) = Down(r)
          /\ \A i \in 1 .. Down(r) : payload[i] = Part(KeyOf(r), run, i - 1)
      BY <2>6, <3>3
    <3>5. Idle(KeyOf(r))
      BY <2>3, <2>5, <2>6
    <3> QED
      BY <1>1, <1>3, <2>4, <3>2, <3>3, <3>4, <3>5, CalmHandOver
  <2>7. CASE Down(r) # 0
    <3>1. p = FirstParts(KeyOf(r), run, m.num + 1) /\ p # None
      BY <1>1, <2>2, <2>7, CalmReceived
    <3>2. AsksNext(r, m) <=> m.num + 1 < Down(r)
      BY <1>6, <2>3, <3>1 DEF AsksNext
    <3>3. CASE m.num + 1 < Down(r)
      BY <1>6, <2>2, <3>1, <3>2, <3>3, CalmFetch
    <3>4. CASE ~(m.num + 1 < Down(r))
      <4>1. PICK payload : payload = FirstParts(KeyOf(r), run, Down(r))
        OBVIOUS
      <4>2. m.num + 1 = Down(r)
        BY <2>2, <2>3, <2>7, <3>4
      <4>3. HandOver(r, "ok", payload) /\ Exchange(m, {}) /\ mid' = mid
        BY <1>4, <1>6, <3>1, <3>2, <3>4, <4>1, <4>2
      <4>4. /\ Len(payload) = Down(r)
            /\ \A i \in 1 .. Down(r) : payload[i] = Part(KeyOf(r), run, i - 1)
        BY <2>3, <4>1, FirstPartsIs
      <4>5. Idle(KeyOf(r))
        BY <2>3, <2>5, <3>4
      <4> QED
        BY <1>1, <1>3, <2>4, <4>3, <4>4, <4>5, CalmHandOver
    <3> QED
      BY <3>3, <3>4
  <2> QED
    BY <2>6, <2>7
<1> QED
  BY <1>1, <1>5, <1>6

LEMMA CalmClient ==
  ASSUME IInv, CalmInv, copies = 0, copies' = 0, NEW m \in net,
         ClientReceives(m)
  PROVE  CalmInv'
<1>1. m.to = "client" /\ shared' = shared
  BY SharedStays DEF ClientReceives
<1>2. CASE ReceiveAck(m)
  <2>1. ~Bears(m)
    BY <1>1, <1>2 DEF Bears, ReceiveAck
  <2>2. UNCHANGED <<sreq, sres, served>>
    BY <1>2 DEF ReceiveAck, server
  <2> QED
    BY <1>2, <2>1, <2>2, CalmEmpty DEF ReceiveAck
<1>3. CASE ReceiveReset(m)
  <2>1. ~Bears(m)
    BY <1>1, <1>3 DEF Bears, ReceiveReset
  <2> QED
    BY <1>3, <2>1, CalmReset
<1>4. CASE ReceiveContinue(m) \/ ReceiveAnswer(m)
  <2>1. m.req \in Asked
    BY <1>1, <1>4, BearsRequest DEF Bears, ReceiveContinue, ReceiveAnswer
  <2>2. CASE ~Lone(m.req)
    BY <1>1, <1>4, <2>1, <2>2, ContinueHandles, AnswerHandles, HandlesAside
  <2>3. CASE Lone(m.req)
    BY <1>1, <1>4, <2>3, CalmContinue, CalmAnswer
  <2> QED
    BY <2>2, <2>3
<1> QED
  BY <1>2, <1>3, <1>4 DEF ClientReceives

\* A request is issued while nothing is kept for its key, or its key becomes
\* a shared one.
LEMMA CalmStart ==
  ASSUME IInv, CalmInv, NEW kind \in Kind, Start(kind)
  PROVE  CalmInv'
<1>1. PICK r, k, id, c :
        /\ r = Len(asked) + 1 /\ k = kind.key /\ id = mid + 1
        /\ c = IF kind.up > 1 THEN ToServer(r, "block1", 0, TRUE, id)
               ELSE ToServer(r, "plain", 0, FALSE, id)
  OBVIOUS
<1>2. /\ r \in Request /\ mid' = id
      /\ shared \subseteq shared'
      /\ k \notin shared' => \A o \in DOMAIN asked : KeyOf(o) = k => ~Live(o)
      /\ asked' = Append(asked, kind)
      /\ net' = net \cup {c}
      /\ cb' = [cb EXCEPT ![r] = [state |-> "live", mid |-> id,
                                  open |-> kind.up > 1 \/ kind.con]]
      /\ creq' = IF kind.up > 1 THEN [creq EXCEPT ![r] = id] ELSE creq
      /\ UNCHANGED <<cres, handed, sreq, sres, served>>
  BY <1>1 DEF Start, server
<1>3. /\ asked \in Seq(Kind) /\ Len(asked) \in Nat /\ mid \in Nat /\ id \in Nat
      /\ DOMAIN asked = Asked /\ r \notin Asked /\ Asked' = Asked \cup {r}
      /\ asked'[r] = kind /\ \A o \in Asked : asked'[o] = asked[o]
      /\ Asked \subseteq Request
  <2>1. asked \in Seq(Kind) /\ Len(asked) \in Nat /\ mid \in Nat
    BY IdsAre DEF IInv, CountersInv
  <2>2. Len(asked') = r /\ asked'[r] = kind
        /\ \A o \in 1 .. Len(asked) : asked'[o] = asked[o]
    BY <1>1, <1>2, <2>1
  <2>3. Asked' = Asked \cup {r} /\ r \notin Asked
    BY <1>1, <2>1, <2>2 DEF Asked
  <2>4. DOMAIN asked = Asked /\ Asked \subseteq Request
    BY DomainIsAsked, RequestIs DEF IInv
  <2> QED
    BY <1>1, <2>1, <2>2, <2>3, <2>4 DEF Asked
<1>4. /\ k \in Key /\ KeyOf(r)' = k
      /\ \A o \in Asked : KeyOf(o)' = KeyOf(o) /\ KeyOf(o) \in Key
  BY <1>1, <1>3, KindIs, KindAssumption DEF KeyOf
<1>5. /\ DOMAIN cb = Request /\ DOMAIN creq = Request
      /\ creq[r] = None /\ cres[r] = None /\ handed[r] = None
  BY <1>2, <1>3, EntryIs DEF IInv, ClientInv
<1>6. /\ Live(r)'
      /\ \A o \in Request : o # r => Live(o)' = Live(o) /\ creq'[o] = creq[o]
      /\ creq'[r] = IF kind.up > 1 THEN id ELSE None
  BY <1>2, <1>5 DEF Live
<1>7. /\ k \notin shared' => Idle(k)
      /\ Lone(r)' <=> k \notin shared'
      /\ \A o \in Asked : Lone(o)' => Lone(o)
  <2>1. k \notin shared' => Idle(k)
    BY <1>2, <1>3, <1>4 DEF CalmInv, UnusedIsIdle
  <2> QED
    BY <1>2, <1>4, <2>1 DEF Lone
<1>8. \A j : Idle(j)' = Idle(j)
  BY <1>2 DEF Idle
<1>9. /\ c.to = "server" /\ c.req = r /\ c.num = 0 /\ c.mid = id /\ Bears(c)
      /\ c.opt = IF kind.up > 1 THEN "block1" ELSE "plain"
  <2>1. CASE kind.up > 1
    BY <1>1, <2>1 DEF ToServer, Bears
  <2>2. CASE ~(kind.up > 1)
    BY <1>1, <2>2 DEF ToServer, Bears
  <2> QED
    BY <2>1, <2>2
<1>10. \A x \in net : Bears(x) => x.req \in Asked /\ x.req # r
  BY <1>3, BearsRequest
<1>11. \A x : Uploads(x) => Bears(x)
  BY DEF Uploads, Bears
<1>12. OneMessage'
  BY <1>2, <1>7, <1>9, <1>10 DEF CalmInv, OneMessage
<1>13. AllPlaced'
  <2>1. ASSUME NEW x \in net, Bears(x), Lone(x.req)'
        PROVE  Placed(x)'
    <3>1. Placed(x) /\ x.req \in Request /\ x.req \in Asked /\ x.req # r
      BY <1>3, <1>7, <1>10, <2>1 DEF CalmInv, AllPlaced
    <3> QED
      BY <1>2, <1>3, <1>6, <3>1, PlacedStays
  <2>2. Lone(r)' => HasBlocks(r, 0)'
    BY <1>2, <1>4, <1>5, <1>7 DEF HasBlocks, Idle
  <2>3. ASSUME Lone(r)'
        PROVE  Placed(c)'
    <3>1. CASE kind.up > 1
      <4>1. Block1Place(c)'
        BY <1>6, <1>9, <2>2, <2>3, <3>1 DEF Block1Place
      <4> QED
        BY <1>6, <1>9, <3>1, <4>1 DEF Placed
    <3>2. CASE ~(kind.up > 1)
      <4>1. PlainPlace(c)'
        BY <1>9, <2>2, <2>3 DEF PlainPlace
      <4> QED
        BY <1>6, <1>9, <3>2, <4>1 DEF Placed
    <3> QED
      BY <3>1, <3>2
  <2> QED
    BY <1>2, <1>9, <2>1, <2>3 DEF AllPlaced
<1>14. AcksOK'
  <2> SUFFICES ASSUME NEW x \in net, ~Bears(x)
               PROVE  AckOK(x)'
    BY <1>2, <1>9 DEF AcksOK
  <2>1. AckOK(x)
    BY DEF CalmInv, AcksOK
  <2>2. x.mid \in 1 .. mid' /\ x.mid # id
    BY <1>1, <1>2, <1>3, <2>1 DEF AckOK
  <2>3. ASSUME NEW b \in net', Uploads(b), Lone(b.req)'
        PROVE  creq'[b.req] # x.mid
    <3>1. CASE b = c
      <4>1. kind.up > 1
        BY <1>9, <2>3, <3>1 DEF Uploads
      <4> QED
        BY <1>6, <1>9, <2>2, <3>1, <4>1
    <3>2. CASE b \in net
      BY <1>3, <1>6, <1>7, <1>10, <1>11, <2>1, <2>3, <3>2 DEF AckOK
    <3> QED
      BY <1>2, <3>1, <3>2
  <2>4. ASSUME x.kind = "rst", NEW o \in Asked', Lone(o)', cres'[o] # None
        PROVE  cres'[o].mid # x.mid
    <3>1. o \in Asked /\ Lone(o) /\ cres'[o] = cres[o]
      BY <1>2, <1>3, <1>5, <1>7, <2>4
    <3> QED
      BY <2>1, <2>4, <3>1 DEF AckOK
  <2> QED
    BY <2>1, <2>2, <2>3, <2>4 DEF AckOK
<1>15. KeysApart'
  <2>1. ASSUME NEW a \in Asked', NEW b \in Asked', Lone(a)', Live(a)', Live(b)',
               KeyOf(a)' = KeyOf(b)'
        PROVE  a = b
    <3>1. CASE a \in Asked /\ b \in Asked
      BY <1>3, <1>4, <1>6, <1>7, <2>1, <3>1 DEF CalmInv, KeysApart
    <3>2. CASE a = r \/ b = r
      <4>1. KeyOf(a)' = k /\ KeyOf(b)' = k /\ k \notin shared'
        BY <1>4, <2>1, <3>2 DEF Lone
      <4>2. \A o \in Asked : KeyOf(o) = k => ~Live(o)
        BY <1>2, <1>3, <4>1
      <4> QED
        BY <1>3, <1>4, <1>6, <2>1, <3>2, <4>1, <4>2
    <3> QED
      BY <1>3, <3>1, <3>2
  <2> QED
    BY <2>1 DEF KeysApart
<1>16. UnusedIsIdle'
  <2> SUFFICES ASSUME NEW j \in Key \ shared', ~Idle(j)
               PROVE  \E o \in Asked' : Live(o)' /\ KeyOf(o)' = j
    BY <1>8 DEF UnusedIsIdle
  <2>1. PICK o \in Asked : Live(o) /\ KeyOf(o) = j
    BY <1>2 DEF CalmInv, UnusedIsIdle
  <2> QED
    BY <1>3, <1>4, <1>6, <2>1
<1>18. AllExact'
  <2> SUFFICES ASSUME NEW o \in Asked', Lone(o)'
               PROVE  Exact(o)'
    BY DEF AllExact
  <2>1. CASE o \in Asked
    BY <1>2, <1>3, <1>7, <2>1, ExactStays DEF CalmInv, AllExact
  <2>2. CASE o = r
    BY <1>2, <1>5, <2>2 DEF Exact
  <2> QED
    BY <1>3, <2>1, <2>2
<1> QED
  BY <1>12, <1>13, <1>14, <1>15, <1>16, <1>18 DEF CalmInv

-----------------------------------------------------------------------------
(* Every undisturbed behaviour.                                            *)

LEMMA CalmInit ==
  ASSUME Init
  PROVE  UndisturbedInv
<1>1. OneMessage /\ AllPlaced /\ AcksOK
  BY DEF Init, OneMessage, AllPlaced, AcksOK
<1>2. KeysApart /\ UnusedIsIdle /\ AllExact
  <2>1. Asked = {}
    BY DEF Init, Asked
  <2> QED
    BY <2>1 DEF Init, KeysApart, UnusedIsIdle, Idle, AllExact
<1> QED
  BY <1>1, <1>2 DEF UndisturbedInv, CalmInv

\* What was received once more is never forgotten.
LEMMA ExchangeCounts ==
  ASSUME copies \in Nat, copies' = 0, NEW m, NEW new, Exchange(m, new)
  PROVE  copies = 0
  BY DEF Exchange

LEMMA ReceivingCounts ==
  ASSUME copies \in Nat, copies' = 0, NEW m,
         ServerReceives(m) \/ ClientReceives(m)
  PROVE  copies = 0
<1>1. CASE Regular(m)
  BY <1>1, ExchangeCounts DEF Regular, Invoke
<1>2. CASE DropRepeated(m)
  BY <1>2 DEF DropRepeated
<1>3. CASE Block1(m)
  BY <1>3, ExchangeCounts DEF Block1, Invoke
<1>4. CASE Block2(m)
  BY <1>4, ExchangeCounts DEF Block2
<1>5. CASE ReceiveAck(m)
  BY <1>5, ExchangeCounts DEF ReceiveAck
<1>6. CASE ReceiveReset(m)
  BY <1>6, ExchangeCounts DEF ReceiveReset
<1>7. CASE ReceiveContinue(m)
  BY <1>7, ExchangeCounts DEF ReceiveContinue
<1>8. CASE ReceiveAnswer(m)
  BY <1>8, ExchangeCounts DEF ReceiveAnswer
<1> QED
  BY <1>1, <1>2, <1>3, <1>4, <1>5, <1>6, <1>7, <1>8
  DEF ServerReceives, ClientReceives

LEMMA CalmNext ==
  ASSUME IInv, OwnedInv, UndisturbedInv, [Next]_vars
  PROVE  UndisturbedInv'
<1> SUFFICES ASSUME Undisturbed'
             PROVE  CalmInv'
  BY DEF UndisturbedInv
<1>1. copies' = 0 /\ ~expired' /\ copies \in Nat
  BY BoundsAssumption DEF Undisturbed, IInv, CountersInv
<1>2. ASSUME NEW kind \in Kind, Start(kind)
      PROVE  CalmInv'
  <2>1. CalmInv
    BY <1>1, <1>2 DEF Start, UndisturbedInv, Undisturbed
  <2> QED
    BY <1>2, <2>1, CalmStart
<1>3. ASSUME NEW m \in net, ServerReceives(m) \/ ClientReceives(m)
      PROVE  CalmInv'
  <2>1. copies = 0
    BY <1>1, <1>3, ReceivingCounts
  <2>2. ~expired
    BY <1>1, <1>3 DEF ServerReceives, ClientReceives
  <2>3. CalmInv
    BY <2>1, <2>2 DEF UndisturbedInv, Undisturbed
  <2> QED
    BY <1>1, <1>3, <2>1, <2>3, CalmServer, CalmClient
<1>4. ~Timer
  BY <1>1
  DEF Timer, RequestBufferExpires, ResponseBufferExpires, GiveUp, ExchangeEnds
<1>5. CASE UNCHANGED vars
  <2>1. /\ UNCHANGED <<net, copies, expired, sreq, sres, served>>
        /\ UNCHANGED client
    BY <1>5 DEF vars, server
  <2>2. CalmInv
    BY <1>1, <2>1 DEF UndisturbedInv, Undisturbed
  <2> QED
    BY <2>1, <2>2, CalmLess
<1> QED
  BY <1>2, <1>3, <1>4, <1>5 DEF Next

\* If nothing is received twice and nothing times out, then for any numbers of
\* requests and blocks and any order of arrival the handler of the server is
\* called with the payload of a request, and the client hands over all of the
\* answer to that very call: for each request with a key of which no two
\* requests have been under way at a time, whatever requests with other keys
\* do, those that overlap and are mixed by coap_receive_blockwise_block1 and
\* coap_receive_blockwise_block2 among them.
THEOREM UndisturbedStaysExact == Spec => []UndisturbedIsExact
<1>1. Init => UndisturbedInv
  BY CalmInit
<1>2. IInv /\ OwnedInv /\ UndisturbedInv /\ [Next]_vars => UndisturbedInv'
  BY CalmNext
<1>3. IInv /\ UndisturbedInv => UndisturbedIsExact
  <2> SUFFICES ASSUME IInv, UndisturbedInv
               PROVE  UndisturbedIsExact
    OBVIOUS
  <2>1. DOMAIN asked = Asked
    BY DomainIsAsked DEF IInv
  <2> QED
    BY <2>1 DEF UndisturbedInv, Undisturbed, CalmInv, AllExact, Exact, Lone,
      UndisturbedIsExact
<1> QED
  BY <1>1, <1>2, <1>3, Invariance, OwnedInvariance, PTL DEF Spec
=============================================================================
