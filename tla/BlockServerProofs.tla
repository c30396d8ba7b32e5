------------------------- MODULE BlockServerProofs -------------------------
(***************************************************************************)
(* Proofs about module BlockServer: what travels between requester,        *)
(* provider and server is right for every file, every size of a request    *)
(* and every number of addresses, datagrams and faults.                    *)
(***************************************************************************)
EXTENDS BlockServer, TLAPS

-----------------------------------------------------------------------------
(* The request in hand came to the provider itself, so that its source is  *)
(* the requester or, if it is relayed, the server; and this is where the   *)
(* socket points unless another thread wrote to it.                        *)
Handled ==
    serving # None => /\ serving \in Request /\ serving.to \in Providers
                      /\ diverted = 0 => peer = serving.from

ServingInv == TypeOK /\ OnlyToWhoAsked /\ Handled

IsRequest(m) == m.kind \in {"get", "get2"}

(* What a request and an answer are made of. *)
LEMMA RequestParts ==
    ASSUME NEW m \in Request
    PROVE  /\ IsRequest(m) /\ m # None
           /\ m.blocks \in Batch /\ m.blocks \subseteq Block /\ m.blocks # {}
           /\ m.from \in Address /\ m.to \in Address
           /\ m.to \in Providers =>
                 \/ m.kind = "get" /\ m.from \in Requester /\ m.src = None
                 \/ m.kind = "get2" /\ m.from = Server /\ m.src \in Requester
           /\ m.to = Server => m.kind = "get2" /\ m.src \in Requester
  BY BlockServerDistinct DEF Request, Batch, IsRequest, Address

LEMMA AnswerParts ==
    ASSUME NEW m \in Answer
    PROVE  /\ ~IsRequest(m) /\ m.block \in Block /\ m.to \in Address
           /\ m.kind = "data2" => m.src \in Requester
           /\ m.kind \in {"data", "data2"}
  BY DEF Answer, IsRequest

(* Where the answer to a request in hand may go.                           *)
LEMMA Answered ==
    ASSUME NEW m \in Request, m.to \in Providers, NEW a \in Address, NEW b \in Block
    PROVE  LET d == [kind |-> IF m.kind = "get" THEN "data" ELSE "data2",
                     to |-> a, src |-> m.src, block |-> b]
           IN  /\ d \in Answer /\ d.to = a /\ d.block = b
               /\ a = m.from => \/ d.to \in Requester
                                \/ d.kind = "data2" /\ d.to = Server
<1>1. CASE m.kind = "get"
  BY <1>1, RequestParts DEF Answer
<1>2. CASE m.kind = "get2"
  BY <1>2, RequestParts DEF Answer
<1> QED BY <1>1, <1>2, RequestParts

-----------------------------------------------------------------------------
(* Initial states and steps.                                               *)

LEMMA InitServing == Init => ServingInv
<1> SUFFICES ASSUME Init PROVE ServingInv
  OBVIOUS
<1>1. <<"requester", 1>> \in Requester /\ <<"provider", 1>> \in Providers
  BY BlockServerAssumption DEF Requester, Providers
<1>2. TypeOK
  <2>1. 0 \in 0..MaxFaults
    BY BlockServerAssumption
  <2>2. /\ relayed = FALSE /\ src \in {None}
        /\ serving = None /\ left = {} /\ net = {} /\ got = {}
        /\ peer \in Address /\ diverted = 0 /\ faults = 0
    BY DEF Init, Address
  <2>3. /\ punched \in Providers /\ pNat \in Providers /\ dir \in Providers
        /\ rNat \in Requester /\ rKnown \in Requester
    BY <1>1, Zenon DEF Init
  <2> QED BY <2>1, <2>2, <2>3 DEF TypeOK
<1> QED BY <1>2 DEF Init, ServingInv, OnlyToWhoAsked, Handled, Requests

(* What the steps keep of the datagrams under way. *)
NetPart ==
    /\ net \subseteq Request \cup Answer
    /\ OnlyToWhoAsked

(* Fewer datagrams, or none that was not there, do no harm. *)
LEMMA FewerDatagrams ==
    ASSUME NetPart, net' \subseteq net, diverted' = 0 => diverted = 0
    PROVE  NetPart'
  BY DEF NetPart, OnlyToWhoAsked, Requests

(* One more is right if it is of its type and, as an answer, goes where it *)
(* should.                                                                 *)
LEMMA OneMoreDatagram ==
    ASSUME NetPart, NEW d, d \in Request \cup Answer,
           net' \subseteq net \cup {d}, diverted' = 0 => diverted = 0,
           \/ d \in Request
           \/ diverted' = 0 =>
                 \/ d.to \in Requester
                 \/ d.kind = "data2" /\ d.to = Server
    PROVE  NetPart'
<1>1. (net \subseteq Request \cup Answer)'
  BY DEF NetPart
<1>2. OnlyToWhoAsked'
  <2> SUFFICES ASSUME diverted' = 0, NEW m \in net', m \notin Requests'
               PROVE  m.to \in Requester
                        \cup IF m.kind = "data2" THEN {Server} ELSE {}
    BY DEF OnlyToWhoAsked
  <2>1. CASE m \in net
    BY <2>1 DEF NetPart, OnlyToWhoAsked, Requests
  <2>2. CASE m = d
    <3>1. d \notin Request
      BY <2>2, RequestParts DEF Requests, IsRequest
    <3> QED BY <2>2, <3>1
  <2> QED BY <2>1, <2>2
<1> QED BY <1>1, <1>2 DEF NetPart

OthersTyped ==
    /\ relayed \in BOOLEAN /\ src \in IF relayed THEN Requester ELSE {None}
    /\ punched \in Providers
    /\ got \subseteq Block
    /\ rNat \in Requester /\ rKnown \in Requester
    /\ pNat \in Providers /\ dir \in Providers \cup {None}
    /\ {diverted, faults} \subseteq 0..MaxFaults

ServerPart ==
    /\ serving \in Request \cup {None}
    /\ left \subseteq Block /\ (serving = None <=> left = {})
    /\ peer \in Address
    /\ Handled

LEMMA Parts ==
    /\ ServingInv => NetPart /\ OthersTyped /\ ServerPart
    /\ NetPart' /\ OthersTyped' /\ ServerPart' => ServingInv'
  BY DEF ServingInv, TypeOK, NetPart, OthersTyped, ServerPart

LEMMA Framed ==
    /\ OthersTyped /\ UNCHANGED <<senderVars, got, placeVars, diverted, faults>>
          => OthersTyped'
    /\ ServerPart /\ UNCHANGED providerVars => ServerPart'
    /\ NetPart /\ UNCHANGED <<net, diverted>> => NetPart'
  BY DEF OthersTyped, ServerPart, NetPart, OnlyToWhoAsked, Requests, Handled,
     senderVars, placeVars, providerVars

(* The requester. *)
LEMMA RequesterStep ==
    ASSUME ServingInv,
           \/ \E B \in Batch : Ask(B)
           \/ StartRelay
           \/ \E m \in net : ProcMsgFileBlockData(m)
    PROVE  ServingInv'
<1> USE Parts
<1>1. ASSUME NEW B \in Batch, Ask(B)
      PROVE  ServingInv'
  <2>1. OthersTyped' /\ ServerPart'
    BY <1>1, Framed DEF Ask, providerVars
  <2>2. PICK d \in Request : net' = net \cup {d}
    <3>1. CASE relayed
      BY <1>1, <3>1 DEF Ask, Request, OthersTyped
    <3>2. CASE ~relayed
      BY <1>1, <3>2 DEF Ask, Request, OthersTyped
    <3> QED BY <3>1, <3>2
  <2>3. NetPart'
    BY <1>1, <2>2, OneMoreDatagram DEF Ask, providerVars
  <2> QED BY <2>1, <2>3
<1>2. CASE StartRelay
  <2>1. ServerPart' /\ NetPart'
    BY <1>2, Framed DEF StartRelay, providerVars
  <2>2. OthersTyped'
    BY <1>2 DEF StartRelay, OthersTyped, placeVars, providerVars
  <2> QED BY <2>1, <2>2
<1>3. ASSUME NEW m \in net, ProcMsgFileBlockData(m)
      PROVE  ServingInv'
  <2>1. ServerPart'
    BY <1>3, Framed DEF ProcMsgFileBlockData
  <2>2. NetPart'
    BY <1>3, FewerDatagrams DEF ProcMsgFileBlockData, providerVars
  <2>3. m.block \in Block
    BY <1>3, RequestParts, AnswerParts
    DEF ProcMsgFileBlockData, NetPart, IsRequest
  <2>4. OthersTyped'
    BY <1>3, <2>3
    DEF ProcMsgFileBlockData, OthersTyped, senderVars, placeVars, providerVars
  <2> QED BY <2>1, <2>2, <2>4
<1> QED BY <1>1, <1>2, <1>3

(* The provider. *)
LEMMA ProviderStep ==
    ASSUME ServingInv,
           \/ \E m \in net : ProviderReads(m)
           \/ \E b \in Block : Serve(b)
           \/ \E a \in {Server, Other} : OtherWrite(a)
    PROVE  ServingInv'
<1> USE Parts
<1>1. ASSUME NEW m \in net, ProviderReads(m)
      PROVE  ServingInv'
  <2>1. OthersTyped'
    BY <1>1, Framed DEF ProviderReads
  <2>2. NetPart'
    BY <1>1, FewerDatagrams DEF ProviderReads
  <2>3. m \in Request /\ m.to \in Providers
    BY <1>1, AnswerParts DEF ProviderReads, NetPart, IsRequest, OthersTyped
  <2>4. ServerPart'
    BY <1>1, <2>3, RequestParts DEF ProviderReads, ServerPart, Handled
  <2> QED BY <2>1, <2>2, <2>4
<1>2. ASSUME NEW b \in Block, Serve(b)
      PROVE  ServingInv'
  <2>1. OthersTyped'
    BY <1>2, Framed DEF Serve
  <2>2. serving # None /\ serving \in Request /\ serving.to \in Providers
    BY <1>2 DEF Serve, ServerPart, Handled
  <2>3. ServerPart'
    BY <1>2, <2>2 DEF Serve, Served, ServerPart, Handled
  <2>4. NetPart'
    <3> DEFINE d == [kind |-> IF serving.kind = "get" THEN "data" ELSE "data2",
                     to |-> peer, src |-> serving.src, block |-> b]
    <3>1. d \in Answer /\ (peer = serving.from =>
                              \/ d.to \in Requester
                              \/ d.kind = "data2" /\ d.to = Server)
      BY <2>2, Answered DEF ServerPart
    <3>2. diverted = 0 => peer = serving.from
      BY <2>2 DEF ServerPart, Handled
    <3>3. net' \subseteq net \cup {d} /\ diverted' = diverted
      BY <1>2 DEF Serve
    <3> HIDE DEF d
    <3> QED BY <3>1, <3>2, <3>3, OneMoreDatagram
  <2> QED BY <2>1, <2>3, <2>4
<1>3. ASSUME NEW a \in {Server, Other}, OtherWrite(a)
      PROVE  ServingInv'
  <2>1. diverted' \in 0..MaxFaults /\ diverted' # 0
    BY <1>3, BlockServerAssumption DEF OtherWrite, MayFail, OthersTyped
  <2>2. OthersTyped'
    BY <1>3, <2>1 DEF OtherWrite, OthersTyped, senderVars, placeVars
  <2>3. NetPart'
    BY <1>3, <2>1, FewerDatagrams DEF OtherWrite
  <2>4. ServerPart'
    BY <1>3, <2>1 DEF OtherWrite, ServerPart, Handled, Address
  <2> QED BY <2>2, <2>3, <2>4
<1> QED BY <1>1, <1>2, <1>3

(* The server. *)
LEMMA ServerStep ==
    ASSUME ServingInv, NEW m \in net, ForwardRequest(m) \/ ForwardData(m)
    PROVE  ServingInv'
<1> USE Parts
<1>1. OthersTyped' /\ ServerPart' /\ diverted' = diverted
  BY Framed DEF ForwardRequest, ForwardData, providerVars
<1>2. CASE ForwardRequest(m)
  <2>1. m \in Request /\ m.to = Server
    BY <1>2, AnswerParts DEF ForwardRequest, NetPart, IsRequest
  <2>2. CASE dir = None
    BY <1>1, <1>2, <2>2, FewerDatagrams DEF ForwardRequest
  <2>3. CASE dir # None
    <3> DEFINE d == [m EXCEPT !.from = Server, !.to = dir]
    <3>1. d \in Request
      BY <2>1, <2>3, BlockServerDistinct DEF Request, OthersTyped
    <3>2. net' \subseteq net \cup {d}
      BY <1>2, <2>3 DEF ForwardRequest
    <3> HIDE DEF d
    <3> QED BY <1>1, <3>1, <3>2, OneMoreDatagram
  <2> QED BY <2>2, <2>3
<1>3. CASE ForwardData(m)
  <2> DEFINE d == [m EXCEPT !.to = m.src]
  <2>1. m \in Answer /\ m.kind = "data2"
    BY <1>3, RequestParts DEF ForwardData, NetPart, IsRequest
  <2>2. d \in Answer /\ d.to \in Requester
    BY <2>1 DEF Answer, Address
  <2>3. net' \subseteq net \cup {d}
    BY <1>3 DEF ForwardData
  <2> HIDE DEF d
  <2> QED BY <1>1, <2>2, <2>3, OneMoreDatagram
<1> QED BY <1>2, <1>3

(* Network, routers and logins. *)
LEMMA PlaceStep ==
    ASSUME ServingInv,
           \/ \E m \in net : Drop(m) \/ Lose(m)
           \/ MoveRequester \/ MoveProvider \/ Unlist
           \/ ProviderLogsIn \/ RequesterLogsIn
    PROVE  ServingInv'
<1> USE Parts
<1>1. ServerPart' /\ UNCHANGED <<senderVars, got, diverted>>
  BY Framed DEF Drop, Lose, MoveRequester, MoveProvider, Unlist, ProviderLogsIn,
     RequesterLogsIn, providerVars
<1>2. NetPart'
  BY <1>1, FewerDatagrams DEF Drop, Lose, MoveRequester, MoveProvider, Unlist,
     ProviderLogsIn, RequesterLogsIn
<1>3. faults' \in 0..MaxFaults
  BY BlockServerAssumption DEF Drop, Lose, MoveRequester, MoveProvider, Unlist,
     ProviderLogsIn, RequesterLogsIn, Fault, MayFail, OthersTyped
<1>4. rNat' \in Requester /\ pNat' \in Providers
  BY BlockServerAssumption DEF Drop, Lose, MoveRequester, MoveProvider, Unlist,
     ProviderLogsIn, RequesterLogsIn, OthersTyped, placeVars, Requester, Providers
<1>5. rKnown' \in Requester /\ dir' \in Providers \cup {None}
  BY DEF Drop, Lose, MoveRequester, MoveProvider, Unlist, ProviderLogsIn,
     RequesterLogsIn, OthersTyped, placeVars
<1>6. OthersTyped'
  BY <1>1, <1>3, <1>4, <1>5 DEF OthersTyped, senderVars
<1> QED BY <1>1, <1>2, <1>6

(* The invariant: whatever is lost, forwarded, diverted or moves.          *)
THEOREM ServingInvariant == Spec => []ServingInv
<1>1. ServingInv /\ [Next]_vars => ServingInv'
  <2> SUFFICES ASSUME ServingInv, [Next]_vars PROVE ServingInv'
    OBVIOUS
  <2>1. CASE UNCHANGED vars
    BY <2>1, Framed, Parts DEF vars, providerVars
  <2>2. CASE Next
    BY <2>2, RequesterStep, ProviderStep, ServerStep, PlaceStep DEF Next
  <2> QED BY <2>1, <2>2
<1> QED BY <1>1, InitServing, PTL DEF Spec

(* Type correctness for all files, requests, addresses and faults.         *)
THEOREM BlockServerTypeCorrect == Spec => []TypeOK
<1>1. ServingInv => TypeOK
  BY DEF ServingInv
<1> QED BY <1>1, ServingInvariant, PTL

(* While no other thread writes to the provider's socket, every answer is  *)
(* sent to whom its request came from, and forwarded to nobody else.       *)
THEOREM AnswersGoToWhoAsked == Spec => []OnlyToWhoAsked
<1>1. ServingInv => OnlyToWhoAsked
  BY DEF ServingInv
<1> QED BY <1>1, ServingInvariant, PTL

-----------------------------------------------------------------------------
(* What is under way, datagram by datagram.                                *)
Named(b, n) == \E m \in n : IsRequest(m) /\ b \in m.blocks
Carried(b, n) == \E m \in n : ~IsRequest(m) /\ m.block = b

LEMMA InUnderWay ==
    /\ \A b : b \in UnderWay <=>
          \/ b \in FileBlocks /\ (b \in left \/ Named(b, net))
          \/ Carried(b, net)
    /\ \A b : b \in UnderWay' <=>
          \/ b \in FileBlocks /\ (b \in left' \/ Named(b, net'))
          \/ Carried(b, net')
<1>1. \A b : b \in UNION {m.blocks : m \in Requests} <=> Named(b, net)
  BY DEF Requests, Named, IsRequest
<1>2. \A b : b \in UNION {m.blocks : m \in Requests'} <=> Named(b, net')
  BY DEF Requests, Named, IsRequest
<1>3. \A b : b \in {m.block : m \in net \ Requests} <=> Carried(b, net)
  BY DEF Requests, Carried, IsRequest
<1>4. \A b : b \in {m.block : m \in net' \ Requests'} <=> Carried(b, net')
  BY DEF Requests, Carried, IsRequest
<1> QED BY <1>1, <1>2, <1>3, <1>4 DEF UnderWay

(* Nothing comes under way when datagrams go.                              *)
LEMMA LessUnderWay ==
    ASSUME net' \subseteq net, left' \subseteq left
    PROVE  UnderWay' \subseteq UnderWay
  BY InUnderWay DEF Named, Carried

(* What arrives was under way, and only a request puts more there.         *)
LEMMA WayStep ==
    ASSUME ServingInv, Next
    PROVE  /\ got' \ got \subseteq UnderWay
           /\ \/ UnderWay' \subseteq UnderWay
              \/ \E B \in Batch : Ask(B) /\ UnderWay' \subseteq UnderWay \cup B
<1> DEFINE Goal == /\ got' \ got \subseteq UnderWay
                   /\ \/ UnderWay' \subseteq UnderWay
                      \/ \E B \in Batch : Ask(B) /\ UnderWay' \subseteq UnderWay \cup B
<1> USE Parts
<1>1. ASSUME NEW B \in Batch, Ask(B)
      PROVE  Goal
  <2>1. PICK d : net' = net \cup {d} /\ IsRequest(d) /\ d.blocks = B
    <3>1. CASE relayed
      <4> DEFINE e == [kind |-> "get2", from |-> rNat, to |-> Server, src |-> src,
                       blocks |-> B]
      <4>1. net' = net \cup {e}
        BY <1>1, <3>1 DEF Ask
      <4>2. IsRequest(e) /\ e.blocks = B
        BY DEF IsRequest
      <4> QED BY Zenon, <4>1, <4>2
    <3>2. CASE ~relayed
      <4> DEFINE e == [kind |-> "get", from |-> rNat, to |-> punched,
                       src |-> None, blocks |-> B]
      <4>1. net' = net \cup {e}
        BY <1>1, <3>2 DEF Ask
      <4>2. IsRequest(e) /\ e.blocks = B
        BY DEF IsRequest
      <4> QED BY Zenon, <4>1, <4>2
    <3> QED BY <3>1, <3>2
  <2>2. UnderWay' \subseteq UnderWay \cup B
    BY <1>1, <2>1, InUnderWay DEF Ask, Named, Carried, providerVars
  <2>3. got' = got
    BY <1>1 DEF Ask
  <2> QED BY <1>1, <2>2, <2>3
<1>2. ASSUME NEW m \in net, ProcMsgFileBlockData(m)
      PROVE  Goal
  <2>1. Carried(m.block, net)
    BY <1>2 DEF ProcMsgFileBlockData, Carried, IsRequest
  <2>2. UnderWay' \subseteq UnderWay
    BY <1>2, LessUnderWay DEF ProcMsgFileBlockData, providerVars
  <2> QED BY <1>2, <2>1, <2>2, InUnderWay DEF ProcMsgFileBlockData
<1>3. ASSUME NEW m \in net, ProviderReads(m)
      PROVE  Goal
  <2>1. \A b \in left' : Named(b, net)
    BY <1>3 DEF ProviderReads, Named, IsRequest
  <2>2. UnderWay' \subseteq UnderWay
    BY <1>3, <2>1, InUnderWay DEF ProviderReads, Named, Carried
  <2> QED BY <1>3, <2>2 DEF ProviderReads
<1>4. ASSUME NEW b \in Block, Serve(b)
      PROVE  Goal
  <2>1. left' \subseteq left /\ b \in left
    BY <1>4 DEF Serve, Served
  <2>2. CASE b \notin FileBlocks
    BY <1>4, <2>1, <2>2, LessUnderWay DEF Serve
  <2>3. CASE b \in FileBlocks
    <3>1. PICK d : net' = net \cup {d} /\ ~IsRequest(d) /\ d.block = b
      <4> DEFINE e == [kind |-> IF serving.kind = "get" THEN "data" ELSE "data2",
                       to |-> peer, src |-> serving.src, block |-> b]
      <4>1. net' = net \cup {e}
        BY <1>4, <2>3 DEF Serve
      <4>2. ~IsRequest(e) /\ e.block = b
        BY DEF IsRequest
      <4> QED BY Zenon, <4>1, <4>2
    <3>2. UnderWay' \subseteq UnderWay
      BY <2>1, <2>3, <3>1, InUnderWay DEF Named, Carried
    <3> QED BY <1>4, <3>2 DEF Serve
  <2> QED BY <2>2, <2>3
<1>5. ASSUME NEW m \in net, ForwardRequest(m) \/ ForwardData(m)
      PROVE  Goal
  <2>1. left' = left /\ got' = got
    BY <1>5 DEF ForwardRequest, ForwardData, providerVars
  <2>2. m \in Request \cup Answer
    BY DEF NetPart
  <2>3. CASE net' \subseteq net
    BY <2>1, <2>3, LessUnderWay
  <2>4. CASE ForwardRequest(m) /\ dir # None
    <3>1. m \in Request /\ IsRequest(m)
      BY <2>2, <2>4, AnswerParts DEF ForwardRequest, IsRequest
    <3>2. PICK d : net' \subseteq net \cup {d} /\ IsRequest(d) /\ d.blocks = m.blocks
      <4>1. net' \subseteq net \cup {[m EXCEPT !.from = Server, !.to = dir]}
        BY <2>4 DEF ForwardRequest
      <4>2. /\ IsRequest([m EXCEPT !.from = Server, !.to = dir])
            /\ [m EXCEPT !.from = Server, !.to = dir].blocks = m.blocks
        BY <3>1 DEF IsRequest, Request
      <4> QED BY <4>1, <4>2
    <3>3. UnderWay' \subseteq UnderWay
      BY <2>1, <3>1, <3>2, InUnderWay DEF Named, Carried
    <3> QED BY <2>1, <3>3
  <2>5. CASE ForwardData(m)
    <3>1. m \in Answer /\ ~IsRequest(m)
      BY <2>2, <2>5, RequestParts, AnswerParts DEF ForwardData, IsRequest
    <3>2. PICK d : net' \subseteq net \cup {d} /\ ~IsRequest(d) /\ d.block = m.block
      <4>1. net' \subseteq net \cup {[m EXCEPT !.to = m.src]}
        BY <2>5 DEF ForwardData
      <4>2. /\ ~IsRequest([m EXCEPT !.to = m.src])
            /\ [m EXCEPT !.to = m.src].block = m.block
        BY <3>1 DEF IsRequest, Answer
      <4> QED BY <4>1, <4>2
    <3>3. UnderWay' \subseteq UnderWay
      BY <2>1, <3>1, <3>2, InUnderWay DEF Named, Carried
    <3> QED BY <2>1, <3>3
  <2> QED BY <1>5, <2>3, <2>4, <2>5 DEF ForwardRequest
<1>6. CASE \/ StartRelay \/ \E a \in {Server, Other} : OtherWrite(a)
           \/ \E m \in net : Drop(m) \/ Lose(m)
           \/ MoveRequester \/ MoveProvider \/ Unlist
           \/ ProviderLogsIn \/ RequesterLogsIn
  <2>1. net' \subseteq net /\ left' = left /\ got' = got
    BY <1>6 DEF StartRelay, OtherWrite, Drop, Lose, MoveRequester, MoveProvider,
       Unlist, ProviderLogsIn, RequesterLogsIn, providerVars
  <2> QED BY <2>1, LessUnderWay
<1> QED BY <1>1, <1>2, <1>3, <1>4, <1>5, <1>6 DEF Next

(* What Downloader takes for granted of the way to a provider and back     *)
(* holds of the messages the three programs exchange: data goes round only *)
(* for blocks of the file that were asked for.                             *)
THEOREM DataComesOfRequests == Spec => BlocksComeOfRequests
<1>1. ServingInv /\ [Next]_vars =>
        [/\ got' \ got \subseteq UnderWay
         /\ UnderWay' \subseteq UnderWay
            \/ \E B \in Batch : Ask(B) /\ UnderWay' \subseteq UnderWay \cup B]_vars
  BY WayStep
<1> QED BY <1>1, ServingInvariant, PTL DEF Spec, BlocksComeOfRequests
=============================================================================
