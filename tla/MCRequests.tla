----------------------------- MODULE MCRequests -----------------------------
(***************************************************************************)
(* What a request is made of and goes through, in one run: the layers of   *)
(* Gateway, the adapters, the events of a realtime session, and plans over *)
(* a memory.  They share nothing: part says which one runs, while the      *)
(* others rest.                                                            *)
(***************************************************************************)
EXTENDS MCGateway

CONSTANTS Exchanges, Sessions, Callers, maxVideoFrames, Cap, Plans
VARIABLES
  part,
  exchange, said, acc, answer, meta, ending,
  rt, server, lastSeq, func, frames, over, session, pending, shot, sends, sender, wire, film,
  planned, recs, seq, writes, order, shots, ingest, tgt, done, results, main

adapters == <<exchange, said, acc, answer, meta, ending>>
events == <<rt, server, lastSeq, func, frames, over, session, pending, shot, sends, sender, wire, film>>
plans == <<planned, recs, seq, writes, order, shots, ingest, tgt, done, results, main>>

Adapters == INSTANCE Adapters WITH Setups <- Exchanges, setup <- exchange, frames <- answer, over <- ending
Events == INSTANCE RealtimeEvents WITH Setups <- Sessions, setup <- rt
Memory == INSTANCE MemoryPlan WITH Setups <- Plans, setup <- planned, shot <- shots

\* What the other MC modules have for them.
OfAdapters == INSTANCE MCAdapters WITH Setups <- {}, setup <- exchange, frames <- answer, over <- ending
OfEvents == INSTANCE MCRealtimeEvents WITH Setups <- {}, setup <- rt
OfMemory == INSTANCE MCMemoryPlan WITH Setups <- {}, setup <- planned, shot <- shots

AllExchanges == OfAdapters!MCSetups
AllSessions == OfEvents!MCSetups
AllPlans == OfMemory!AllSetups

\* What the others are at meanwhile.
GatewayRests == setup = Quiet /\ Init
AdaptersRest == exchange = [OfAdapters!Reply EXCEPT !.req.reasoning = TRUE, !.req.msgs = <<>>] /\ Adapters!Init
EventsRest == rt = OfEvents!Plain /\ Events!Init
MemoryRests == planned = OfMemory!Idle /\ Memory!Init

EachInit ==
  \/ part = "gateway" /\ Init /\ AdaptersRest /\ EventsRest /\ MemoryRests
  \/ part = "adapters" /\ GatewayRests /\ Adapters!Init /\ EventsRest /\ MemoryRests
  \/ part = "events" /\ GatewayRests /\ AdaptersRest /\ Events!Init /\ MemoryRests
  \/ part = "memory" /\ GatewayRests /\ AdaptersRest /\ EventsRest /\ Memory!Init

\* Of these only a realtime session may stand still, as its server and its
\* caller may.
EachNext ==
  /\ UNCHANGED part
  /\ \/ part = "gateway" /\ Next /\ UNCHANGED <<adapters, events, plans>>
     \/ part = "adapters" /\ Adapters!Next /\ UNCHANGED <<vars, events, plans>>
     \/ part = "events" /\ (Events!Next \/ UNCHANGED events) /\ UNCHANGED <<vars, adapters, plans>>
     \/ part = "memory" /\ Memory!Next /\ UNCHANGED <<vars, adapters, events>>

EachSpec == EachInit /\ [][EachNext]_<<part, vars, adapters, events, plans>>

(***************************************************************************)
(* The properties of the parts, stated and explained in their modules.     *)
(***************************************************************************)
\* Replies of the services reach the caller whole, whatever their pieces.
ReplyTold == part = "adapters" => Adapters!ReplyTold
\* Each service is asked what the request says.
Asked == part = "adapters" => Adapters!Asked
\* A realtime session tells its caller and its server what it should.
Session == part = "events" => Events!Session
\* A frame of video is in one place, and frames keep their order.
VideoOnce == part = "events" => Events!VideoOnce
\* What a memory stores, and a plan tells, sends and returns, is right.
Remembered == part = "memory" => Memory!Remembered
\* The scopes of a memory are shelves of their own.
ImplementsShelves == Memory!ImplementsShelves

=============================================================================
