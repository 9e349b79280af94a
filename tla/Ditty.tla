------------------------------- MODULE Ditty --------------------------------
(***************************************************************************)
(* The whole system: private caches, LLC/directory and DRAM, connected by  *)
(* the three networks (integration/SystemKernel.scala).  The components    *)
(* share only the networks; each step is one handler call of one of them.  *)
(***************************************************************************)
EXTENDS PrivateCache, LLC

vars == <<networks, cacheVars, llcVars>>

Init == InterconnectInit /\ CacheInit /\ LLCInit

CacheStep(c) == CoreStep(c) \/ ForwardStep(c) \/ ResponseStep(c)

DirectoryStep ==
  \/ \E c \in Cores : RequestStep(c)
  \/ WritebackStep
  \/ DirResponseStep

Next ==
  \/ \E c \in Cores : CacheStep(c) /\ UNCHANGED llcVars
  \/ DirectoryStep /\ UNCHANGED cacheVars

Spec == Init /\ [][Next]_vars

(***************************************************************************)
(* Fairness.  The networks deliver, and a cache or the LLC that has input  *)
(* runs: its arbiters are fixed-priority between sources that each hold a  *)
(* bounded number of messages, or round robin.  req_in is a FIFO that every*)
(* core's request reaches, hence strong fairness for each core's request,  *)
(* which blocking disables now and then.  Cores need not issue requests.   *)
(***************************************************************************)
Fairness ==
  /\ \A c \in Cores :
       /\ WF_vars(ForwardStep(c) /\ UNCHANGED llcVars)
       /\ WF_vars(ResponseStep(c) /\ UNCHANGED llcVars)
       /\ SF_vars(RequestStep(c) /\ UNCHANGED cacheVars)
  /\ WF_vars(WritebackStep /\ UNCHANGED cacheVars)
  /\ WF_vars(DirResponseStep /\ UNCHANGED cacheVars)

FairSpec == Spec /\ Fairness

\* Types of the messages, of the caches' arrays and registers, and of the LLC's.
TypeOK == InterconnectTypeOK /\ CacheTypeOK /\ LLCTypeOK

\* The inductive invariant of DittyProofs: what a cache and the directory each
\* know of their own state, given only the types of the messages.
Inv == InterconnectTypeOK /\ CacheInv /\ LLCInv

-----------------------------------------------------------------------------
(* Coherence.                                                              *)

\* A core that may write a line is the only one that may read it: every path
\* by which a cache enters M (LastInvAck, data without acks, data from the
\* owner) is taken after all the other copies are gone.
SingleWriterMultipleReaders ==
  \A c, d \in Cores, a \in Lines :
    c # d /\ tag[c][a] = "M" => tag[d][a] = "I"

\* Every copy a cache may read holds the contents last given to the line.
DataValue ==
  \A c \in Cores, a \in Lines :
    tag[c][a] # "I" => data[c][a] = latest[a]

\* What the LLC may serve from: its own copy while sharers or nobody hold the
\* line, DRAM once the line has left the LLC, unless a write-back of the line
\* or its data is still on the way.
MemoryValue ==
  \A a \in Lines :
    /\ dir[a].st = "S" => llc[a] = latest[a]
    /\ DirState(a) = "V" => llc[a] = latest[a]
    /\ DirState(a) = "I" => dram[a] = latest[a]

\* A modified line is never dropped: the step in which a cache stops being its
\* owner puts the contents into a Data message or into the PutM.
DirtyDataHandedOn ==
  [][\A c \in Cores, a \in Lines :
       tag[c][a] = "M" /\ tag'[c][a] # "M" =>
         \/ \E m \in rsp' \ rsp : /\ m.type = "Data" /\ m.src = c
                                  /\ m.addr = a /\ m.data = data[c][a]
         \/ \E w \in wb' \ wb : /\ w.type = "PutM" /\ w.src = c
                                /\ w.addr = a /\ w.data = data[c][a]]_vars

-----------------------------------------------------------------------------
(* No handler meets an event its table has no row for.                     *)

ForwardSpecified(m) ==
  LET s == State(m.dst, m.addr) IN
  CASE m.type = "GetS" -> s \in DOMAIN NextOnFwdGetS
    [] m.type = "GetM" -> s \in DOMAIN NextOnFwdGetM
    [] m.type = "Inv" -> s \in DOMAIN NextOnInv

ResponseSpecified(m) ==
  /\ m.type # "RespOk"
  /\ HitPr(m.dst, m.addr)
  /\ LET p == pr[m.dst] IN
     IF m.type = "Ack"
       THEN p.st \in (IF p.acks = p.total - 1 THEN AwaitingAcks
                      ELSE AwaitingData \cup AwaitingAcks)
       ELSE p.st \in (IF m.src # Directory THEN CompletesOnOwnerData
                      ELSE IF m.acks = 0 THEN CompletesOnData
                      ELSE AwaitingData)

WritebackSpecified(w) ==
  LET e == dir[w.addr] IN
  IF w.type = "PutM"
    THEN e.st \in (IF FromOwner(w) THEN PutMOwnerStates
                   ELSE PutMNonOwnerStates)
    ELSE /\ e.st \in PutSStates
         /\ e.st # "SM" /\ (e.count # 1 \/ e.st \in {"MS_AD", "MS_A"})
              => w.src \in e.sharers

DirResponseSpecified(m) ==
  LET e == dir[m.addr] IN
  CASE m.type = "Data" -> e.st \in DOMAIN NextOnDataResp \cup {"MI"}
    [] m.type = "RespOk" -> RespOkArrives(m) => e.st \in DOMAIN NextOnRespOk
    [] m.type = "Ack" -> e.st = "SI" /\ (e.count # 1 => m.src \in e.sharers)

\* Whatever message is delivered next, its handler has a row for it: neither
\* private_cache() nor llc() ends in the assert(false) of an unspecified event.
NoUnspecifiedEvent ==
  /\ \A m \in fwd : ForwardSpecified(m)
  /\ \A m \in rsp : IF m.dst = Directory THEN DirResponseSpecified(m)
                                         ELSE ResponseSpecified(m)
  /\ \A w \in wb : WritebackSpecified(w)

\* The same, but for a PutS that finds its line in MS_D: RespOk overtook the
\* owner's data, and a sharer leaves before the data come.
OnlyLatePutSUnspecified ==
  /\ \A m \in fwd : ForwardSpecified(m)
  /\ \A m \in rsp : IF m.dst = Directory THEN DirResponseSpecified(m)
                                         ELSE ResponseSpecified(m)
  /\ \A w \in wb : \/ WritebackSpecified(w)
                   \/ w.type = "PutS" /\ dir[w.addr].st = "MS_D"

\* A request the LLC may read finds an entry or a vacant way in the directory.
DirectoryNeverOverflows ==
  \A r \in NextRequests : MayTake(r) => DirHit(r.addr) \/ DirHasVacant

\* It does, unless a write-back of the core that sent it is still on its way:
\* with DIR_NWAY = NWAY * N_ nothing else can fill the directory.
FullOnlyBeforeWriteback ==
  \A r \in NextRequests :
    MayTake(r) =>
      \/ DirHit(r.addr) \/ DirHasVacant
      \/ \E w \in wb : w.src = r.src

-----------------------------------------------------------------------------
(* The directory and the caches.                                           *)

\* A stable entry covers what the caches hold: in S every copy belongs to a
\* sharer and none is modified; in M only the owner has a copy.
DirectoryCoversCopies ==
  \A c \in Cores, a \in Lines :
    tag[c][a] # "I" =>
      CASE dir[a].st = "S" -> tag[c][a] = "S" /\ c \in dir[a].sharers
        [] dir[a].st = "M" -> c = dir[a].owner
        [] OTHER -> dir[a].st \in DirBusy

\* The sharers whose acknowledgement core c still has to get for line a.
Acknowledging(c, a) ==
  {s \in Cores :
    \/ \E m \in rsp : m.type = "Ack" /\ m.dst = c /\ m.addr = a /\ m.sharer = s
    \/ \E w \in wb : w.type = "PutS" /\ w.addr = a /\ w.src = s
    \/ /\ [type |-> "Inv", addr |-> a, dst |-> s, respondTo |-> c] \in fwd
       /\ State(s, a) # "I"}

\* Every ack the directory promised a requestor is either counted or owed by
\* exactly one sharer: by its Ack, its Inv, or a PutS that crossed the Inv.
AckAccounting ==
  \A a \in Lines : dir[a].st = "SM" =>
    LET c == dir[a].owner
        owed == Cardinality(Acknowledging(c, a))
    IN
    HitPr(c, a) =>
      IF pr[c].st \in AwaitingAcks
        THEN pr[c].acks + owed = pr[c].total
        ELSE \A m \in rsp : m.type = "Data" /\ m.dst = c /\ m.addr = a =>
               pr[c].acks + owed = m.acks

\* The directory sends no forward to a core collecting acks: it blocks until
\* that core's RespOk.  The rows for it in the cache table are never used.
NoForwardWhileCollecting ==
  \A c \in Cores : pr[c] # None =>
    pr[c].st \notin {"IM_A_S", "IM_A_I", "SM_A_S", "SM_A_I", "SM_A_S_I",
                     "SM_AD_S", "SM_AD_I", "SM_AD_S_I"}

\* When the directory is about to forward to the holders of a line, none of
\* them has an older forward for that line on its way.
ForwardSettled ==
  \A a \in Lines : dir[a].st \in DirStable =>
    \A m \in fwd : m.addr = a => m.dst \notin dir[a].sharers

-----------------------------------------------------------------------------
(* Queues.  HopliteRT.scala drops what arrives at a full receive queue;    *)
(* they are 16 deep, for up to 16 cores.                                   *)

\* At most one response for each core is on its way to one destination: to a
\* core the datum and an ack from each other core, to the LLC an ack from each
\* sharer, or the owner's datum and a RespOk.
ResponsesFit ==
  \A n \in Nodes : Cardinality({m \in rsp : m.dst = n}) <= Cardinality(Cores)

\* A core has one request on its way, and that carries one write-back at most;
\* one more was left behind by the request that the LLC took last.
RequestsFit ==
  /\ Cardinality(req) <= Cardinality(Cores)
  /\ Cardinality(wb) <= Cardinality(Cores) + 1

\* No core is sent a second forward for a line before it has read the first,
\* although the directory may not yet know that the core has left the line.
ForwardsFit ==
  \A m, k \in fwd : m.dst = k.dst /\ m.addr = k.addr => m = k

-----------------------------------------------------------------------------
(* Progress.                                                               *)

\* Every core request is eventually answered.
RequestServed == \A c \in Cores : ~Idle(c) ~> Idle(c)
=============================================================================
