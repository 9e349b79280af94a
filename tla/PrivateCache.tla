---------------------------- MODULE PrivateCache ----------------------------
(***************************************************************************)
(* The private caches (hls/private_cache.cpp with the row table            *)
(* hls/MSIProtocol_actions.inc.h).  One action is one call of              *)
(* private_cache(): it consumes one message, looks the line up in the tag  *)
(* array and in the pending-request register, applies one row of the table *)
(* and makes all of that row's updates and sends.                          *)
(*                                                                         *)
(* The ways of the one modelled set are kept by line: tag[c][a] is the     *)
(* state of a's entry ("I" when no way holds a), and at most Ways lines    *)
(* are held.  The victim, least recently used in the code, is any held     *)
(* line.                                                                   *)
(***************************************************************************)
EXTENDS Interconnect

CONSTANTS
  Ways,            \* NWAY
  Workload,        \* <<c, a>>: the lines a that core c's program accesses
  TimelyForwards   \* a forward reaches its core before that core, having
                   \* lost the line meanwhile, asks for the line again

ASSUME CacheAssumption ==
  /\ Ways \in Nat \ {0}
  /\ Workload \subseteq Cores \X Lines
  /\ TimelyForwards \in BOOLEAN

VARIABLES
  tag,     \* [Cores -> [Lines -> {"I", "S", "M"}]]
  data,    \* the data array; Garbage where no handler will read it
  pr,      \* the pending-request register of a core, or None
  mshr,    \* the core request being served, or None
  latest,  \* ghost: the contents last given to a line by a completed store
  toCore   \* the response last written to to_core, None once the core has
           \* made its next request

cacheVars == <<tag, data, pr, mshr, latest, toCore>>

StableStates == {"I", "S", "M"}

\* AD: waits for data and acks, A: for acks only; suffixes _S and _I: a GetS or
\* GetM (Inv) was forwarded meanwhile and is answered on completion.
AwaitingData == {"IM_AD", "IM_AD_S", "IM_AD_I",
                 "SM_AD", "SM_AD_S", "SM_AD_I", "SM_AD_S_I"}
AwaitingAcks == {"IM_A", "IM_A_S", "IM_A_I",
                 "SM_A", "SM_A_S", "SM_A_I", "SM_A_S_I"}
TransientStates == {"IS_D", "IS_DI"} \cup AwaitingData \cup AwaitingAcks

PendingRequest == [line: Lines, st: TransientStates, acks: Nat, total: Int,
                   dataValid: BOOLEAN, fwdDest: Nodes \cup {None}]

Load == [op: {"LD"}, line: Lines, data: {Garbage}]
Store == [op: {"ST"}, line: Lines, data: Values]

ASSUME NoneIsNoRequest == None \notin PendingRequest \cup Load \cup Store

\* Stable states in the tag array, transient ones in PR only.
CacheTypeOK ==
  /\ tag \in [Cores -> [Lines -> StableStates]]
  /\ data \in [Cores -> [Lines -> Data]]
  /\ pr \in [Cores -> PendingRequest \cup {None}]
  /\ mshr \in [Cores -> Load \cup Store \cup {None}]
  /\ latest \in [Lines -> Values]
  /\ toCore \in [Cores -> Data \cup {None}]

CacheInit ==
  /\ tag = [c \in Cores |-> [a \in Lines |-> "I"]]
  /\ data = [c \in Cores |-> [a \in Lines |-> Garbage]]
  /\ pr = [c \in Cores |-> None]
  /\ mshr = [c \in Cores |-> None]
  /\ latest = [a \in Lines |-> ZeroValue]
  /\ toCore = [c \in Cores |-> None]

-----------------------------------------------------------------------------
(* Look-up.                                                                *)

Hit(c, a) == tag[c][a] # "I"

HitPr(c, a) == pr[c] # None /\ pr[c].line = a

State(c, a) ==
  CASE Hit(c, a) -> tag[c][a]
    [] ~Hit(c, a) /\ HitPr(c, a) -> pr[c].st
    [] OTHER -> "I"

Held(c) == {a \in Lines : Hit(c, a)}

\* Faulty variant: one way too many.
HasVacant_OffByOne(c) == Cardinality(Held(c)) <= Ways

HasVacant(c) == Cardinality(Held(c)) < Ways

-----------------------------------------------------------------------------
(* The rows of the table, by event: what the state becomes.  The domain of *)
(* each function is the set of states that have a row for the event; in    *)
(* any other state the code runs into assert(false).                       *)

NextOnFwdGetS ==
  [s \in {"I", "M", "IM_AD", "IM_A", "SM_AD", "SM_A"} |->
     CASE s = "I" -> "I"
       [] s = "M" -> "S"
       [] s = "IM_AD" -> "IM_AD_S"
       [] s = "IM_A" -> "IM_A_S"
       [] s = "SM_AD" -> "SM_AD_S"
       [] s = "SM_A" -> "SM_A_S"]

\* Faulty variant: the owner keeps a readable copy.
NextOnFwdGetM_KeepsCopy ==
  [s \in {"I", "M", "IM_AD", "IM_A", "SM_AD", "SM_A"} |->
     CASE s \in {"I", "M"} -> NextOnFwdGetS[s]
       [] s = "IM_AD" -> "IM_AD_I"
       [] s = "IM_A" -> "IM_A_I"
       [] s = "SM_AD" -> "SM_AD_I"
       [] s = "SM_A" -> "SM_A_I"]

NextOnFwdGetM ==
  [s \in {"I", "M", "IM_AD", "IM_A", "SM_AD", "SM_A"} |->
     CASE s = "I" -> "I"
       [] s = "M" -> "I"
       [] s = "IM_AD" -> "IM_AD_I"
       [] s = "IM_A" -> "IM_A_I"
       [] s = "SM_AD" -> "SM_AD_I"
       [] s = "SM_A" -> "SM_A_I"]

\* Faulty variant: a sharer acknowledges and keeps its copy.
NextOnInv_KeepsCopy ==
  [s \in {"I", "S", "IS_D", "SM_AD", "SM_AD_S", "SM_A_S"} |->
     CASE s \in {"I", "S"} -> s
       [] s = "IS_D" -> "IS_DI"
       [] s = "SM_AD" -> "IM_AD"
       [] s = "SM_AD_S" -> "SM_AD_S_I"
       [] s = "SM_A_S" -> "SM_A_S_I"]

\* Faulty variant: no row for an upgrade that another store overtakes.
NextOnInv_NoUpgradeRace ==
  [s \in {"I", "S", "IS_D"} |-> IF s = "IS_D" THEN "IS_DI" ELSE "I"]

NextOnInv ==
  [s \in {"I", "S", "IS_D", "SM_AD", "SM_AD_S", "SM_A_S"} |->
     CASE s = "I" -> "I"
       [] s = "S" -> "I"
       [] s = "IS_D" -> "IS_DI"
       [] s = "SM_AD" -> "IM_AD"
       [] s = "SM_AD_S" -> "SM_AD_S_I"
       [] s = "SM_A_S" -> "SM_A_S_I"]

\* Data from the directory while acks are still missing.
NextOnDataAck ==
  [s \in AwaitingData |->
     CASE s = "IM_AD" -> "IM_A"
       [] s = "IM_AD_S" -> "IM_A_S"
       [] s = "IM_AD_I" -> "IM_A_I"
       [] s = "SM_AD" -> "SM_A"
       [] s = "SM_AD_S" -> "SM_A_S"
       [] s = "SM_AD_I" -> "SM_A_I"
       [] s = "SM_AD_S_I" -> "SM_A_S_I"]

\* States that have a row for data that needs no (more) ack, and for data from
\* the owner.
CompletesOnData == {"IS_D", "IS_DI"} \cup AwaitingData
CompletesOnOwnerData == {"IS_D", "IM_AD", "SM_AD"}

\* Faulty variant: the tag entry takes the transient state of PR.
FinalState_Unchanged(s) == s

\* Faulty variant: data that crossed an invalidation is kept.
FinalState_KeepsInvalidated(s) ==
  CASE s \in {"IM_AD", "IM_A", "SM_AD", "SM_A"} -> "M"
    [] s \in {"IS_D", "IS_DI", "IM_AD_S", "IM_A_S", "SM_AD_S", "SM_A_S"} -> "S"
    [] OTHER -> "I"

\* The stable state a completed request leaves the line in.
FinalState(s) ==
  CASE s \in {"IM_AD", "IM_A", "SM_AD", "SM_A"} -> "M"
    [] s \in {"IS_D", "IM_AD_S", "IM_A_S", "SM_AD_S", "SM_A_S"} -> "S"
    [] OTHER -> "I"

\* States in which a forward is waiting for the completed line, and those among
\* them in which it is a GetS, whose data the directory gets too.
OwesForward == {"IM_AD_S", "IM_A_S", "SM_AD_S", "SM_A_S", "SM_AD_S_I",
                "SM_A_S_I", "IM_AD_I", "IM_A_I", "SM_AD_I", "SM_A_I"}

\* Faulty variant: the directory is forgotten.
OwesDirectory_Never == {}

OwesDirectory == {"IM_AD_S", "IM_A_S", "SM_AD_S", "SM_A_S", "SM_AD_S_I",
                  "SM_A_S_I"}

-----------------------------------------------------------------------------
(* Core requests.                                                          *)

\* The core port accepts one request at a time (PrivateCache.scala, busy).
Idle(c) == mshr[c] = None

\* A miss is not issued while an old forward for the line is in flight.
ForwardsSettled(c, a) == TimelyForwards => ~ForwardInFlight(c, a)

\* PR and MSHR take the request; the GetS or GetM goes to the directory.
Issue(c, a, op, d, st, type, victim) ==
  /\ pr' = [pr EXCEPT ![c] = [line |-> a, st |-> st, acks |-> 0, total |-> 0,
                              dataValid |-> FALSE, fwdDest |-> None]]
  /\ mshr' = [mshr EXCEPT ![c] = [op |-> op, line |-> a, data |-> d]]
  /\ toCore' = [toCore EXCEPT ![c] = None]
  /\ req' = req \cup {[type |-> type, addr |-> a, src |-> c,
                       victim |-> victim]}

\* Faulty variant: a modified victim is written back as a shared one.
VictimPut_Clean(c, v) == "PutS"

VictimPut(c, v) == IF tag[c][v] = "M" THEN "PutM" ELSE "PutS"

\* Without a vacant way the flit also writes back the victim, whose tag goes.
Evict(c, v) ==
  /\ wb' = wb \cup {[type |-> VictimPut(c, v), addr |-> v, src |-> c,
                     data |-> data[c][v]]}
  /\ tag' = [tag EXCEPT ![c][v] = "I"]
  /\ data' = [data EXCEPT ![c][v] = Garbage]

Miss(c, a, op, d, st, type) ==
  /\ Idle(c)
  /\ ~Hit(c, a)
  /\ ForwardsSettled(c, a)
  /\ \/ /\ HasVacant(c)
        /\ Issue(c, a, op, d, st, type, None)
        /\ UNCHANGED <<wb, tag, data>>
     \/ /\ ~HasVacant(c)
        /\ \E v \in Held(c) : Evict(c, v) /\ Issue(c, a, op, d, st, type, v)
  /\ UNCHANGED <<fwd, rsp, latest>>

LoadMiss(c, a) == Miss(c, a, "LD", Garbage, "IS_D", "GetS")

\* Faulty variant: a store asks for a shared copy.
StoreMiss_Shared(c, a, d) == Miss(c, a, "ST", d, "IS_D", "GetS")

StoreMiss(c, a, d) == Miss(c, a, "ST", d, "IM_AD", "GetM")

\* Faulty variant: the entry stays in the tag array too.
Migrate_KeepsTag(c, a) == UNCHANGED <<tag, data>>

\* The entry moves from the tag array to PR, which keeps its way.
Migrate(c, a) ==
  /\ tag' = [tag EXCEPT ![c][a] = "I"]
  /\ data' = [data EXCEPT ![c][a] = Garbage]

\* A store to a shared line.
StoreShared(c, a, d) ==
  /\ Idle(c)
  /\ tag[c][a] = "S"
  /\ Issue(c, a, "ST", d, "SM_AD", "GetM", None)
  /\ Migrate(c, a)
  /\ UNCHANGED <<wb, fwd, rsp, latest>>

\* A load of a held line is answered from the data array.
LoadHit(c, a) ==
  /\ Idle(c)
  /\ Hit(c, a)
  /\ toCore' = [toCore EXCEPT ![c] = data[c][a]]
  /\ UNCHANGED <<networks, tag, data, pr, mshr, latest>>

\* What a store is answered: an acknowledgement without contents.
StoreDone == Garbage

\* A store to a modified line is acknowledged at once.  Its row sets
\* to_core_respond only, not data_insert: d goes nowhere.
StoreHit(c, a, d) ==
  /\ Idle(c)
  /\ tag[c][a] = "M"
  /\ toCore' = [toCore EXCEPT ![c] = StoreDone]
  /\ UNCHANGED <<networks, tag, data, pr, mshr, latest>>

-----------------------------------------------------------------------------
(* Forwards from the directory.                                            *)

\* Row of a stable line: the tag entry changes or goes.
SetTag(c, a, s) ==
  /\ tag' = [tag EXCEPT ![c][a] = s]
  /\ data' = [data EXCEPT ![c][a] = IF s = "I" THEN Garbage ELSE @]
  /\ UNCHANGED pr

\* Row of a pending line.
SetPending(c, s, dest) ==
  /\ pr' = [pr EXCEPT ![c] = [pr[c] EXCEPT !.st = s, !.fwdDest = dest]]
  /\ UNCHANGED <<tag, data>>

\* FwdGetS and FwdGetM: an owner sends its data (for GetS to the directory
\* too), a pending owner records the destination, any other core ignores it.
ReceiveFwdGet(c, m) ==
  LET a == m.addr
      s == State(c, a)
      next == IF m.type = "GetS" THEN NextOnFwdGetS ELSE NextOnFwdGetM
      dests == IF m.type = "GetS" THEN {m.respondTo, Directory}
                                  ELSE {m.respondTo}
  IN
  /\ m.dst = c
  /\ m.type \in {"GetS", "GetM"}
  /\ s \in DOMAIN next
  /\ fwd' = fwd \ {m}
  /\ \/ /\ s = "I"
        /\ UNCHANGED <<tag, data, pr, rsp>>
     \/ /\ s = "M"
        /\ SetTag(c, a, next[s])
        /\ rsp' = rsp \cup {DataMessage(a, c, n, 0, data[c][a]) : n \in dests}
     \/ /\ s \in TransientStates
        /\ SetPending(c, next[s], m.respondTo)
        /\ UNCHANGED rsp
  /\ UNCHANGED <<req, wb, mshr, latest, toCore>>

\* Inv: a sharer gives its copy up and acknowledges to the requestor (or, for a
\* replacement, to the directory); a core without a copy ignores it.
ReceiveInv(c, m) ==
  LET a == m.addr
      s == State(c, a)
  IN
  /\ m.dst = c
  /\ m.type = "Inv"
  /\ s \in DOMAIN NextOnInv
  /\ fwd' = fwd \ {m}
  /\ \/ /\ s = "I"
        /\ UNCHANGED <<tag, data, pr, rsp>>
     \/ /\ s = "S"
        /\ SetTag(c, a, NextOnInv[s])
        /\ rsp' = rsp \cup {AckMessage(a, c, m.respondTo, c)}
     \/ /\ s \in TransientStates
        /\ SetPending(c, NextOnInv[s], pr[c].fwdDest)
        /\ rsp' = rsp \cup {AckMessage(a, c, m.respondTo, c)}
  /\ UNCHANGED <<req, wb, mshr, latest, toCore>>

-----------------------------------------------------------------------------
(* Responses.                                                              *)

\* What a completing request sends: RespOk, when the directory waits for it, or
\* the line to whoever was forwarded to us.
CompletionMessages(c, s, a, d, sendRespOk) ==
  (IF sendRespOk THEN {RespOkMessage(a, c, Directory)} ELSE {})
  \cup (IF s \in OwesForward
          THEN {DataMessage(a, c, pr[c].fwdDest, 0, d)} ELSE {})
  \cup (IF s \in OwesDirectory
          THEN {DataMessage(a, c, Directory, 0, d)} ELSE {})

\* mshr_fulfill_all, pr_remove, and the line goes to the way PR reserved.
\* cl is the line as it arrived; a store replaces it whole.
Complete(c, cl, m, sendRespOk) ==
  LET a == pr[c].line
      s == pr[c].st
      isStore == mshr[c].op = "ST"
      d == IF isStore THEN mshr[c].data ELSE cl
  IN
  /\ tag' = [tag EXCEPT ![c][a] = FinalState(s)]
  /\ data' = [data EXCEPT ![c][a] = IF FinalState(s) = "I" THEN Garbage ELSE d]
  /\ pr' = [pr EXCEPT ![c] = None]
  /\ mshr' = [mshr EXCEPT ![c] = None]
  /\ latest' = IF isStore THEN [latest EXCEPT ![a] = d] ELSE latest
  /\ toCore' = [toCore EXCEPT ![c] = IF isStore THEN StoreDone ELSE cl]
  /\ rsp' = (rsp \ {m}) \cup CompletionMessages(c, s, a, d, sendRespOk)

\* DataFromDirAck: data came before the last ack.
DataAck(c, m) ==
  /\ pr[c].st \in DOMAIN NextOnDataAck
  /\ pr' = [pr EXCEPT ![c] =
              [pr[c] EXCEPT !.st = NextOnDataAck[pr[c].st], !.total = m.acks,
                            !.dataValid = TRUE]]
  /\ data' = [data EXCEPT ![c][m.addr] = m.data]
  /\ rsp' = rsp \ {m}
  /\ UNCHANGED <<tag, mshr, latest, toCore>>

\* Data.  RespOk answers data from the owner and data of a directory in SM;
\* IM_AD without acks was served from I or V, where the directory never blocks.
ReceiveData(c, m) ==
  /\ m.dst = c
  /\ m.type = "Data"
  /\ HitPr(c, m.addr)
  /\ LET s == pr[c].st IN
     \/ /\ m.src = Directory
        /\ m.acks # 0
        /\ pr[c].acks # m.acks
        /\ DataAck(c, m)
     \/ /\ m.src = Directory
        /\ m.acks = 0
        /\ s \in CompletesOnData
        /\ Complete(c, m.data, m, s = "SM_AD")
     \/ /\ m.src = Directory
        /\ m.acks # 0
        /\ pr[c].acks = m.acks
        /\ s \in AwaitingData
        /\ Complete(c, m.data, m, s \in {"IM_AD", "SM_AD"})
     \/ /\ m.src # Directory
        /\ s \in CompletesOnOwnerData
        /\ Complete(c, m.data, m, TRUE)
  /\ UNCHANGED <<req, wb, fwd>>

\* Ack: counted, and the last one (total is 0 until data came) completes.
ReceiveAck(c, m) ==
  /\ m.dst = c
  /\ m.type = "Ack"
  /\ HitPr(c, m.addr)
  /\ \/ /\ pr[c].acks # pr[c].total - 1
        /\ pr[c].st \in AwaitingData \cup AwaitingAcks
        /\ pr' = [pr EXCEPT ![c] = [pr[c] EXCEPT !.acks = pr[c].acks + 1]]
        /\ rsp' = rsp \ {m}
        /\ UNCHANGED <<tag, data, mshr, latest, toCore>>
     \/ /\ pr[c].acks = pr[c].total - 1
        /\ pr[c].st \in AwaitingAcks
        /\ Complete(c, data[c][m.addr], m, pr[c].st \in {"IM_A", "SM_A"})
  /\ UNCHANGED <<req, wb, fwd>>

-----------------------------------------------------------------------------
CoreStep(c) ==
  \E a \in Lines :
    /\ <<c, a>> \in Workload
    /\ \/ LoadMiss(c, a)
       \/ LoadHit(c, a)
       \/ \E d \in Values : \/ StoreMiss(c, a, d)
                            \/ StoreShared(c, a, d)
                            \/ StoreHit(c, a, d)

ForwardStep(c) == \E m \in fwd : ReceiveFwdGet(c, m) \/ ReceiveInv(c, m)

ResponseStep(c) == \E m \in rsp : ReceiveData(c, m) \/ ReceiveAck(c, m)

-----------------------------------------------------------------------------
(* Properties of one private cache.                                        *)

\* The assertion commented out in private_cache(): a line is never in the tag
\* array and in PR at once.
HitExclusive == \A c \in Cores, a \in Lines : ~(Hit(c, a) /\ HitPr(c, a))

\* A way is free for the pending line when its data comes.
WaysFit ==
  \A c \in Cores :
    Cardinality(Held(c)) + (IF pr[c] = None THEN 0 ELSE 1) <= Ways

\* MSHR and PR are taken and released together, for the same line, a load by
\* the IS states and a store by the others.
MshrMatchesPr ==
  \A c \in Cores :
    /\ (mshr[c] = None) <=> (pr[c] = None)
    /\ mshr[c] # None =>
         /\ mshr[c].line = pr[c].line
         /\ (mshr[c].op = "LD") <=> (pr[c].st \in {"IS_D", "IS_DI"})

\* A forward that waits for a pending line has somewhere to send it.
ForwardeeKnown ==
  \A c \in Cores :
    pr[c] # None /\ pr[c].st \in OwesForward => pr[c].fwdDest \in Nodes

\* What a cache step preserves, given only the types of the messages.
CacheInv ==
  CacheTypeOK /\ HitExclusive /\ WaysFit /\ MshrMatchesPr /\ ForwardeeKnown
=============================================================================
