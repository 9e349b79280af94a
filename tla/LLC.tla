-------------------------------- MODULE LLC ---------------------------------
(***************************************************************************)
(* The last-level cache with its embedded directory (hls/llc.cpp with the  *)
(* row table hls/MSIProtocol_dir_actions.inc.h), and the DRAM behind it.   *)
(* One action is one call of llc(): it reads rsp_in, wb_in, or, when not   *)
(* blocking, pending_request or req_in, and applies one row of the table.  *)
(*                                                                         *)
(* As in PrivateCache the ways are kept by line: dir[a] is a's directory   *)
(* entry (state "I" when no way holds one), at most DirWays of them, and   *)
(* llc[a] is a's line in the data array or None, at most LlcWays of them.  *)
(* The LLC's victim is a fixed way in the code (its ages never change) and *)
(* any held line here.                                                     *)
(***************************************************************************)
EXTENDS Interconnect

CONSTANTS
  DirWays,          \* DIR_NWAY
  LlcWays,          \* LLC_NWAY
  DataBeforeRespOk, \* the owner's data reaches the LLC before the RespOk that
                    \* the requestor sends on receiving its own copy of it
  DefinedReads      \* llc_way_idx, where no branch has set it, holds the way of
                    \* the line that was hit; if not, any way

ASSUME LLCAssumption ==
  /\ DirWays \in Nat \ {0}
  /\ LlcWays \in Nat \ {0}
  /\ DataBeforeRespOk \in BOOLEAN
  /\ DefinedReads \in BOOLEAN

VARIABLES
  dir,       \* the directory entry of each line
  llc,       \* the data array: contents, or None
  dram,      \* external memory
  blocking,  \* no new request is read while set
  pending    \* the pending_request stream

llcVars == <<dir, llc, dram, blocking, pending>>

DirStable == {"M", "S"}
DirBusy == {"MM", "SM", "MS_AD", "MS_A", "MS_D", "MI_AD", "MI_A", "MI_D",
            "MI_RespOk", "MI", "SI"}
DirStates == {"I"} \cup DirStable \cup DirBusy

Entry == [st: DirStates, sharers: SUBSET Cores, count: Int,
          owner: Cores \cup {None}]

NoEntry == [st |-> "I", sharers |-> {}, count |-> 0, owner |-> None]

\* DRAM always has contents, the data array only for the lines it holds.
LLCTypeOK ==
  /\ dir \in [Lines -> Entry]
  /\ llc \in [Lines -> Data \cup {None}]
  /\ dram \in [Lines -> Data]
  /\ blocking \in BOOLEAN
  /\ pending \in Seq(Request)

LLCInit ==
  /\ dir = [a \in Lines |-> NoEntry]
  /\ llc = [a \in Lines |-> None]
  /\ dram = [a \in Lines |-> ZeroValue]
  /\ blocking = FALSE
  /\ pending = <<>>

-----------------------------------------------------------------------------
(* Look-up.                                                                *)

DirHit(a) == dir[a].st # "I"

LlcHit(a) == llc[a] # None

\* The state a row is selected by; "V" is a line the LLC alone holds.
DirState(a) ==
  CASE DirHit(a) -> dir[a].st
    [] ~DirHit(a) /\ LlcHit(a) -> "V"
    [] OTHER -> "I"

DirHasVacant == Cardinality({a \in Lines : DirHit(a)}) < DirWays

LlcHasVacant == Cardinality({a \in Lines : LlcHit(a)}) < LlcWays

\* A request for a line the LLC does not hold, with no way left, becomes a
\* Replacement event for the victim.
NeedsReplacement(a) == ~DirHit(a) /\ ~LlcHit(a) /\ ~LlcHasVacant

-----------------------------------------------------------------------------
(* Reading a request.                                                      *)

\* pending_request has priority over req_in.
NextRequests == IF pending # <<>> THEN {Head(pending)} ELSE req

\* Faulty variant: requests are read ahead of write-backs.
MayTake_BeforeWritebacks(r) == ~blocking /\ r \in NextRequests

\* The LLC reads a request when it is not blocking and wb_in is empty; without
\* a hit or a vacant directory way it stops in assert(false).
MayTake(r) ==
  /\ ~blocking
  /\ r \in NextRequests
  /\ \A w \in wb : ~WritebackDue(w)

Takes(r) ==
  /\ MayTake(r)
  /\ DirHit(r.addr) \/ DirHasVacant
  /\ req' = IF pending # <<>> THEN req ELSE req \ {r}

PendingAfterRead == IF pending # <<>> THEN Tail(pending) ELSE pending

\* blockage_queue_req: the request is (again) the pending one.
Queue(r) == pending' = Append(PendingAfterRead, r)

NoQueue == pending' = PendingAfterRead

Sends(type, a, dests, respondTo) ==
  fwd' = fwd \cup {ForwardMessage(type, a, c, respondTo) : c \in dests}

SendsData(r, acks, d) ==
  rsp' = rsp \cup {DataMessage(r.addr, Directory, r.src, acks, d)}

\* update_tag_add_requestor_as_sharer
AddSharer(e, st, c) ==
  [st |-> st, sharers |-> e.sharers \cup {c}, count |-> e.count + 1,
   owner |-> e.owner]

\* update_tag_mark_requestor_as_owner
MarkOwner(st, c) == [st |-> st, sharers |-> {c}, count |-> 1, owner |-> c]

\* Faulty variant: the former owner is not recorded as a sharer.
ToShared_ForgetsOwner(e, st, c) ==
  [st |-> st, sharers |-> {c}, count |-> 1, owner |-> None]

\* update_tag_transition_to_shared
ToShared(e, st, c) ==
  [st |-> st, sharers |-> {e.owner, c}, count |-> 2, owner |-> None]

\* Faulty variant: the count is not decremented.
DropSharer_KeepsCount(e, st, c) ==
  [st |-> st, sharers |-> e.sharers \ {c}, count |-> e.count,
   owner |-> e.owner]

\* update_tag_remove_requestor_from_sharer
DropSharer(e, st, c) ==
  [st |-> st, sharers |-> e.sharers \ {c}, count |-> e.count - 1,
   owner |-> e.owner]

SetEntry(a, e) == dir' = [dir EXCEPT ![a] = e]

\* Faulty variant: the entry is granted at once, as from I, without blocking.
StartTransaction_Unblocked(r, a, e) ==
  /\ SetEntry(a, [e EXCEPT !.st = "M"])
  /\ NoQueue
  /\ UNCHANGED blocking

\* blockage_queue_req and blockage_block: a's entry goes into transition.
StartTransaction(r, a, e) ==
  /\ SetEntry(a, e)
  /\ Queue(r)
  /\ blocking' = TRUE

-----------------------------------------------------------------------------
(* GetS.                                                                   *)

\* In I the line comes from DRAM.
GetSInvalid(r) ==
  LET a == r.addr IN
  /\ Takes(r)
  /\ r.type = "GetS"
  /\ ~DirHit(a)
  /\ ~LlcHit(a)
  /\ LlcHasVacant
  /\ SetEntry(a, AddSharer(NoEntry, "S", r.src))
  /\ llc' = [llc EXCEPT ![a] = dram[a]]
  /\ SendsData(r, 0, dram[a])
  /\ NoQueue
  /\ UNCHANGED <<wb, fwd, dram, blocking>>

\* The contents read from the data array in V, where llc_way_idx is not set:
\* those of the line's way, or of any other way of the set.
ReadInV(a) ==
  IF DefinedReads
    THEN {llc[a]}
    ELSE {llc[b] : b \in {b \in Lines : LlcHit(b)}}
         \cup (IF LlcHasVacant THEN {Garbage} ELSE {})

\* In V the LLC has the line.
GetSValid(r) ==
  LET a == r.addr IN
  /\ Takes(r)
  /\ r.type = "GetS"
  /\ ~DirHit(a)
  /\ LlcHit(a)
  /\ SetEntry(a, AddSharer(NoEntry, "S", r.src))
  /\ \E d \in ReadInV(a) : SendsData(r, 0, d)
  /\ NoQueue
  /\ UNCHANGED <<wb, fwd, llc, dram, blocking>>

GetSShared(r) ==
  LET a == r.addr IN
  /\ Takes(r)
  /\ r.type = "GetS"
  /\ dir[a].st = "S"
  /\ SetEntry(a, AddSharer(dir[a], "S", r.src))
  /\ SendsData(r, 0, llc[a])
  /\ NoQueue
  /\ UNCHANGED <<wb, fwd, llc, dram, blocking>>

\* The owner is asked to send the line to the requestor and to the LLC.
GetSModified(r) ==
  LET a == r.addr IN
  /\ Takes(r)
  /\ r.type = "GetS"
  /\ dir[a].st = "M"
  /\ Sends("GetS", a, {dir[a].owner}, r.src)
  /\ StartTransaction(r, a, ToShared(dir[a], "MS_AD", r.src))
  /\ UNCHANGED <<wb, rsp, llc, dram>>

-----------------------------------------------------------------------------
(* GetM.                                                                   *)

\* From V the row sends the DRAM response without having read DRAM.
GetMUncached(r) ==
  LET a == r.addr IN
  /\ Takes(r)
  /\ r.type = "GetM"
  /\ ~DirHit(a)
  /\ ~NeedsReplacement(a)
  /\ SetEntry(a, MarkOwner("M", r.src))
  /\ llc' = [llc EXCEPT ![a] = IF LlcHit(a) THEN @ ELSE dram[a]]
  /\ SendsData(r, 0, IF LlcHit(a) THEN Garbage ELSE dram[a])
  /\ NoQueue
  /\ UNCHANGED <<wb, fwd, dram, blocking>>

\* Faulty variant: the requestor's own copy is counted too.
PromisedAcks_CountsSelf(e, c) == e.count

\* to_noc_sharer_ack: the sharers other than the requestor.
PromisedAcks(e, c) == IF c \in e.sharers THEN e.count - 1 ELSE e.count

\* The other sharers are invalidated; each acknowledges to the requestor, who
\* learns from the data how many will.
GetMShared(r) ==
  LET a == r.addr
      others == dir[a].sharers \ {r.src}
  IN
  /\ Takes(r)
  /\ r.type = "GetM"
  /\ dir[a].st = "S"
  /\ Sends("Inv", a, others, r.src)
  /\ SendsData(r, PromisedAcks(dir[a], r.src), llc[a])
  /\ StartTransaction(r, a, MarkOwner("SM", r.src))
  /\ UNCHANGED <<wb, llc, dram>>

GetMModified(r) ==
  LET a == r.addr IN
  /\ Takes(r)
  /\ r.type = "GetM"
  /\ dir[a].st = "M"
  /\ Sends("GetM", a, {dir[a].owner}, r.src)
  /\ StartTransaction(r, a, MarkOwner("MM", r.src))
  /\ UNCHANGED <<wb, rsp, llc, dram>>

-----------------------------------------------------------------------------
(* Replacement: the request waits until the victim v has left the LLC.     *)

Replaces(r, v) ==
  /\ Takes(r)
  /\ NeedsReplacement(r.addr)
  /\ LlcHit(v)

\* The line written is the victim's, the DRAM address the request's.
ReplaceValid(r, v) ==
  /\ Replaces(r, v)
  /\ ~DirHit(v)
  /\ dram' = [dram EXCEPT ![r.addr] = llc[v]]
  /\ llc' = [llc EXCEPT ![v] = None]
  /\ Queue(r)
  /\ UNCHANGED <<wb, fwd, rsp, dir, blocking>>

ReplaceShared(r, v) ==
  /\ Replaces(r, v)
  /\ dir[v].st = "S"
  /\ Sends("Inv", v, dir[v].sharers, Directory)
  /\ StartTransaction(r, v, [dir[v] EXCEPT !.st = "SI"])
  /\ UNCHANGED <<wb, rsp, llc, dram>>

ReplaceModified(r, v) ==
  /\ Replaces(r, v)
  /\ dir[v].st = "M"
  /\ Sends("GetM", v, {dir[v].owner}, Directory)
  /\ StartTransaction(r, v, [dir[v] EXCEPT !.st = "MI"])
  /\ UNCHANGED <<wb, rsp, llc, dram>>

TakeRequest(r) ==
  \/ GetSInvalid(r)
  \/ GetSValid(r)
  \/ GetSShared(r)
  \/ GetSModified(r)
  \/ GetMUncached(r)
  \/ GetMShared(r)
  \/ GetMModified(r)
  \/ \E v \in Lines : \/ ReplaceValid(r, v)
                      \/ ReplaceShared(r, v)
                      \/ ReplaceModified(r, v)

-----------------------------------------------------------------------------
(* What ends a transaction.                                                *)

\* Faulty variants: the entry outlives the line; the LLC stays blocked.
EvictFromLlc_KeepsEntry(a, d) ==
  /\ SetEntry(a, [dir[a] EXCEPT !.st = "S"])
  /\ dram' = [dram EXCEPT ![a] = d]
  /\ llc' = [llc EXCEPT ![a] = None]
  /\ blocking' = FALSE
  /\ UNCHANGED pending

EvictFromLlc_StaysBlocked(a, d) ==
  /\ SetEntry(a, NoEntry)
  /\ dram' = [dram EXCEPT ![a] = d]
  /\ llc' = [llc EXCEPT ![a] = None]
  /\ UNCHANGED <<blocking, pending>>

\* The entry goes and the line leaves the LLC for DRAM; the request that
\* asked for the way is read again.
EvictFromLlc(a, d) ==
  /\ SetEntry(a, NoEntry)
  /\ dram' = [dram EXCEPT ![a] = d]
  /\ llc' = [llc EXCEPT ![a] = None]
  /\ blocking' = FALSE
  /\ UNCHANGED pending

\* Faulty variant: the request is unqueued, the LLC stays blocked.
Finish_StaysBlocked(a, e) ==
  /\ pending # <<>>
  /\ SetEntry(a, e)
  /\ pending' = Tail(pending)
  /\ UNCHANGED blocking

\* The pending request is done: unqueue and unblock.
Finish(a, e) ==
  /\ pending # <<>>
  /\ SetEntry(a, e)
  /\ pending' = Tail(pending)
  /\ blocking' = FALSE

\* The last answer on line a: either the entry changes state and the
\* transaction goes on, or it ends in M, S or without an entry.
MoveTo(a, st) ==
  \/ /\ st \in DirBusy
     /\ SetEntry(a, [dir[a] EXCEPT !.st = st])
     /\ UNCHANGED <<blocking, pending>>
  \/ /\ st \in DirStable
     /\ Finish(a, [dir[a] EXCEPT !.st = st])
  \/ /\ st = "I"
     /\ Finish(a, NoEntry)

-----------------------------------------------------------------------------
(* Write-backs.                                                            *)

FromOwner(w) == DirHit(w.addr) /\ dir[w.addr].owner = w.src

\* States with a row for PutM from the owner, and from another core (the owner
\* until a GetS or GetM made the directory forget it; the faulty variant misses
\* the GetS).
PutMOwnerStates == {"M", "MM", "SM", "MI"}
PutMNonOwnerStates_OnlyMM == {"MM"}
PutMNonOwnerStates == {"MM", "MS_AD"}

\* The owner gave the line up: in MM and SM its RespOk is still to come.
PutMFromOwner(w) ==
  LET a == w.addr IN
  /\ w \in wb
  /\ w.type = "PutM"
  /\ FromOwner(w)
  /\ wb' = wb \ {w}
  /\ \/ /\ dir[a].st = "M"
        /\ SetEntry(a, NoEntry)
        /\ llc' = [llc EXCEPT ![a] = w.data]
        /\ UNCHANGED <<dram, blocking, pending>>
     \/ /\ dir[a].st \in {"MM", "SM"}
        /\ SetEntry(a, [dir[a] EXCEPT !.st = "MI_RespOk"])
        /\ llc' = [llc EXCEPT ![a] = w.data]
        /\ UNCHANGED <<dram, blocking, pending>>
     \/ /\ dir[a].st = "MI"
        /\ EvictFromLlc(a, w.data)
  /\ UNCHANGED <<req, fwd, rsp>>

\* The forward found the owner gone: the pending request starts over.
PutMFromNonOwner(w) ==
  LET a == w.addr IN
  /\ w \in wb
  /\ w.type = "PutM"
  /\ ~FromOwner(w)
  /\ dir[a].st \in PutMNonOwnerStates
  /\ wb' = wb \ {w}
  /\ SetEntry(a, NoEntry)
  /\ llc' = [llc EXCEPT ![a] = w.data]
  /\ blocking' = FALSE
  /\ UNCHANGED <<req, fwd, rsp, dram, pending>>

\* States with a row for PutS, when other sharers remain and for the last one
\* (faulty variant: a sharer that leaves while its line is replaced is missed).
PutSStates_NotReplaced == {"S", "SM", "MS_AD", "MS_A"}
PutSStates == {"S", "SM", "MS_AD", "MS_A", "SI"}

\* Where MS_AD and MS_A go when their last sharer leaves.
NextOnLastPutS(st) == IF st = "MS_AD" THEN "MI_AD" ELSE "MI_RespOk"

PutS(w) ==
  LET a == w.addr
      e == dir[a]
      last == e.count = 1
  IN
  /\ w \in wb
  /\ w.type = "PutS"
  /\ e.st \in PutSStates
  /\ wb' = wb \ {w}
  /\ \/ /\ e.st = "SM"            \* acknowledge in the sharer's place
        /\ rsp' = rsp \cup {AckMessage(a, Directory, e.owner, w.src)}
        /\ UNCHANGED llcVars
     \/ /\ e.st # "SM"
        /\ ~last
        /\ w.src \in e.sharers
        /\ SetEntry(a, DropSharer(e, e.st, w.src))
        /\ UNCHANGED <<rsp, llc, dram, blocking, pending>>
     \/ /\ e.st = "S"
        /\ last
        /\ SetEntry(a, NoEntry)
        /\ UNCHANGED <<rsp, llc, dram, blocking, pending>>
     \/ /\ e.st \in {"MS_AD", "MS_A"}
        /\ last
        /\ w.src \in e.sharers
        /\ SetEntry(a, DropSharer(e, NextOnLastPutS(e.st), w.src))
        /\ UNCHANGED <<rsp, llc, dram, blocking, pending>>
     \/ /\ e.st = "SI"
        /\ last
        /\ EvictFromLlc(a, llc[a])
        /\ UNCHANGED rsp
  /\ UNCHANGED <<req, fwd>>

-----------------------------------------------------------------------------
(* Responses to the directory.                                             *)

NextOnDataResp ==
  [s \in {"MS_AD", "MS_D", "MI_AD", "MI_D"} |->
     CASE s = "MS_AD" -> "MS_A"
       [] s = "MS_D" -> "S"
       [] s = "MI_AD" -> "MI_A"
       [] s = "MI_D" -> "I"]

\* Rows of DirDataResp that have data_update (the faulty variant drops one).
UpdatesOnDataResp_NotMS == {"MI_AD"}
UpdatesOnDataResp == {"MS_AD", "MI_AD"}

NextOnRespOk ==
  [s \in {"MM", "SM", "MS_A", "MS_AD", "MI_AD", "MI_A", "MI_RespOk"} |->
     CASE s = "MM" -> "M"
       [] s = "SM" -> "M"
       [] s = "MS_A" -> "S"
       [] s = "MS_AD" -> "MS_D"
       [] s = "MI_AD" -> "MI_D"
       [] s = "MI_A" -> "I"
       [] s = "MI_RespOk" -> "I"]

ReceiveDataResp(m) ==
  LET a == m.addr
      st == dir[a].st
  IN
  /\ m.dst = Directory
  /\ m.type = "Data"
  /\ rsp' = rsp \ {m}
  /\ \/ /\ st \in DOMAIN NextOnDataResp
        /\ MoveTo(a, NextOnDataResp[st])
        /\ llc' = [llc EXCEPT ![a] = IF st \in UpdatesOnDataResp THEN m.data
                                                                 ELSE @]
        /\ UNCHANGED dram
     \/ /\ st = "MI"
        /\ EvictFromLlc(a, m.data)
  /\ UNCHANGED <<req, wb, fwd>>

\* RespOk may not overtake the owner's data when DataBeforeRespOk holds.
RespOkArrives(m) == DataBeforeRespOk => ~DataInFlightToDirectory(m.addr)

ReceiveRespOk(m) ==
  LET a == m.addr
      st == dir[a].st
  IN
  /\ m.dst = Directory
  /\ m.type = "RespOk"
  /\ RespOkArrives(m)
  /\ st \in DOMAIN NextOnRespOk
  /\ MoveTo(a, NextOnRespOk[st])
  /\ rsp' = rsp \ {m}
  /\ UNCHANGED <<req, wb, fwd, llc, dram>>

\* A sharer answers the Inv of a replacement.
ReceiveInvAck(m) ==
  LET a == m.addr
      e == dir[a]
  IN
  /\ m.dst = Directory
  /\ m.type = "Ack"
  /\ e.st = "SI"
  /\ rsp' = rsp \ {m}
  /\ \/ /\ e.count # 1
        /\ m.src \in e.sharers
        /\ SetEntry(a, DropSharer(e, e.st, m.src))
        /\ UNCHANGED <<llc, dram, blocking, pending>>
     \/ /\ e.count = 1
        /\ EvictFromLlc(a, llc[a])
  /\ UNCHANGED <<req, wb, fwd>>

-----------------------------------------------------------------------------
RequestStep(c) == \E r \in NextRequests : r.src = c /\ TakeRequest(r)

WritebackStep == \E w \in wb : PutMFromOwner(w) \/ PutMFromNonOwner(w) \/ PutS(w)

DirResponseStep ==
  \E m \in rsp : ReceiveDataResp(m) \/ ReceiveRespOk(m) \/ ReceiveInvAck(m)

-----------------------------------------------------------------------------
(* Properties of the directory.                                            *)

\* sharer_count is the number of sharers (in SM and SI, of those left).
SharerCount == \A a \in Lines : dir[a].count = Cardinality(dir[a].sharers)

\* The LLC is inclusive: a line with a directory entry is in the data array.
Inclusive == \A a \in Lines : DirHit(a) => LlcHit(a)

\* blocking is set exactly while one entry is in transition, and then one
\* request is pending, which the end of the transaction unqueues or reruns.
BlockingDiscipline ==
  /\ \A a, b \in Lines : dir[a].st \in DirBusy /\ dir[b].st \in DirBusy => a = b
  /\ blocking <=> \E a \in Lines : dir[a].st \in DirBusy
  /\ blocking => pending # <<>>
  /\ Len(pending) <= 1

\* Whoever a forward has to go to, or an owner's PutM to come from, is known.
OwnerKnown ==
  \A a \in Lines : dir[a].st \in {"M", "MM", "SM", "MI"} => dir[a].owner \in Cores

\* What a directory step preserves, given only the types of the messages.
LLCInv == LLCTypeOK /\ Inclusive /\ BlockingDiscipline /\ OwnerKnown
=============================================================================
