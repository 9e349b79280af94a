---------------------------- MODULE Transactions ----------------------------
(***************************************************************************)
(* Where a line is.  LineInv says, for every state of a line's directory   *)
(* entry, what each core may hold or wait for, and which messages about    *)
(* the line are in flight: it accounts for every copy, request, write-     *)
(* back, forward, acknowledgement and datum.  It is the inductive          *)
(* invariant behind the coherence properties of Ditty; nothing in it       *)
(* speaks of two lines at once.  Current adds what the messages and the    *)
(* copies of a line contain.                                               *)
(***************************************************************************)
EXTENDS Ditty

-----------------------------------------------------------------------------
(* A line a as core c sees it.                                             *)

Pend(c, a) == IF HitPr(c, a) THEN pr[c] ELSE None

\* Requests the LLC has not served: in the network, or put aside while another
\* line makes room.  The request put aside for a's own transaction is served.
SetAside ==
  IF pending # <<>> /\ dir[Head(pending).addr].st \notin DirBusy
    THEN {Head(pending)} ELSE {}

Unserved == req \cup SetAside

Waiting(c, a) == \E r \in Unserved : r.src = c /\ r.addr = a

Wbs(c, a) == {w \in wb : w.src = c /\ w.addr = a}

\* Data about a on its way to n.
Datas(n, a) == {m \in rsp : m.type = "Data" /\ m.dst = n /\ m.addr = a}

Acks(a) == {m \in rsp : m.type = "Ack" /\ m.addr = a}

RespOks(a) ==
  {m \in rsp : m.type = "RespOk" /\ m.dst = Directory /\ m.addr = a}

Fwds(a) == {m \in fwd : m.addr = a}

\* The LLC has served c's load (or store) from its own copy, at once.
Granted(c, a) ==
  \E m \in Datas(c, a) :
    Datas(c, a) = {m} /\ m.src = Directory /\ m.acks = 0

\* The former owner has sent the line.
HandedOver(n, a) ==
  \E m \in Datas(n, a) : Datas(n, a) = {m} /\ m.src # Directory

-----------------------------------------------------------------------------
(* What a core can be to a line.                                           *)

\* The core's request for the line is in one of these states, its counters not
\* in use.
PendingIn(c, a, states) ==
  /\ Pend(c, a) # None
  /\ Pend(c, a).st \in states
  /\ Pend(c, a).acks = 0
  /\ Pend(c, a).total = 0

\* It has a request out that nobody acted on yet.
Asking(c, a, states) ==
  /\ Waiting(c, a)
  /\ Datas(c, a) = {}
  /\ PendingIn(c, a, states)

\* It has nothing to do with the line.
Apart(c, a) == ~Waiting(c, a) /\ Datas(c, a) = {} /\ Pend(c, a) = None

\* It has no copy and will get none that it may keep.
Absent(c, a) ==
  /\ tag[c][a] = "I"
  /\ Wbs(c, a) = {}
  /\ \/ Apart(c, a)
     \/ Asking(c, a, {"IS_D", "IM_AD"})
     \/ /\ ~Waiting(c, a)
        /\ PendingIn(c, a, {"IS_DI"})
        /\ Granted(c, a)

\* It gave its copy up; the write-back is on its way.
Leaving(c, a, type) ==
  /\ tag[c][a] = "I"
  /\ \E w \in Wbs(c, a) : Wbs(c, a) = {w} /\ w.type = type
  /\ Apart(c, a) \/ Asking(c, a, {"IS_D", "IM_AD"})

\* Its request is served, and it waits for data.
Served(c, a, states) ==
  /\ tag[c][a] = "I"
  /\ Wbs(c, a) = {}
  /\ ~Waiting(c, a)
  /\ PendingIn(c, a, states)

\* It has a shared copy, or one is on its way.
Sharing(c, a) ==
  \/ /\ Wbs(c, a) = {}
     /\ \/ tag[c][a] = "S" /\ Apart(c, a)
        \/ tag[c][a] = "I" /\ Asking(c, a, {"SM_AD"})
  \/ Served(c, a, {"IS_D"}) /\ Granted(c, a)

\* It has the only copy, or that is on its way.
Owning(c, a) ==
  \/ tag[c][a] = "M" /\ Wbs(c, a) = {} /\ Apart(c, a)
  \/ Served(c, a, {"IM_AD"}) /\ Granted(c, a)

\* The only copy is on its way to it, and it knows whom to pass it on to.
OwningFor(c, a, type, dest) ==
  /\ Served(c, a, {IF type = "GetS" THEN "IM_AD_S" ELSE "IM_AD_I"})
  /\ Granted(c, a)
  /\ Pend(c, a).fwdDest = dest

\* Its request is passed on to the owner, who has not sent the line yet, or has.
Expecting(c, a, st) == Served(c, a, {st}) /\ Datas(c, a) = {}

Receiving(c, a, st) == Served(c, a, {st}) /\ HandedOver(c, a)

\* It collects acknowledgements, and has so many to get.
Collecting(c, a, owed) ==
  /\ tag[c][a] = "I"
  /\ Wbs(c, a) = {}
  /\ ~Waiting(c, a)
  /\ Pend(c, a) # None
  /\ \/ /\ Pend(c, a).st \in {"IM_AD", "SM_AD"}
        /\ Pend(c, a).total = 0
        /\ \E m \in Datas(c, a) :
             /\ Datas(c, a) = {m}
             /\ m.src = Directory
             /\ Pend(c, a).acks + owed = m.acks
             /\ Pend(c, a).st = "IM_AD" => m.acks # 0
     \/ /\ Pend(c, a).st \in {"IM_A", "SM_A"}
        /\ Datas(c, a) = {}
        /\ Pend(c, a).acks + owed = Pend(c, a).total

-----------------------------------------------------------------------------
(* The line, by the state of its directory entry.                          *)

OthersAbsent(a, holders) == \A c \in Cores \ holders : Absent(c, a)

\* A core the directory counts as a sharer.
Keeping(c, a) == Sharing(c, a) \/ Leaving(c, a, "PutS")

\* The core the directory takes for the owner.
Possessing(c, a) == Owning(c, a) \/ Leaving(c, a, "PutM")

\* The request the LLC is working on, for a itself.
InService(a, c, type) ==
  /\ pending # <<>>
  /\ Head(pending).addr = a
  /\ Head(pending).src = c
  /\ Head(pending).type = type

\* The request the LLC is working on waits for a to leave.
MakingRoom(a) == pending # <<>> /\ Head(pending).addr # a

RespOkDue(a) == \E m \in RespOks(a) : RespOks(a) = {m}

\* No data and no acknowledgements are on their way to the LLC.
Quiet(a) == Acks(a) = {} /\ RespOks(a) = {} /\ Datas(Directory, a) = {}

\* The former owner o has still to hand the line to dest.
Giving(o, a, type, dest) ==
  \/ Owning(o, a) /\ ForwardMessage(type, a, o, dest) \in Fwds(a)
  \/ OwningFor(o, a, type, dest)
  \/ Leaving(o, a, "PutM")

\* The new owner q has the line; its RespOk is on its way.
Finished(a, q) ==
  /\ Acks(a) = {}
  /\ RespOkDue(a)
  /\ Possessing(q, a)
  /\ OthersAbsent(a, {q})

InvalidLine(a) == Quiet(a) /\ OthersAbsent(a, {})

SharedLine(a) ==
  /\ Quiet(a)
  /\ dir[a].sharers # {}
  /\ \A c \in dir[a].sharers : Keeping(c, a)
  /\ OthersAbsent(a, dir[a].sharers)

ModifiedLine(a) ==
  /\ Quiet(a)
  /\ \E o \in Cores : /\ dir[a].owner = o
                      /\ dir[a].sharers = {o}
                      /\ Possessing(o, a)
                      /\ OthersAbsent(a, {o})

\* Acknowledgements to n come from cores that lost the line, one from each.
AcksTo(n, a) ==
  /\ \A m \in Acks(a) : m.dst = n /\ m.sharer \in Cores /\ Absent(m.sharer, a)
  /\ \A m, k \in Acks(a) : m.sharer = k.sharer => m = k

\* A sharer that has still to acknowledge to n: it was told to, or is leaving.
Owing(c, a, n) ==
  \/ Leaving(c, a, "PutS")
  \/ Sharing(c, a) /\ ForwardMessage("Inv", a, c, n) \in Fwds(a)

\* The sharers whose acknowledgement q has still to get.
Debtors(q, a) ==
  {s \in Cores \ {q} : ~Absent(s, a) \/ \E m \in Acks(a) : m.sharer = s}

\* SM: the new owner collects the acknowledgements of the former sharers.
UpgradedLine(a) ==
  /\ Datas(Directory, a) = {}
  /\ \E q \in Cores :
       /\ InService(a, q, "GetM")
       /\ dir[a].owner = q
       /\ dir[a].sharers = {q}
       /\ \/ /\ RespOks(a) = {}
             /\ Collecting(q, a, Cardinality(Debtors(q, a)))
             /\ AcksTo(q, a)
             /\ \A c \in Cores \ {q} : Absent(c, a) \/ Owing(c, a, q)
          \/ Finished(a, q)

\* MM: the former owner hands the line to the new one.
HandedOverLine(a) ==
  /\ Datas(Directory, a) = {}
  /\ \E q \in Cores :
       /\ InService(a, q, "GetM")
       /\ dir[a].owner = q
       /\ dir[a].sharers = {q}
       /\ \/ /\ Acks(a) = {}
             /\ RespOks(a) = {}
             /\ \E o \in Cores \ {q} :
                  /\ OthersAbsent(a, {q, o})
                  /\ \/ Expecting(q, a, "IM_AD") /\ Giving(o, a, "GetM", q)
                     \/ Receiving(q, a, "IM_AD") /\ Absent(o, a)
          \/ Finished(a, q)

\* MS_AD: the former owner has still to send the line to q and the LLC.
Downgrading(a, q) ==
  /\ Quiet(a)
  /\ dir[a].owner = None
  /\ Expecting(q, a, "IS_D")
  /\ \E o \in Cores \ {q} : /\ dir[a].sharers = {o, q}
                            /\ Giving(o, a, "GetS", q)
                            /\ OthersAbsent(a, {o, q})

\* It has sent it to both; sharers may have left since.
Downgraded(a, q) ==
  /\ Acks(a) = {}
  /\ dir[a].sharers # {}
  /\ OthersAbsent(a, dir[a].sharers)
  /\ \/ /\ RespOks(a) = {}
        /\ Receiving(q, a, "IS_D")
        /\ q \in dir[a].sharers
        /\ \A c \in dir[a].sharers \ {q} : Keeping(c, a)
     \/ /\ RespOkDue(a)
        /\ \A c \in dir[a].sharers : Keeping(c, a)

DowngradedLine(a) ==
  \E q \in Cores :
    /\ InService(a, q, "GetS")
    /\ CASE dir[a].st = "MS_AD" -> \/ Downgrading(a, q)
                                   \/ /\ Downgraded(a, q)
                                      /\ HandedOver(Directory, a)
         [] dir[a].st = "MS_A" -> Downgraded(a, q) /\ Datas(Directory, a) = {}
         [] dir[a].st = "MS_D" -> /\ Acks(a) = {}
                                  /\ RespOks(a) = {}
                                  /\ HandedOver(Directory, a)
                                  /\ dir[a].sharers # {}
                                  /\ \A c \in dir[a].sharers : Keeping(c, a)
                                  /\ OthersAbsent(a, dir[a].sharers)

\* MI_AD, MI_A, MI_D, MI_RespOk: all have left, data or RespOk are still due.
AbandonedLine(a) ==
  /\ pending # <<>>
  /\ Head(pending).addr = a
  /\ Acks(a) = {}
  /\ OthersAbsent(a, {})
  /\ IF dir[a].st \in {"MI_AD", "MI_D"} THEN HandedOver(Directory, a)
                                        ELSE Datas(Directory, a) = {}
  /\ IF dir[a].st = "MI_D" THEN RespOks(a) = {} ELSE RespOkDue(a)

\* SI: the sharers are told to give up the line for a replacement.
RecalledLine(a) ==
  /\ MakingRoom(a)
  /\ RespOks(a) = {}
  /\ Datas(Directory, a) = {}
  /\ dir[a].sharers # {}
  /\ AcksTo(Directory, a)
  /\ \A m \in Acks(a) : m.src = m.sharer /\ m.sharer \in dir[a].sharers
  /\ \A c \in dir[a].sharers : \/ Owing(c, a, Directory)
                               \/ \E m \in Acks(a) : m.sharer = c
  /\ OthersAbsent(a, dir[a].sharers)

\* MI: the owner is.
RecalledFromOwner(a) ==
  /\ MakingRoom(a)
  /\ Acks(a) = {}
  /\ RespOks(a) = {}
  /\ \E o \in Cores :
       /\ dir[a].owner = o
       /\ dir[a].sharers = {o}
       /\ OthersAbsent(a, {o})
       /\ \/ Giving(o, a, "GetM", Directory) /\ Datas(Directory, a) = {}
          \/ Absent(o, a) /\ HandedOver(Directory, a)

HoldersInv(a) ==
  LET st == dir[a].st IN
  /\ st = "I" => InvalidLine(a)
  /\ st = "S" => SharedLine(a)
  /\ st = "M" => ModifiedLine(a)
  /\ st = "SM" => UpgradedLine(a)
  /\ st = "MM" => HandedOverLine(a)
  /\ st \in {"MS_AD", "MS_A", "MS_D"} => DowngradedLine(a)
  /\ st \in {"MI_AD", "MI_A", "MI_D", "MI_RespOk"} => AbandonedLine(a)
  /\ st = "SI" => RecalledLine(a)
  /\ st = "MI" => RecalledFromOwner(a)

-----------------------------------------------------------------------------
(* Forwards and requests.                                                  *)

Gone(c, a) == tag[c][a] = "I" /\ Pend(c, a) = None

\* The core the forward was for has given the line up.
Stale(m, a) == Gone(m.dst, a)

\* The forward of the transaction in progress.
Live(m, a) ==
  \/ /\ m.type = "Inv"
     /\ Sharing(m.dst, a)
     /\ \/ dir[a].st = "SM" /\ m.respondTo = dir[a].owner
        \/ dir[a].st = "SI" /\ m.respondTo = Directory
  \/ /\ m.type = "GetM"
     /\ Owning(m.dst, a)
     /\ \/ dir[a].st = "MM" /\ m.respondTo = dir[a].owner
        \/ dir[a].st = "MI" /\ m.respondTo = Directory
  \/ /\ m.type = "GetS"
     /\ Owning(m.dst, a)
     /\ dir[a].st = "MS_AD"
     /\ m.respondTo = Head(pending).src

\* Those who share or own the line when the transaction ends, as far as they
\* have been settled.
Recipients(a) ==
  CASE dir[a].st = "MS_AD" /\ Datas(Directory, a) = {} -> {Head(pending).src}
    [] dir[a].st \in {"SI", "MI"} -> {}
    [] OTHER -> dir[a].sharers

ForwardsInv(a) ==
  \A m \in Fwds(a) : (Stale(m, a) \/ Live(m, a)) /\ m.dst \notin Recipients(a)

LineInv(a) == HoldersInv(a) /\ ForwardsInv(a)

\* Every request that is not served yet is the one its core is waiting for, and
\* its only one; what it writes back is another line.
RequestsInv ==
  /\ SetAside \cap req = {}
  /\ pending # <<>> => Head(pending).victim # Head(pending).addr
  /\ \A r \in Unserved :
       /\ Pend(r.src, r.addr) # None
       /\ (r.type = "GetS") <=> (Pend(r.src, r.addr).st = "IS_D")
       /\ r.victim # r.addr
       /\ \A s \in Unserved : s.src = r.src => s = r

\* An upgrade keeps its way and writes nothing back.
UpgradesInv ==
  \A r \in req :
    pr[r.src] # None /\ pr[r.src].st = "SM_AD" => r.victim = None

\* The inductive invariant of CoherenceProofs.
CoherenceInv == Inv /\ SharerCount /\ RequestsInv /\ \A a \in Lines : LineInv(a)

-----------------------------------------------------------------------------
(* Responses to the LLC.                                                   *)

\* RespOk goes to the LLC.
RespOkToDirectory == \A m \in rsp : m.type = "RespOk" => m.dst = Directory

\* The LLC never waits for the owner's data without the RespOk: so it is when
\* data comes first.
InOrder == \A a \in Lines : dir[a].st \notin {"MS_D", "MI_D"}

OrderedInv == CoherenceInv /\ InOrder

-----------------------------------------------------------------------------
(* Queues.                                                                 *)

\* One write-back at most was left behind by its request.
OneDue == \A w, v \in wb : WritebackDue(w) /\ WritebackDue(v) => w = v

\* A core does not load a line that it owns: there is another one.
TwoCores ==
  \A a \in Lines :
    dir[a].st \in {"MS_AD", "MI_AD"} => \E c, d \in Cores : c # d

-----------------------------------------------------------------------------
(* Contents.                                                               *)

\* A datum that the LLC will keep, or a load when it is done.
ToBeKept(m) ==
  /\ m.type = "Data"
  /\ m.dst = Directory \/ (HitPr(m.dst, m.addr) /\ pr[m.dst].st = "IS_D")

CopiesCurrent(a) ==
  \A c \in Cores : tag[c][a] # "I" => data[c][a] = latest[a]

DataCurrent(a) ==
  \A m \in rsp : ToBeKept(m) /\ m.addr = a => m.data = latest[a]

WritebacksCurrent(a) ==
  \A w \in wb : w.type = "PutM" /\ w.addr = a => w.data = latest[a]

\* States of an entry in which no store was completed since the LLC last got
\* the line.
Clean == {"S", "SI", "MS_A", "MI_A", "MI_RespOk"}

MemoryCurrent(a) ==
  /\ dir[a].st \in Clean => llc[a] = latest[a]
  /\ DirState(a) = "V" => llc[a] = latest[a]
  /\ DirState(a) = "I" => dram[a] = latest[a]

\* Whatever somebody will read of the line, or keep, is what it was last given.
Current(a) ==
  CopiesCurrent(a) /\ DataCurrent(a) /\ WritebacksCurrent(a) /\ MemoryCurrent(a)
=============================================================================
