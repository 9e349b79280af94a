-------------------------- MODULE CoherenceProofs --------------------------
(***************************************************************************)
(* CoherenceInv through the steps of the LLC, hence as an invariant of the *)
(* system, and what follows from it: the coherence properties of Ditty, for*)
(* every number of cores, lines, values and ways.  Each handler of the LLC *)
(* moves the entry of one line as the roles of the cores to that line      *)
(* allow, or starts the request over for a line that has left.             *)
(***************************************************************************)
EXTENDS CacheCoherenceProofs

-----------------------------------------------------------------------------
(* The frame of a step of the LLC.                                         *)

\* A step of the LLC that is about line a only.
DirStepAt(a) ==
  /\ UNCHANGED <<tag, pr>>
  /\ \A b \in Lines : b # a =>
       /\ dir'[b] = dir[b]
       /\ dir[b].st \in DirBusy => pending' = pending
       /\ SameResponses(b)
       /\ Fwds(b)' = Fwds(b)
       /\ \A d \in Cores : /\ Wbs(d, b)' = Wbs(d, b)
                           /\ Waiting(d, b)' <=> Waiting(d, b)

\* The caches stay as they are, and so do the other lines and every core to
\* which and from which nothing about a is sent.
LEMMA DirFrame ==
  ASSUME NEW a, DirStepAt(a)
  PROVE  /\ \A d, b : Pend(d, b)' = Pend(d, b) /\ (Gone(d, b)' <=> Gone(d, b))
         /\ \A b \in Lines : b # a => SameLine(b)
         /\ \A d : /\ Wbs(d, a)' = Wbs(d, a)
                   /\ Waiting(d, a)' <=> Waiting(d, a)
                   /\ Datas(d, a)' = Datas(d, a)
                   => SameCore(d, a) /\ Kept(d, a)
<1>1. UNCHANGED <<tag, pr>>
  BY DEF DirStepAt
<1>2. \A d, b : Pend(d, b)' = Pend(d, b)
  BY <1>1 DEF Pend, HitPr
<1>3. \A d, b : Gone(d, b)' <=> Gone(d, b)
  BY <1>1, <1>2 DEF Gone
<1>4. \A b \in Lines : b # a => SameLine(b)
  BY <1>1, <1>2 DEF DirStepAt, SameLine, SameResponses, LineSteady, SameCore
<1>5. \A d : /\ Wbs(d, a)' = Wbs(d, a)
             /\ Waiting(d, a)' <=> Waiting(d, a)
             /\ Datas(d, a)' = Datas(d, a)
             => SameCore(d, a) /\ Kept(d, a)
  BY <1>1, <1>2, SameCoreKept DEF SameCore
<1> QED
  BY <1>2, <1>3, <1>4, <1>5

\* It is enough to look at the line and at the requests.
LEMMA DirStepAtCoherent ==
  ASSUME Inv, Coherent, NEW a \in Lines, DirStepAt(a),
         dir'[a].count = Cardinality(dir'[a].sharers),
         RequestsInv', LineInv(a)'
  PROVE  Coherent'
<1>1. \A b \in Lines : LineInv(b)'
  BY DirFrame, SameLineKept DEF Coherent
<1>2. SharerCount'
  <2>1. \A b \in Lines : b # a => dir'[b] = dir[b]
    BY DEF DirStepAt
  <2> QED
    BY <2>1 DEF Coherent, SharerCount
<1> QED
  BY <1>1, <1>2 DEF Coherent

\* Forwards after a step of the LLC: those that were stale are, and new ones
\* belong to the transaction that starts.
LEMMA ForwardsAfter ==
  ASSUME NEW a, ForwardsInv(a), DirStepAt(a),
         \A m \in Fwds(a)' : /\ \/ m \in Fwds(a) /\ ~Live(m, a)
                                \/ Live(m, a)'
                                \/ Gone(m.dst, a)
                             /\ m.dst \notin Recipients(a)'
  PROVE  ForwardsInv(a)'
BY DirFrame DEF ForwardsInv, Stale

\* A line that nobody holds, or that is not in transition, has stale forwards
\* only.
LEMMA OnlyStale ==
  ASSUME NEW a, ForwardsInv(a),
         \/ dir[a].st \notin {"SM", "SI", "MM", "MI", "MS_AD"}
         \/ \A m \in Fwds(a) : ~Sharing(m.dst, a) /\ ~Owning(m.dst, a)
  PROVE  \A m \in Fwds(a) : /\ ~Live(m, a) /\ Gone(m.dst, a)
                            /\ m.dst \notin Recipients(a)
BY DEF ForwardsInv, Live, Stale

\* Every core but the holders is absent.
LEMMA AbsentKept ==
  ASSUME NEW a, NEW holders, NEW c, OthersAbsent(a, holders),
         \A d \in Cores : d # c => Kept(d, a)
  PROVE  \A d \in Cores : d # c /\ d \notin holders => Absent(d, a)'
BY DEF OthersAbsent, Kept

-----------------------------------------------------------------------------
(* The requests, as the LLC works on them.                                 *)

\* The step keeps the requests, those put aside included.
LEMMA SameRequests ==
  ASSUME RequestsInv, UNCHANGED <<tag, pr, req, pending>>, NEW a,
         pending # <<>> /\ Head(pending).addr = a
           => (dir'[a].st \in DirBusy <=> dir[a].st \in DirBusy),
         pending # <<>> /\ Head(pending).addr # a
           => dir'[Head(pending).addr] = dir[Head(pending).addr]
  PROVE  /\ RequestsInv'
         /\ \A d, b : Waiting(d, b)' <=> Waiting(d, b)
<1>1. SetAside' = SetAside /\ Unserved' = Unserved
  <2>1. SetAside' = SetAside
    BY DEF SetAside
  <2> QED
    BY <2>1 DEF Unserved
<1>2. \A d, b : Pend(d, b)' = Pend(d, b)
  BY DEF Pend, HitPr
<1> QED
  BY <1>1, <1>2 DEF RequestsInv, Waiting

\* The transaction of the pending request ends.
LEMMA RequestFinished ==
  ASSUME RequestsInv, UNCHANGED <<tag, pr, req>>, pending' = <<>>,
         pending # <<>>, dir[Head(pending).addr].st \in DirBusy
  PROVE  /\ RequestsInv'
         /\ \A d, b : Waiting(d, b)' <=> Waiting(d, b)
<1>1. SetAside' = {} /\ SetAside = {} /\ Unserved' = Unserved
  <2>1. SetAside' = {} /\ SetAside = {}
    BY DEF SetAside
  <2> QED
    BY <2>1 DEF Unserved
<1>2. \A d, b : Pend(d, b)' = Pend(d, b)
  BY DEF Pend, HitPr
<1> QED
  BY <1>1, <1>2 DEF RequestsInv, Waiting

\* The request in service starts over.
LEMMA RequestRestarted ==
  ASSUME Inv, RequestsInv, UNCHANGED <<tag, pr, req, pending>>,
         NEW a \in Lines, NEW q \in Cores, NEW type,
         InService(a, q, type), dir[a].st \in DirBusy, dir'[a].st \notin DirBusy,
         ~Waiting(q, a), Pend(q, a) # None,
         (type = "GetS") <=> (Pend(q, a).st = "IS_D")
  PROVE  /\ RequestsInv'
         /\ Waiting(q, a)'
         /\ \A d, b : d # q \/ b # a => (Waiting(d, b)' <=> Waiting(d, b))
<1> DEFINE r == Head(pending)
<1>1. r.addr = a /\ r.src = q /\ r.type = type /\ pending # <<>>
  BY DEF InService
<1>2. SetAside = {} /\ SetAside' = {r} /\ Unserved = req /\ Unserved' = req \cup {r}
  <2>1. SetAside = {} /\ SetAside' = {r}
    BY <1>1 DEF SetAside
  <2> QED
    BY <2>1 DEF Unserved
<1>3. \A d, b : Pend(d, b)' = Pend(d, b)
  BY DEF Pend, HitPr
<1>4. \A s \in req : s.src # q
  <2> SUFFICES ASSUME NEW s \in req, s.src = q PROVE FALSE
    OBVIOUS
  <2>1. Pend(s.src, s.addr) # None
    BY <1>2 DEF RequestsInv
  <2>2. s.addr = a
    BY <2>1 DEF Pend, HitPr
  <2> QED
    BY <1>2, <2>2 DEF Waiting
<1> HIDE DEF r
<1>5. /\ Waiting(q, a)'
      /\ \A d, b : d # q \/ b # a => (Waiting(d, b)' <=> Waiting(d, b))
  BY <1>1, <1>2 DEF Waiting
<1>6. r.victim # r.addr /\ Head(pending)' = r /\ pending' # <<>>
  BY <1>1 DEF RequestsInv, r
<1>7. RequestsInv'
  <2>1. SetAside' \cap req' = {}
    BY <1>1, <1>2, <1>4
  <2>2. pending' # <<>> => Head(pending)'.victim # Head(pending)'.addr
    BY <1>6
  <2> SUFFICES ASSUME NEW s \in req \cup {r}
               PROVE  /\ Pend(s.src, s.addr)' # None
                      /\ (s.type = "GetS") <=> (Pend(s.src, s.addr)'.st = "IS_D")
                      /\ s.victim # s.addr
                      /\ \A t \in req \cup {r} : t.src = s.src => t = s
    BY <1>2, <2>1, <2>2 DEF RequestsInv
  <2>3. CASE s = r
    BY <1>1, <1>3, <1>4, <1>6, <2>3
  <2>4. CASE s \in req
    BY <1>1, <1>2, <1>3, <1>4, <2>4 DEF RequestsInv
  <2> QED
    BY <2>3, <2>4
<1> QED
  BY <1>5, <1>7

\* What is known of a request the LLC reads, and that write-backs of a core that
\* waits for the line have been read before.
LEMMA TakenRequest ==
  ASSUME Inv, RequestsInv, NEW r, Takes(r)
  PROVE  /\ r \in Unserved /\ r.addr \in Lines /\ r.src \in Cores
         /\ r.type \in {"GetS", "GetM"}
         /\ PendingAfterRead = <<>>
         /\ ~blocking /\ \A b \in Lines : dir[b].st \notin DirBusy
         /\ Waiting(r.src, r.addr) /\ Pend(r.src, r.addr) # None
         /\ (r.type = "GetS") <=> (Pend(r.src, r.addr).st = "IS_D")
         /\ r.victim # r.addr
         /\ \A s \in Unserved : s.src = r.src => s = r
         /\ Wbs(r.src, r.addr) = {}
         /\ \A d, b : Wbs(d, b) # {} => Pend(d, b) = None
         /\ SetAside = IF pending = <<>> THEN {} ELSE {r}
<1>1. /\ r.addr \in Lines /\ r.src \in Cores /\ ~blocking
      /\ \A b \in Lines : dir[b].st \notin DirBusy
  BY RequestRead DEF Inv
<1>2. /\ pending \in Seq(Request) /\ Len(pending) <= 1
      /\ pending # <<>> => Head(pending) \in Request /\ Tail(pending) = <<>>
  BY PendingStream DEF Inv, LLCInv, LLCTypeOK, BlockingDiscipline
<1>3. r \in NextRequests /\ \A w \in wb : ~WritebackDue(w)
  BY DEF Takes, MayTake
<1>4. SetAside = IF pending = <<>> THEN {} ELSE {r}
  BY <1>1, <1>3 DEF SetAside, NextRequests
<1>5. r \in Unserved
  BY <1>3, <1>4 DEF Unserved, NextRequests
<1>6. r.type \in {"GetS", "GetM"}
  BY <1>5, UnservedTypes DEF Request
<1>7. PendingAfterRead = <<>>
  BY <1>2 DEF PendingAfterRead
<1>8. /\ Pend(r.src, r.addr) # None
      /\ (r.type = "GetS") <=> (Pend(r.src, r.addr).st = "IS_D")
      /\ r.victim # r.addr
      /\ \A s \in Unserved : s.src = r.src => s = r
      /\ Waiting(r.src, r.addr)
  BY <1>5 DEF RequestsInv, Waiting
<1>9. \A w \in wb : Pend(w.src, w.addr) = None
  <2> SUFFICES ASSUME NEW w \in wb PROVE Pend(w.src, w.addr) = None
    OBVIOUS
  <2>1. PICK s \in req : s.src = w.src /\ s.victim = w.addr
    BY <1>3 DEF WritebackDue
  <2>2. s \in Unserved
    BY DEF Unserved
  <2>3. Pend(s.src, s.addr) # None /\ s.victim # s.addr
    BY <2>2 DEF RequestsInv
  <2> QED
    BY <2>1, <2>3 DEF Pend, HitPr
<1>10. \A d, b : Wbs(d, b) # {} => Pend(d, b) = None
  BY <1>9 DEF Wbs
<1>11. Wbs(r.src, r.addr) = {}
  BY <1>8, <1>10
<1> QED
  BY <1>1, <1>4, <1>5, <1>6, <1>7, <1>8, <1>10, <1>11

\* The request is served, at once or by the transaction that starts.
LEMMA RequestTaken ==
  ASSUME Inv, RequestsInv, NEW r, Takes(r), UNCHANGED <<tag, pr>>,
         \/ NoQueue
         \/ Queue(r) /\ dir'[r.addr].st \in DirBusy
  PROVE  /\ RequestsInv'
         /\ ~Waiting(r.src, r.addr)'
         /\ \A d, b : d # r.src \/ b # r.addr => (Waiting(d, b)' <=> Waiting(d, b))
         /\ pending' # <<>> => Head(pending)' = r
         /\ NoQueue => pending' = <<>>
         /\ Queue(r) => pending' # <<>> /\ Head(pending)' = r
<1>1. /\ r \in Unserved /\ PendingAfterRead = <<>>
      /\ \A s \in Unserved : s.src = r.src => s = r
      /\ r.victim # r.addr
      /\ SetAside = IF pending = <<>> THEN {} ELSE {r}
  BY TakenRequest
<1>2. /\ NoQueue => pending' = <<>>
      /\ Queue(r) => pending' # <<>> /\ Head(pending)' = r
  BY <1>1 DEF NoQueue, Queue
<1>3. SetAside' = {}
  <2>1. pending' # <<>> => dir'[Head(pending)'.addr].st \in DirBusy
    BY <1>2
  <2> QED
    BY <2>1 DEF SetAside
<1>4. req' = IF pending # <<>> THEN req ELSE req \ {r}
  BY DEF Takes
<1>5. SetAside \cap req = {}
  BY DEF RequestsInv
<1>6. Unserved' = Unserved \ {r}
  BY <1>1, <1>3, <1>4, <1>5 DEF Unserved
<1>7. \A d, b : Pend(d, b)' = Pend(d, b)
  BY DEF Pend, HitPr
<1>8. RequestsInv'
  BY <1>1, <1>2, <1>3, <1>6, <1>7 DEF RequestsInv
<1>9. /\ ~Waiting(r.src, r.addr)'
      /\ \A d, b : d # r.src \/ b # r.addr => (Waiting(d, b)' <=> Waiting(d, b))
  BY <1>1, <1>6 DEF Waiting
<1> QED
  BY <1>2, <1>8, <1>9

\* The request waits for another line to leave.
LEMMA RequestPutAside ==
  ASSUME Inv, RequestsInv, NEW r, Takes(r), UNCHANGED <<tag, pr>>,
         Queue(r), dir'[r.addr].st \notin DirBusy
  PROVE  /\ RequestsInv'
         /\ \A d, b : Waiting(d, b)' <=> Waiting(d, b)
         /\ pending' # <<>> /\ Head(pending)' = r
<1>1. /\ r \in Unserved /\ PendingAfterRead = <<>>
      /\ r.victim # r.addr
      /\ SetAside = IF pending = <<>> THEN {} ELSE {r}
  BY TakenRequest
<1>2. pending' # <<>> /\ Head(pending)' = r
  BY <1>1 DEF Queue
<1>3. SetAside' = {r}
  BY <1>2 DEF SetAside
<1>4. req' = IF pending # <<>> THEN req ELSE req \ {r}
  BY DEF Takes
<1>5. SetAside \cap req = {}
  BY DEF RequestsInv
<1>6. Unserved' = Unserved /\ SetAside' \cap req' = {}
  BY <1>1, <1>3, <1>4, <1>5 DEF Unserved
<1>7. \A d, b : Pend(d, b)' = Pend(d, b)
  BY DEF Pend, HitPr
<1>8. RequestsInv'
  BY <1>1, <1>2, <1>6, <1>7 DEF RequestsInv
<1> QED
  BY <1>2, <1>6, <1>8 DEF Waiting

-----------------------------------------------------------------------------
(* Requests served at once.                                                *)

\* A core that waits for the LLC to read its request.
LEMMA AskerRole ==
  ASSUME NEW c, NEW a, Waiting(c, a), Wbs(c, a) = {}, Pend(c, a) # None
  PROVE  /\ ~Owning(c, a) /\ ~Gone(c, a)
         /\ \A type : ~Leaving(c, a, type)
         /\ Absent(c, a) => /\ tag[c][a] = "I" /\ Datas(c, a) = {}
                            /\ PendingIn(c, a, {"IS_D", "IM_AD"})
         /\ Sharing(c, a) => /\ tag[c][a] = "I" /\ Datas(c, a) = {}
                             /\ PendingIn(c, a, {"SM_AD"})
BY DEF Owning, Gone, Leaving, Absent, Sharing, Served, Apart, Asking, Granted

\* The LLC sends its own copy to c.
LEMMA DataSent ==
  ASSUME NEW r, NEW acks, NEW d, SendsData(r, acks, d), NEW a, a = r.addr,
         NEW c, c = r.src, Datas(c, a) = {}
  PROVE  /\ \E m : /\ Datas(c, a)' = {m} /\ m.src = Directory
                   /\ m.acks = acks
         /\ \A n : n # c => Datas(n, a)' = Datas(n, a)
         /\ Acks(a)' = Acks(a) /\ RespOks(a)' = RespOks(a)
         /\ \A b : b # a => SameResponses(b)
<1> DEFINE m == DataMessage(r.addr, Directory, r.src, acks, d)
<1>1. /\ m.type = "Data" /\ m.addr = a /\ m.dst = c /\ m.src = Directory
      /\ m.acks = acks
  BY DEF DataMessage
<1>2. rsp' = rsp \cup {m}
  BY DEF SendsData
<1> HIDE DEF m
<1>3. Datas(c, a)' = {m}
  BY <1>1, <1>2 DEF Datas
<1>4. \A n : n # c => Datas(n, a)' = Datas(n, a)
  BY <1>1, <1>2 DEF Datas
<1>5. Acks(a)' = Acks(a) /\ RespOks(a)' = RespOks(a)
  BY <1>1, <1>2 DEF Acks, RespOks
<1>6. \A b : b # a => SameResponses(b)
  BY <1>1, <1>2 DEF SameResponses, Datas, Acks, RespOks
<1> QED
  BY <1>1, <1>3, <1>4, <1>5, <1>6

\* A request read and answered with data, at once or as a transaction starts.
LEMMA AnsweredFrame ==
  ASSUME Inv, Coherent, NEW r, Takes(r), UNCHANGED <<tag, pr, wb>>,
         NoQueue \/ (Queue(r) /\ dir'[r.addr].st \in DirBusy),
         NEW acks, NEW d, SendsData(r, acks, d), Datas(r.src, r.addr) = {},
         \A b \in Lines : b # r.addr => dir'[b] = dir[b] /\ Fwds(b)' = Fwds(b),
         NEW c, c = r.src, NEW a, a = r.addr
  PROVE  /\ DirStepAt(a) /\ RequestsInv'
         /\ \A e \in Cores : e # c => SameCore(e, a) /\ Kept(e, a)
         /\ \A states : tag[c][a] = "I" /\ PendingIn(c, a, states) =>
              Served(c, a, states)'
         /\ \E m : Datas(c, a)' = {m} /\ m.src = Directory /\ m.acks = acks
         /\ acks = 0 => Granted(c, a)'
         /\ Acks(a)' = Acks(a) /\ RespOks(a)' = RespOks(a)
         /\ Datas(Directory, a)' = Datas(Directory, a)
<1>1. /\ a \in Lines /\ c \in Cores /\ Wbs(c, a) = {} /\ RequestsInv
      /\ \A b \in Lines : dir[b].st \notin DirBusy
  BY TakenRequest DEF Coherent
<1>2. /\ RequestsInv'
      /\ ~Waiting(c, a)'
      /\ \A e, b : e # c \/ b # a => (Waiting(e, b)' <=> Waiting(e, b))
  BY <1>1, RequestTaken
<1>3. /\ \E m : Datas(c, a)' = {m} /\ m.src = Directory /\ m.acks = acks
      /\ \A n : n # c => Datas(n, a)' = Datas(n, a)
      /\ Acks(a)' = Acks(a) /\ RespOks(a)' = RespOks(a)
      /\ \A b : b # a => SameResponses(b)
  BY DataSent
<1>4. \A e, b : Wbs(e, b)' = Wbs(e, b)
  BY DEF Wbs
<1>5. DirStepAt(a)
  BY <1>1, <1>2, <1>3, <1>4 DEF DirStepAt
<1>6. \A e \in Cores : e # c => SameCore(e, a) /\ Kept(e, a)
  BY <1>2, <1>3, <1>4, <1>5, DirFrame
<1>7. \A states : tag[c][a] = "I" /\ PendingIn(c, a, states) =>
        Served(c, a, states)'
  BY <1>1, <1>2, <1>4, <1>5, DirFrame DEF Served, PendingIn
<1>8. acks = 0 => Granted(c, a)'
  BY <1>3 DEF Granted
<1>9. Datas(Directory, a)' = Datas(Directory, a)
  BY <1>1, <1>3, ConstantsAssumption
<1> QED
  BY <1>2, <1>3, <1>5, <1>6, <1>7, <1>8, <1>9

\* A GetS answered from the LLC's copy; holders are the sharers before.
LEMMA GetSAnswered ==
  ASSUME Inv, Coherent, NEW r, Takes(r), r.type = "GetS", NEW a, a = r.addr,
         NEW c, c = r.src, UNCHANGED <<tag, pr, wb, fwd>>, NoQueue,
         NEW d, SendsData(r, 0, d),
         NEW holders \in SUBSET Cores,
         \/ dir[a].st = "I" /\ holders = {}
         \/ dir[a].st = "S" /\ holders = dir[a].sharers,
         Quiet(a), \A e \in holders : Keeping(e, a), OthersAbsent(a, holders),
         \A b \in Lines : b # a => dir'[b] = dir[b],
         dir'[a].st = "S", dir'[a].sharers = holders \cup {c},
         dir'[a].count = Cardinality(holders) + 1
  PROVE  Coherent'
<1>1. /\ a \in Lines /\ c \in Cores /\ Wbs(c, a) = {} /\ Waiting(c, a)
      /\ Pend(c, a) # None /\ Pend(c, a).st = "IS_D" /\ RequestsInv
  BY TakenRequest DEF Coherent
<1>2. c \notin holders /\ Absent(c, a)
  <2>1. ~Keeping(c, a)
    BY <1>1, AskerRole DEF Keeping, PendingIn
  <2> QED
    BY <1>1, <2>1 DEF OthersAbsent
<1>3. /\ tag[c][a] = "I" /\ Datas(c, a) = {} /\ ~Gone(c, a)
      /\ PendingIn(c, a, {"IS_D"})
  BY <1>1, <1>2, AskerRole DEF PendingIn
<1>4. \A b : Fwds(b)' = Fwds(b)
  BY DEF Fwds
<1>5. /\ DirStepAt(a) /\ RequestsInv'
      /\ \A e \in Cores : e # c => SameCore(e, a) /\ Kept(e, a)
      /\ Served(c, a, {"IS_D"})' /\ Granted(c, a)'
      /\ Acks(a)' = Acks(a) /\ RespOks(a)' = RespOks(a)
      /\ Datas(Directory, a)' = Datas(Directory, a)
  BY <1>3, <1>4, AnsweredFrame
<1>6. Sharing(c, a)'
  BY <1>5 DEF Sharing
<1>7. SharedLine(a)'
  <2>1. Quiet(a)'
    BY <1>5 DEF Quiet
  <2>2. \A e \in holders \cup {c} : Keeping(e, a)'
    BY <1>2, <1>5, <1>6 DEF Keeping, Kept
  <2>3. OthersAbsent(a, holders \cup {c})'
    BY <1>5 DEF OthersAbsent, Kept
  <2> QED
    BY <1>4, <2>1, <2>2, <2>3 DEF SharedLine
<1>8. HoldersInv(a)'
  BY <1>4, <1>7 DEF HoldersInv
<1>9. ForwardsInv(a)'
  <2>1. ForwardsInv(a)
    BY <1>1 DEF Coherent, LineInv
  <2>2. \A m \in Fwds(a) : /\ ~Live(m, a) /\ Gone(m.dst, a)
                           /\ m.dst \notin Recipients(a)
    BY <2>1, OnlyStale
  <2>3. Recipients(a)' = holders \cup {c}
    BY <1>4 DEF Recipients
  <2>4. dir[a].st = "S" => Recipients(a) = holders
    BY DEF Recipients
  <2>5. \A m \in Fwds(a)' : /\ m \in Fwds(a) /\ ~Live(m, a)
                            /\ m.dst \notin Recipients(a)'
    BY <1>3, <1>4, <2>2, <2>3, <2>4
  <2> QED
    BY <1>5, <2>1, <2>5, ForwardsAfter
<1>10. dir'[a].count = Cardinality(dir'[a].sharers)
  <2>1. IsFiniteSet(holders)
    BY ConstantsAssumption, FS_Subset
  <2>2. Cardinality(holders \cup {c}) = Cardinality(holders) + 1
    BY <1>2, <2>1, FS_AddElement
  <2> QED
    BY <1>4, <2>2
<1>11. LineInv(a)'
  BY <1>8, <1>9 DEF LineInv
<1> QED
  BY <1>1, <1>5, <1>10, <1>11, DirStepAtCoherent

\* GetS in I, V and S.
LEMMA GetSCoherent ==
  ASSUME Inv, Coherent, NEW r, GetSInvalid(r) \/ GetSValid(r) \/ GetSShared(r),
         UNCHANGED cacheVars
  PROVE  Coherent'
<1> DEFINE a == r.addr
           c == r.src
           holders == IF dir[a].st = "I" THEN {} ELSE dir[a].sharers
           entry == AddSharer(IF dir[a].st = "I" THEN NoEntry ELSE dir[a], "S", c)
<1>1. /\ Takes(r) /\ r.type = "GetS" /\ NoQueue
      /\ UNCHANGED <<tag, pr, wb, fwd>>
      /\ dir[a].st \in {"I", "S"}
      /\ dir' = [dir EXCEPT ![a] = entry]
  BY DEF GetSInvalid, GetSValid, GetSShared, cacheVars, SetEntry, DirHit
<1>2. PICK d : SendsData(r, 0, d)
  BY DEF GetSInvalid, GetSValid, GetSShared
<1>3. a \in Lines /\ c \in Cores
  BY <1>1, TakenRequest DEF Coherent
<1>4. dir[a] \in Entry
  BY <1>3 DEF Inv, LLCInv, LLCTypeOK
<1>5. /\ holders \in SUBSET Cores
      /\ \/ dir[a].st = "I" /\ holders = {}
         \/ dir[a].st = "S" /\ holders = dir[a].sharers
  BY <1>1, <1>4 DEF Entry
<1>6. /\ entry.st = "S" /\ entry.sharers = holders \cup {c}
      /\ entry.count = Cardinality(holders) + 1
  <2>1. dir[a].count = Cardinality(dir[a].sharers)
    BY <1>3 DEF Coherent, SharerCount
  <2> QED
    BY <1>1, <2>1, FS_EmptySet DEF AddSharer, NoEntry
<1> HIDE DEF entry
<1>7. /\ \A b \in Lines : b # a => dir'[b] = dir[b]
      /\ dir'[a].st = "S" /\ dir'[a].sharers = holders \cup {c}
      /\ dir'[a].count = Cardinality(holders) + 1
  BY <1>1, <1>3, <1>6 DEF Inv, LLCInv, LLCTypeOK
<1>8. /\ Quiet(a) /\ \A e \in holders : Keeping(e, a)
      /\ OthersAbsent(a, holders)
  BY <1>1, <1>3 DEF Coherent, LineInv, HoldersInv, InvalidLine, SharedLine
<1> HIDE DEF holders, a, c
<1> QED
  <2>1. a = r.addr /\ c = r.src
    BY DEF a, c
  <2> QED
    BY <1>1, <1>2, <1>5, <1>6, <1>7, <1>8, <2>1, GetSAnswered

\* GetM of a line no cache has.
LEMMA GetMUncachedCoherent ==
  ASSUME Inv, Coherent, NEW r, GetMUncached(r), UNCHANGED cacheVars
  PROVE  Coherent'
<1> DEFINE a == r.addr
           c == r.src
           entry == MarkOwner("M", c)
           d == IF LlcHit(a) THEN Garbage ELSE dram[a]
<1>1. /\ Takes(r) /\ r.type = "GetM" /\ NoQueue
      /\ UNCHANGED <<tag, pr, wb, fwd>>
      /\ dir[a].st = "I"
      /\ dir' = [dir EXCEPT ![a] = entry]
      /\ SendsData(r, 0, d)
  BY DEF GetMUncached, cacheVars, SetEntry, DirHit
<1>2. /\ a \in Lines /\ c \in Cores /\ Wbs(c, a) = {} /\ Waiting(c, a)
      /\ Pend(c, a) # None /\ Pend(c, a).st # "IS_D" /\ RequestsInv
  BY <1>1, TakenRequest DEF Coherent
<1>3. Quiet(a) /\ OthersAbsent(a, {}) /\ ForwardsInv(a)
  BY <1>1, <1>2 DEF Coherent, LineInv, HoldersInv, InvalidLine
<1>4. /\ tag[c][a] = "I" /\ Datas(c, a) = {} /\ ~Gone(c, a)
      /\ PendingIn(c, a, {"IM_AD"})
  BY <1>2, <1>3, AskerRole DEF PendingIn, OthersAbsent
<1>5. /\ dir'[a].st = "M" /\ dir'[a].owner = c /\ dir'[a].sharers = {c}
      /\ dir'[a].count = 1
      /\ \A b \in Lines : b # a => dir'[b] = dir[b]
      /\ \A b : Fwds(b)' = Fwds(b)
  BY <1>1, <1>2 DEF Inv, LLCInv, LLCTypeOK, Fwds, MarkOwner
<1> HIDE DEF entry, d
<1>6. /\ DirStepAt(a) /\ RequestsInv'
      /\ \A e \in Cores : e # c => SameCore(e, a) /\ Kept(e, a)
      /\ Served(c, a, {"IM_AD"})' /\ Granted(c, a)'
      /\ Acks(a)' = Acks(a) /\ RespOks(a)' = RespOks(a)
      /\ Datas(Directory, a)' = Datas(Directory, a)
  BY <1>1, <1>4, <1>5, AnsweredFrame
<1> HIDE DEF a, c
<1>7. Owning(c, a)'
  BY <1>6 DEF Owning
<1>8. ModifiedLine(a)'
  <2>1. Quiet(a)' /\ Possessing(c, a)'
    BY <1>3, <1>6, <1>7 DEF Quiet, Possessing
  <2>2. OthersAbsent(a, {c})'
    BY <1>3, <1>6 DEF OthersAbsent, Kept
  <2> QED
    BY <1>2, <1>5, <2>1, <2>2 DEF ModifiedLine
<1>9. HoldersInv(a)'
  BY <1>5, <1>8 DEF HoldersInv
<1>10. ForwardsInv(a)'
  <2>1. \A m \in Fwds(a) : ~Live(m, a) /\ Gone(m.dst, a)
    BY <1>1, <1>3, OnlyStale
  <2>2. Recipients(a)' = {c}
    BY <1>5 DEF Recipients
  <2> QED
    BY <1>3, <1>4, <1>5, <1>6, <2>1, <2>2, ForwardsAfter
<1>11. dir'[a].count = Cardinality(dir'[a].sharers)
  BY <1>5, FS_Singleton
<1>12. LineInv(a)'
  BY <1>9, <1>10 DEF LineInv
<1> QED
  BY <1>2, <1>6, <1>11, <1>12, DirStepAtCoherent

-----------------------------------------------------------------------------
(* Requests that start a transaction.                                      *)

\* The forwards of a line after a multicast.
LEMMA ForwardsSent ==
  ASSUME NEW type, NEW a, NEW dests, NEW n, Sends(type, a, dests, n)
  PROVE  /\ \A b : b # a => Fwds(b)' = Fwds(b)
         /\ \A d \in dests : ForwardMessage(type, a, d, n) \in Fwds(a)'
         /\ \A m \in Fwds(a)' : \/ m \in Fwds(a)
                                \/ \E d \in dests : m = ForwardMessage(type, a, d, n)
<1>1. \A d : ForwardMessage(type, a, d, n).addr = a
  BY DEF ForwardMessage
<1> QED
  BY <1>1 DEF Sends, Fwds

\* What a multicast about line a leaves alone, when no line is in transition.
LEMMA SendingFrame ==
  ASSUME NEW a \in Lines, UNCHANGED <<tag, pr, wb, rsp>>,
         \A b \in Lines : dir[b].st \notin DirBusy,
         \A b \in Lines : b # a => dir'[b] = dir[b],
         NEW type, NEW dests, NEW n, Sends(type, a, dests, n),
         NEW c, \A d, b : d # c \/ b # a => (Waiting(d, b)' <=> Waiting(d, b))
  PROVE  /\ DirStepAt(a)
         /\ \A d : Datas(d, a)' = Datas(d, a)
         /\ Acks(a)' = Acks(a) /\ RespOks(a)' = RespOks(a)
         /\ Wbs(c, a)' = Wbs(c, a)
         /\ \A e \in Cores : e # c => SameCore(e, a) /\ Kept(e, a)
         /\ (Waiting(c, a)' <=> Waiting(c, a)) =>
              \A e \in Cores : SameCore(e, a) /\ Kept(e, a)
<1>1. \A d, b : Wbs(d, b)' = Wbs(d, b)
  BY DEF Wbs
<1>2. /\ \A d : Datas(d, a)' = Datas(d, a)
      /\ Acks(a)' = Acks(a) /\ RespOks(a)' = RespOks(a)
      /\ \A b : SameResponses(b)
  BY DEF Datas, Acks, RespOks, SameResponses
<1>3. \A b : b # a => Fwds(b)' = Fwds(b)
  BY ForwardsSent
<1>4. DirStepAt(a)
  BY <1>1, <1>2, <1>3 DEF DirStepAt
<1>5. /\ \A e \in Cores : e # c => SameCore(e, a) /\ Kept(e, a)
      /\ (Waiting(c, a)' <=> Waiting(c, a)) =>
           \A e \in Cores : SameCore(e, a) /\ Kept(e, a)
  BY <1>1, <1>2, <1>4, DirFrame
<1> QED
  BY <1>1, <1>2, <1>4, <1>5

\* The forwards of a line whose transaction starts.
LEMMA ForwardsStarted ==
  ASSUME NEW a, ForwardsInv(a), DirStepAt(a), dir[a].st \in {"S", "M"},
         NEW type, NEW dests, NEW n, Sends(type, a, dests, n),
         \A d \in dests : Gone(d, a) \/ Live(ForwardMessage(type, a, d, n), a)',
         \A d : d \in Recipients(a)' => ~Gone(d, a) /\ d \notin dests
  PROVE  ForwardsInv(a)'
<1>1. \A m \in Fwds(a) : ~Live(m, a) /\ Gone(m.dst, a)
  BY OnlyStale
<1>2. \A d : ForwardMessage(type, a, d, n).dst = d
  BY DEF ForwardMessage
<1>3. \A m \in Fwds(a)' : /\ \/ m \in Fwds(a) /\ ~Live(m, a)
                             \/ Live(m, a)'
                             \/ Gone(m.dst, a)
                          /\ m.dst \notin Recipients(a)'
  <2> SUFFICES ASSUME NEW m \in Fwds(a)'
               PROVE  /\ \/ m \in Fwds(a) /\ ~Live(m, a)
                         \/ Live(m, a)'
                         \/ Gone(m.dst, a)
                      /\ m.dst \notin Recipients(a)'
    OBVIOUS
  <2>1. CASE m \in Fwds(a)
    BY <1>1, <2>1
  <2>2. ASSUME NEW d \in dests, m = ForwardMessage(type, a, d, n)
        PROVE  (Live(m, a)' \/ Gone(m.dst, a)) /\ m.dst \notin Recipients(a)'
    BY <1>2, <2>2
  <2> QED
    BY <2>1, <2>2, ForwardsSent
<1> QED
  BY <1>3, ForwardsAfter

\* A core that wrote the line back before the LLC read a request has gone.
LEMMA LeaverGone ==
  ASSUME Inv, RequestsInv, NEW r, Takes(r), NEW d, NEW a, NEW type,
         Leaving(d, a, type)
  PROVE  Gone(d, a)
<1>1. Wbs(d, a) # {} /\ tag[d][a] = "I"
  BY DEF Leaving
<1> QED
  BY <1>1, TakenRequest DEF Gone

\* A line with an owner: who asks is not the owner.
LEMMA OwnedLineAsked ==
  ASSUME Inv, Coherent, NEW r, Takes(r), NEW a, a = r.addr, dir[a].st = "M",
         NEW c, c = r.src, NEW o, o = dir[a].owner
  PROVE  /\ a \in Lines /\ c \in Cores /\ o \in Cores /\ o # c
         /\ Quiet(a) /\ Possessing(o, a) /\ Absent(c, a)
         /\ OthersAbsent(a, {o})
         /\ tag[c][a] = "I" /\ Datas(c, a) = {} /\ Wbs(c, a) = {}
         /\ ~Gone(c, a)
         /\ PendingIn(c, a, {IF r.type = "GetS" THEN "IS_D" ELSE "IM_AD"})
<1>1. /\ a \in Lines /\ c \in Cores /\ Wbs(c, a) = {} /\ Waiting(c, a)
      /\ Pend(c, a) # None /\ (r.type = "GetS" <=> Pend(c, a).st = "IS_D")
  BY TakenRequest DEF Coherent
<1>2. /\ o \in Cores /\ Quiet(a) /\ Possessing(o, a) /\ OthersAbsent(a, {o})
  BY <1>1 DEF Coherent, LineInv, HoldersInv, ModifiedLine
<1>3. o # c
  BY <1>1, <1>2, AskerRole DEF Possessing
<1>4. Absent(c, a)
  BY <1>1, <1>2, <1>3 DEF OthersAbsent
<1> QED
  BY <1>1, <1>2, <1>3, <1>4, AskerRole DEF PendingIn

\* GetS of a modified line.
LEMMA GetSModifiedCoherent ==
  ASSUME Inv, Coherent, NEW r, GetSModified(r), UNCHANGED cacheVars
  PROVE  Coherent'
<1> DEFINE a == r.addr
           c == r.src
<1>16. PICK o : o = dir[a].owner
  OBVIOUS
<1> DEFINE dests == {o}
<1>1. /\ Takes(r) /\ r.type = "GetS" /\ dir[a].st = "M" /\ Queue(r)
      /\ a = r.addr /\ c = r.src /\ o = dir[a].owner
      /\ Sends("GetS", a, dests, c) /\ \A d : d \in dests <=> d = o
      /\ dir' = [dir EXCEPT ![a] = ToShared(dir[a], "MS_AD", c)]
      /\ UNCHANGED <<tag, pr, wb, rsp>>
  BY <1>16 DEF GetSModified, StartTransaction, SetEntry, cacheVars
<1> HIDE DEF a, c, dests
<1>2. /\ a \in Lines /\ c \in Cores /\ o \in Cores /\ o # c
      /\ Quiet(a) /\ Possessing(o, a) /\ Absent(c, a)
      /\ OthersAbsent(a, {o})
      /\ tag[c][a] = "I" /\ Datas(c, a) = {} /\ Wbs(c, a) = {}
      /\ ~Gone(c, a)
      /\ PendingIn(c, a, {"IS_D"})
  <2>1. Takes(r) /\ a = r.addr /\ dir[a].st = "M" /\ c = r.src /\ o = dir[a].owner
    BY <1>1
  <2>2. PendingIn(c, a, {IF r.type = "GetS" THEN "IS_D" ELSE "IM_AD"})
    BY <2>1, OwnedLineAsked
  <2>3. PendingIn(c, a, {"IS_D"})
    BY <1>1, <2>2
  <2>4. a \in Lines /\ c \in Cores /\ o \in Cores /\ o # c
    BY <2>1, OwnedLineAsked
  <2>5. Quiet(a) /\ Possessing(o, a) /\ Absent(c, a) /\ OthersAbsent(a, {o})
    BY <2>1, OwnedLineAsked
  <2>6. tag[c][a] = "I" /\ Datas(c, a) = {} /\ Wbs(c, a) = {} /\ ~Gone(c, a)
    BY <2>1, OwnedLineAsked
  <2> QED
    BY <2>3, <2>4, <2>5, <2>6
<1>3. /\ dir'[a].st = "MS_AD" /\ dir'[a].owner = None /\ dir'[a].count = 2
      /\ dir'[a].sharers = {o, c}
      /\ \A b \in Lines : b # a => dir'[b] = dir[b]
  BY <1>1, <1>2 DEF Inv, LLCInv, LLCTypeOK, ToShared
<1>4. /\ RequestsInv /\ RequestsInv' /\ ~Waiting(c, a)'
      /\ \A d, b : d # c \/ b # a => (Waiting(d, b)' <=> Waiting(d, b))
      /\ pending' # <<>> /\ Head(pending)' = r
      /\ \A b \in Lines : dir[b].st \notin DirBusy
  BY <1>1, <1>3, RequestTaken, TakenRequest DEF Coherent, DirBusy
<1>5. /\ DirStepAt(a)
      /\ \A d : Datas(d, a)' = Datas(d, a)
      /\ Acks(a)' = Acks(a) /\ RespOks(a)' = RespOks(a)
      /\ Wbs(c, a)' = Wbs(c, a)
      /\ \A e \in Cores : e # c => SameCore(e, a) /\ Kept(e, a)
  BY <1>1, <1>2, <1>3, <1>4, SendingFrame
<1>15. \A d : Gone(d, a)' <=> Gone(d, a)
  BY <1>5, DirFrame
<1>6. ForwardMessage("GetS", a, o, c) \in Fwds(a)'
  BY <1>1, ForwardsSent
<1>7. Expecting(c, a, "IS_D")'
  BY <1>2, <1>4, <1>5, DirFrame DEF Expecting, Served, PendingIn, DirStepAt
<1>8. Giving(o, a, "GetS", c)' /\ (Owning(o, a)' \/ Gone(o, a))
  <2>1. CASE Owning(o, a)
    BY <1>2, <1>5, <1>6, <1>15, <2>1 DEF Kept, Giving
  <2>2. CASE Leaving(o, a, "PutM")
    <3>1. Gone(o, a)
      BY <1>1, <1>4, <2>2, LeaverGone
    <3> QED
      BY <1>2, <1>5, <2>2, <3>1 DEF Kept, Giving
  <2> QED
    BY <1>2, <2>1, <2>2 DEF Possessing
<1>9. InService(a, c, "GetS")'
  BY <1>1, <1>4 DEF InService
<1>10. DowngradedLine(a)'
  <2>1. Quiet(a)'
    BY <1>2, <1>5 DEF Quiet
  <2>2. OthersAbsent(a, {o, c})'
    BY <1>2, <1>5 DEF OthersAbsent, Kept
  <2>3. Downgrading(a, c)'
    BY <1>2, <1>3, <1>7, <1>8, <2>1, <2>2 DEF Downgrading
  <2> QED
    BY <1>2, <1>3, <1>9, <2>3 DEF DowngradedLine
<1>11. HoldersInv(a)'
  BY <1>3, <1>10 DEF HoldersInv
<1>12. ForwardsInv(a)'
  <2>1. Recipients(a)' = {c}
    <3>1. Datas(Directory, a)' = {}
      BY <1>2, <1>5 DEF Quiet
    <3>2. Head(pending)'.src = c
      BY <1>1, <1>4
    <3> QED
      BY <1>3, <3>1, <3>2 DEF Recipients
  <2>2. Owning(o, a)' => Live(ForwardMessage("GetS", a, o, c), a)'
    <3>1. Head(pending)'.src = c
      BY <1>1, <1>4
    <3> QED
      BY <1>3, <3>1 DEF Live, ForwardMessage
  <2>3. ForwardsInv(a)
    BY <1>2 DEF Coherent, LineInv
  <2> QED
    BY <1>1, <1>2, <1>5, <1>8, <2>1, <2>2, <2>3, ForwardsStarted
<1>13. dir'[a].count = Cardinality(dir'[a].sharers)
  <2>1. IsFiniteSet({o}) /\ Cardinality({o}) = 1 /\ {o, c} = {o} \cup {c}
    BY FS_Singleton
  <2>2. Cardinality({o} \cup {c}) = Cardinality({o}) + 1
    BY <1>2, <2>1, FS_AddElement
  <2> QED
    BY <1>3, <2>1, <2>2
<1>14. LineInv(a)'
  BY <1>11, <1>12 DEF LineInv
<1> QED
  BY <1>2, <1>4, <1>5, <1>13, <1>14, DirStepAtCoherent

\* GetM of a modified line.
LEMMA GetMModifiedCoherent ==
  ASSUME Inv, Coherent, NEW r, GetMModified(r), UNCHANGED cacheVars
  PROVE  Coherent'
<1> DEFINE a == r.addr
           c == r.src
<1>1. PICK o : o = dir[a].owner
  OBVIOUS
<1> DEFINE dests == {o}
<1>2. /\ Takes(r) /\ r.type = "GetM" /\ dir[a].st = "M" /\ Queue(r)
      /\ a = r.addr /\ c = r.src
      /\ Sends("GetM", a, dests, c) /\ \A d : d \in dests <=> d = o
      /\ dir' = [dir EXCEPT ![a] = MarkOwner("MM", c)]
      /\ UNCHANGED <<tag, pr, wb, rsp>>
  BY <1>1 DEF GetMModified, StartTransaction, SetEntry, cacheVars
<1> HIDE DEF a, c, dests
<1>3. /\ a \in Lines /\ c \in Cores /\ o \in Cores /\ o # c
      /\ Quiet(a) /\ Possessing(o, a) /\ Absent(c, a)
      /\ OthersAbsent(a, {o})
      /\ tag[c][a] = "I" /\ Datas(c, a) = {} /\ Wbs(c, a) = {}
      /\ ~Gone(c, a)
      /\ PendingIn(c, a, {"IM_AD"})
  <2>1. Takes(r) /\ a = r.addr /\ dir[a].st = "M" /\ c = r.src /\ o = dir[a].owner
    BY <1>1, <1>2
  <2>2. PendingIn(c, a, {IF r.type = "GetS" THEN "IS_D" ELSE "IM_AD"})
    BY <2>1, OwnedLineAsked
  <2>3. PendingIn(c, a, {"IM_AD"})
    BY <1>2, <2>2
  <2>4. a \in Lines /\ c \in Cores /\ o \in Cores /\ o # c
    BY <2>1, OwnedLineAsked
  <2>5. Quiet(a) /\ Possessing(o, a) /\ Absent(c, a) /\ OthersAbsent(a, {o})
    BY <2>1, OwnedLineAsked
  <2>6. tag[c][a] = "I" /\ Datas(c, a) = {} /\ Wbs(c, a) = {} /\ ~Gone(c, a)
    BY <2>1, OwnedLineAsked
  <2> QED
    BY <2>3, <2>4, <2>5, <2>6
<1>4. /\ dir'[a].st = "MM" /\ dir'[a].owner = c /\ dir'[a].count = 1
      /\ dir'[a].sharers = {c}
      /\ \A b \in Lines : b # a => dir'[b] = dir[b]
  BY <1>2, <1>3 DEF Inv, LLCInv, LLCTypeOK, MarkOwner
<1>5. /\ RequestsInv /\ RequestsInv' /\ ~Waiting(c, a)'
      /\ \A d, b : d # c \/ b # a => (Waiting(d, b)' <=> Waiting(d, b))
      /\ pending' # <<>> /\ Head(pending)' = r
      /\ \A b \in Lines : dir[b].st \notin DirBusy
  BY <1>2, <1>4, RequestTaken, TakenRequest DEF Coherent, DirBusy
<1>6. /\ DirStepAt(a)
      /\ \A d : Datas(d, a)' = Datas(d, a)
      /\ Acks(a)' = Acks(a) /\ RespOks(a)' = RespOks(a)
      /\ Wbs(c, a)' = Wbs(c, a)
      /\ \A e \in Cores : e # c => SameCore(e, a) /\ Kept(e, a)
      /\ \A d : Gone(d, a)' <=> Gone(d, a)
  BY <1>2, <1>3, <1>4, <1>5, SendingFrame, DirFrame
<1>7. ForwardMessage("GetM", a, o, c) \in Fwds(a)'
  BY <1>2, ForwardsSent
<1>8. Expecting(c, a, "IM_AD")'
  BY <1>3, <1>5, <1>6, DirFrame DEF Expecting, Served, PendingIn, DirStepAt
<1>9. Giving(o, a, "GetM", c)' /\ (Owning(o, a)' \/ Gone(o, a))
  <2>1. CASE Owning(o, a)
    BY <1>3, <1>6, <1>7, <2>1 DEF Kept, Giving
  <2>2. CASE Leaving(o, a, "PutM")
    <3>1. Gone(o, a)
      BY <1>2, <1>5, <2>2, LeaverGone
    <3> QED
      BY <1>3, <1>6, <2>2, <3>1 DEF Kept, Giving
  <2> QED
    BY <1>3, <2>1, <2>2 DEF Possessing
<1>10. HandedOverLine(a)'
  <2>1. InService(a, c, "GetM")'
    BY <1>2, <1>5 DEF InService
  <2>2. Datas(Directory, a)' = {} /\ Acks(a)' = {} /\ RespOks(a)' = {}
    BY <1>3, <1>6 DEF Quiet
  <2>3. OthersAbsent(a, {c, o})'
    BY <1>3, <1>6 DEF OthersAbsent, Kept
  <2> QED
    BY <1>3, <1>4, <1>8, <1>9, <2>1, <2>2, <2>3 DEF HandedOverLine
<1>11. HoldersInv(a)'
  BY <1>4, <1>10 DEF HoldersInv
<1>12. ForwardsInv(a)'
  <2>1. Recipients(a)' = {c}
    BY <1>4 DEF Recipients
  <2>2. Owning(o, a)' => Live(ForwardMessage("GetM", a, o, c), a)'
    BY <1>4 DEF Live, ForwardMessage
  <2>3. ForwardsInv(a)
    BY <1>3 DEF Coherent, LineInv
  <2> QED
    BY <1>2, <1>3, <1>6, <1>9, <2>1, <2>2, <2>3, ForwardsStarted
<1>13. dir'[a].count = Cardinality(dir'[a].sharers)
  BY <1>4, FS_Singleton
<1>14. LineInv(a)'
  BY <1>11, <1>12 DEF LineInv
<1> QED
  BY <1>3, <1>5, <1>6, <1>13, <1>14, DirStepAtCoherent

\* Who asks for a shared line, and how many have to acknowledge.
LEMMA SharedLineAsked ==
  ASSUME Inv, Coherent, NEW r, Takes(r), NEW a, a = r.addr, dir[a].st = "S",
         NEW c, c = r.src, r.type = "GetM",
         NEW others, others = dir[a].sharers \ {c},
         NEW owed, owed = PromisedAcks(dir[a], c)
  PROVE  /\ a \in Lines /\ c \in Cores /\ others \subseteq Cores
         /\ Quiet(a)
         /\ \A d \in Cores : d # c /\ d \notin others => Absent(d, a)
         /\ \A d \in others : Keeping(d, a) /\ ~Absent(d, a)
         /\ tag[c][a] = "I" /\ Datas(c, a) = {} /\ Wbs(c, a) = {}
         /\ ~Gone(c, a)
         /\ PendingIn(c, a, {"IM_AD", "SM_AD"})
         /\ IsFiniteSet(others)
         /\ owed = Cardinality(others)
         /\ Pend(c, a).st = "IM_AD" => owed # 0
<1>1. /\ a \in Lines /\ c \in Cores /\ Wbs(c, a) = {} /\ Waiting(c, a)
      /\ Pend(c, a) # None /\ Pend(c, a).st # "IS_D"
  BY TakenRequest DEF Coherent
<1>2. /\ Quiet(a)
      /\ dir[a].sharers # {}
      /\ \A d \in dir[a].sharers : Keeping(d, a)
      /\ OthersAbsent(a, dir[a].sharers)
      /\ dir[a].sharers \subseteq Cores
      /\ dir[a].count = Cardinality(dir[a].sharers)
  BY <1>1 DEF Coherent, LineInv, HoldersInv, SharedLine, SharerCount, Inv, LLCInv,
              LLCTypeOK, Entry
<1>3. /\ c \in dir[a].sharers => Sharing(c, a)
      /\ c \notin dir[a].sharers => Absent(c, a)
  BY <1>1, <1>2, AskerRole DEF Keeping, OthersAbsent
<1>4. /\ tag[c][a] = "I" /\ Datas(c, a) = {} /\ ~Gone(c, a)
      /\ PendingIn(c, a, {"IM_AD", "SM_AD"})
      /\ c \in dir[a].sharers => Pend(c, a).st = "SM_AD"
  BY <1>1, <1>3, AskerRole DEF PendingIn
<1>5. \A d \in others : Keeping(d, a) /\ ~Absent(d, a)
  BY <1>2, RolesExclude DEF Keeping
<1>6. \A d \in Cores : d # c /\ d \notin others => Absent(d, a)
  BY <1>2 DEF OthersAbsent
<1>7. /\ others \subseteq Cores /\ IsFiniteSet(others)
      /\ owed = Cardinality(others)
      /\ Pend(c, a).st = "IM_AD" => owed # 0
  <2> DEFINE S == dir[a].sharers
  <2>1. /\ IsFiniteSet(S) /\ S # {} /\ others = S \ {c} /\ S \subseteq Cores
        /\ owed = IF c \in S THEN Cardinality(S) - 1 ELSE Cardinality(S)
        /\ c \in S => Pend(c, a).st = "SM_AD"
    BY <1>2, <1>4, ConstantsAssumption, FS_Subset DEF PromisedAcks
  <2> HIDE DEF S
  <2>2. IsFiniteSet(others)
    BY <2>1, FS_Subset
  <2>3. CASE c \in S
    <3>1. Cardinality(S \ {c}) = Cardinality(S) - 1
      BY <2>1, <2>3, FS_RemoveElement
    <3> QED
      BY <2>1, <2>2, <2>3, <3>1
  <2>4. CASE c \notin S
    <3>1. others = S /\ Cardinality(S) # 0
      BY <2>1, <2>4, FS_EmptySet
    <3> QED
      BY <2>1, <2>2, <2>4, <3>1
  <2> QED
    BY <2>3, <2>4
<1> QED
  BY <1>1, <1>2, <1>4, <1>5, <1>6, <1>7

\* GetM of a shared line.
LEMMA GetMSharedCoherent ==
  ASSUME Inv, Coherent, NEW r, GetMShared(r), UNCHANGED cacheVars
  PROVE  Coherent'
<1> DEFINE a == r.addr
           c == r.src
<1>1. PICK others : others = dir[a].sharers \ {c}
  OBVIOUS
<1>2. PICK owed : owed = PromisedAcks(dir[a], c)
  OBVIOUS
<1>3. PICK d : d = llc[a]
  OBVIOUS
<1>4. /\ Takes(r) /\ r.type = "GetM" /\ dir[a].st = "S" /\ Queue(r)
      /\ a = r.addr /\ c = r.src
      /\ Sends("Inv", a, others, c)
      /\ SendsData(r, owed, d)
      /\ dir' = [dir EXCEPT ![a] = MarkOwner("SM", c)]
      /\ UNCHANGED <<tag, pr, wb>>
  BY <1>1, <1>2, <1>3 DEF GetMShared, StartTransaction, SetEntry, cacheVars
<1> HIDE DEF a, c
<1>5. /\ a \in Lines /\ c \in Cores /\ others \subseteq Cores
      /\ Quiet(a)
      /\ \A e \in Cores : e # c /\ e \notin others => Absent(e, a)
      /\ \A e \in others : Keeping(e, a) /\ ~Absent(e, a)
      /\ tag[c][a] = "I" /\ Datas(c, a) = {} /\ Wbs(c, a) = {}
      /\ ~Gone(c, a)
      /\ PendingIn(c, a, {"IM_AD", "SM_AD"})
      /\ IsFiniteSet(others)
      /\ owed = Cardinality(others)
      /\ Pend(c, a).st = "IM_AD" => owed # 0
  BY <1>1, <1>2, <1>4, SharedLineAsked
<1>6. /\ dir'[a].st = "SM" /\ dir'[a].owner = c /\ dir'[a].count = 1
      /\ dir'[a].sharers = {c}
      /\ \A b \in Lines : b # a => dir'[b] = dir[b]
  BY <1>4, <1>5 DEF Inv, LLCInv, LLCTypeOK, MarkOwner
<1>7. \A b \in Lines : b # a => Fwds(b)' = Fwds(b)
  BY <1>4, ForwardsSent
<1>8. /\ DirStepAt(a) /\ RequestsInv'
      /\ \A e \in Cores : e # c => SameCore(e, a) /\ Kept(e, a)
      /\ Served(c, a, {"IM_AD", "SM_AD"})'
      /\ \E m : Datas(c, a)' = {m} /\ m.src = Directory /\ m.acks = owed
      /\ Acks(a)' = Acks(a) /\ RespOks(a)' = RespOks(a)
      /\ Datas(Directory, a)' = Datas(Directory, a)
  BY <1>4, <1>5, <1>6, <1>7, AnsweredFrame DEF DirBusy
<1>9. pending' # <<>> /\ Head(pending)' = r /\ RequestsInv
  BY <1>4, <1>6, RequestTaken DEF Coherent, DirBusy
<1>10. /\ \A e : Gone(e, a)' <=> Gone(e, a)
       /\ Pend(c, a)' = Pend(c, a)
  BY <1>8, DirFrame
<1>11. \A e \in others : /\ e \in Cores /\ e # c
                         /\ Owing(e, a, c)'
                         /\ Sharing(e, a)' \/ Gone(e, a)
  <2> SUFFICES ASSUME NEW e \in others
               PROVE  Owing(e, a, c)' /\ (Sharing(e, a)' \/ Gone(e, a))
    BY <1>1, <1>5
  <2>1. e \in Cores /\ e # c /\ ForwardMessage("Inv", a, e, c) \in Fwds(a)'
    BY <1>1, <1>4, <1>5, ForwardsSent
  <2>2. CASE Sharing(e, a)
    BY <1>8, <1>10, <2>1, <2>2 DEF Kept, Owing
  <2>3. CASE Leaving(e, a, "PutS")
    <3>1. Gone(e, a)
      BY <1>4, <1>9, <2>3, LeaverGone
    <3> QED
      BY <1>8, <2>1, <2>3, <3>1 DEF Kept, Owing
  <2> QED
    BY <1>5, <2>2, <2>3 DEF Keeping
<1>12. UpgradedLine(a)'
  <2>1. InService(a, c, "GetM")'
    BY <1>4, <1>9 DEF InService
  <2>2. Datas(Directory, a)' = {} /\ Acks(a)' = {} /\ RespOks(a)' = {}
    BY <1>5, <1>8 DEF Quiet
  <2>3. \A e \in Cores : e # c => (Absent(e, a)' <=> e \notin others)
    BY <1>5, <1>8 DEF Kept
  <2>4. Debtors(c, a)' = others
    BY <1>5, <1>11, <2>2, <2>3 DEF Debtors
  <2>5. Collecting(c, a, owed)'
    <3>1. /\ tag'[c][a] = "I" /\ Wbs(c, a)' = {} /\ ~Waiting(c, a)'
          /\ Pend(c, a)' # None /\ Pend(c, a)'.st \in {"IM_AD", "SM_AD"}
          /\ Pend(c, a)'.total = 0 /\ Pend(c, a)'.acks = 0
      BY <1>8 DEF Served, PendingIn
    <3>2. owed \in Nat
      BY <1>5, FS_CardinalityType
    <3>3. PICK m : Datas(c, a)' = {m} /\ m.src = Directory /\ m.acks = owed
      BY <1>8
    <3>4. Pend(c, a)'.acks + owed = m.acks
      BY <3>1, <3>2, <3>3
    <3> QED
      BY <1>5, <1>10, <3>1, <3>3, <3>4 DEF Collecting
  <2>6. Collecting(c, a, Cardinality(Debtors(c, a)))'
    BY <1>5, <2>4, <2>5
  <2>7. AcksTo(c, a)'
    BY <2>2 DEF AcksTo
  <2>8. \A e \in Cores \ {c} : Absent(e, a)' \/ Owing(e, a, c)'
    BY <1>11, <2>3
  <2> QED
    BY <1>5, <1>6, <2>1, <2>2, <2>6, <2>7, <2>8 DEF UpgradedLine
<1>13. HoldersInv(a)'
  BY <1>6, <1>12 DEF HoldersInv
<1>14. ForwardsInv(a)'
  <2>1. Recipients(a)' = {c}
    BY <1>6 DEF Recipients
  <2>2. \A e \in others : Sharing(e, a)' => Live(ForwardMessage("Inv", a, e, c), a)'
    BY <1>6 DEF Live, ForwardMessage
  <2>3. ForwardsInv(a)
    BY <1>5 DEF Coherent, LineInv
  <2> QED
    BY <1>4, <1>5, <1>8, <1>11, <2>1, <2>2, <2>3, ForwardsStarted
<1>15. dir'[a].count = Cardinality(dir'[a].sharers)
  BY <1>6, FS_Singleton
<1>16. LineInv(a)'
  BY <1>13, <1>14 DEF LineInv
<1> QED
  BY <1>5, <1>8, <1>15, <1>16, DirStepAtCoherent

-----------------------------------------------------------------------------
(* Replacements.                                                           *)

\* A victim is another line than the one asked for.
LEMMA VictimTaken ==
  ASSUME Inv, Coherent, NEW r, NEW v \in Lines, Replaces(r, v), Queue(r),
         UNCHANGED <<tag, pr>>,
         \A b \in Lines : b # v => dir'[b] = dir[b]
  PROVE  /\ RequestsInv /\ RequestsInv' /\ r.addr # v /\ Takes(r)
         /\ \A d, b : Waiting(d, b)' <=> Waiting(d, b)
         /\ pending' # <<>> /\ MakingRoom(v)'
         /\ \A b \in Lines : dir[b].st \notin DirBusy
<1>1. r.addr # v /\ Takes(r) /\ RequestsInv
  BY DEF Replaces, NeedsReplacement, Coherent
<1>2. r.addr \in Lines /\ \A b \in Lines : dir[b].st \notin DirBusy
  BY <1>1, TakenRequest
<1>3. dir'[r.addr].st \notin DirBusy
  BY <1>1, <1>2
<1>4. /\ RequestsInv'
      /\ \A d, b : Waiting(d, b)' <=> Waiting(d, b)
      /\ pending' # <<>> /\ Head(pending)' = r
  BY <1>1, <1>3, RequestPutAside
<1> QED
  BY <1>1, <1>2, <1>4 DEF MakingRoom

\* A victim without sharers or owner leaves at once.
LEMMA ReplaceValidCoherent ==
  ASSUME Inv, Coherent, NEW r, NEW v \in Lines, ReplaceValid(r, v),
         UNCHANGED cacheVars
  PROVE  Coherent'
<1>1. /\ Replaces(r, v) /\ Queue(r) /\ UNCHANGED <<tag, pr, wb, fwd, rsp, dir>>
  BY DEF ReplaceValid, cacheVars
<1>2. /\ RequestsInv'
      /\ \A d, b : Waiting(d, b)' <=> Waiting(d, b)
      /\ \A b \in Lines : dir[b].st \notin DirBusy
  BY <1>1, VictimTaken
<1>3. /\ \A b : SameResponses(b)
      /\ \A b : Fwds(b)' = Fwds(b)
      /\ \A d, b : Wbs(d, b)' = Wbs(d, b) /\ Pend(d, b)' = Pend(d, b)
  BY <1>1, ResponsesUnchanged DEF Fwds, Wbs, Pend, HitPr
<1>4. \A b \in Lines : SameLine(b)
  BY <1>1, <1>2, <1>3 DEF SameLine, SameCore, LineSteady, SameResponses
<1>5. \A b \in Lines : LineInv(b)'
  BY <1>4, SameLineKept DEF Coherent
<1> QED
  BY <1>1, <1>2, <1>5 DEF Coherent, SharerCount

\* The sharers of a victim are told to give it up.
LEMMA ReplaceSharedCoherent ==
  ASSUME Inv, Coherent, NEW r, NEW v \in Lines, ReplaceShared(r, v),
         UNCHANGED cacheVars
  PROVE  Coherent'
<1>1. PICK sharers : sharers = dir[v].sharers
  OBVIOUS
<1>2. /\ Replaces(r, v) /\ Queue(r) /\ dir[v].st = "S"
      /\ Sends("Inv", v, sharers, Directory)
      /\ dir' = [dir EXCEPT ![v] = [dir[v] EXCEPT !.st = "SI"]]
      /\ UNCHANGED <<tag, pr, wb, rsp>>
  BY <1>1 DEF ReplaceShared, StartTransaction, SetEntry, cacheVars
<1>3. /\ dir'[v].st = "SI" /\ dir'[v].sharers = sharers
      /\ dir'[v].count = Cardinality(sharers)
      /\ \A b \in Lines : b # v => dir'[b] = dir[b]
  BY <1>1, <1>2 DEF Inv, LLCInv, LLCTypeOK, Entry, Coherent, SharerCount
<1>4. /\ RequestsInv /\ RequestsInv' /\ Takes(r)
      /\ \A d, b : Waiting(d, b)' <=> Waiting(d, b)
      /\ MakingRoom(v)'
      /\ \A b \in Lines : dir[b].st \notin DirBusy
  BY <1>2, <1>3, VictimTaken
<1>5. /\ Quiet(v) /\ sharers # {} /\ \A c \in sharers : Keeping(c, v)
      /\ OthersAbsent(v, sharers) /\ ForwardsInv(v) /\ sharers \subseteq Cores
  BY <1>1, <1>2 DEF Coherent, LineInv, HoldersInv, SharedLine, Inv, LLCInv,
                    LLCTypeOK, Entry
<1>6. /\ DirStepAt(v)
      /\ \A d : Datas(d, v)' = Datas(d, v)
      /\ Acks(v)' = Acks(v) /\ RespOks(v)' = RespOks(v)
      /\ \A e \in Cores : SameCore(e, v) /\ Kept(e, v)
      /\ \A d : Gone(d, v)' <=> Gone(d, v)
  BY <1>2, <1>3, <1>4, SendingFrame, DirFrame
<1>7. \A e \in sharers : /\ Owing(e, v, Directory)'
                         /\ Sharing(e, v)' \/ Gone(e, v)
  <2> SUFFICES ASSUME NEW e \in sharers
               PROVE  Owing(e, v, Directory)' /\ (Sharing(e, v)' \/ Gone(e, v))
    OBVIOUS
  <2>1. e \in Cores /\ ForwardMessage("Inv", v, e, Directory) \in Fwds(v)'
    BY <1>2, <1>5, ForwardsSent
  <2>2. CASE Sharing(e, v)
    BY <1>6, <2>1, <2>2 DEF Kept, Owing
  <2>3. CASE Leaving(e, v, "PutS")
    <3>1. Gone(e, v)
      BY <1>4, <2>3, LeaverGone
    <3> QED
      BY <1>6, <2>1, <2>3, <3>1 DEF Kept, Owing
  <2> QED
    BY <1>5, <2>2, <2>3 DEF Keeping
<1>8. RecalledLine(v)'
  <2>1. Acks(v)' = {} /\ RespOks(v)' = {} /\ Datas(Directory, v)' = {}
    BY <1>5, <1>6 DEF Quiet
  <2>2. AcksTo(Directory, v)'
    BY <2>1 DEF AcksTo
  <2>3. OthersAbsent(v, sharers)'
    BY <1>5, <1>6 DEF OthersAbsent, Kept
  <2> QED
    BY <1>3, <1>4, <1>5, <1>7, <2>1, <2>2, <2>3 DEF RecalledLine
<1>9. HoldersInv(v)'
  BY <1>3, <1>8 DEF HoldersInv
<1>10. ForwardsInv(v)'
  <2>1. Recipients(v)' = {}
    BY <1>3 DEF Recipients
  <2>2. \A e \in sharers : Sharing(e, v)' =>
          Live(ForwardMessage("Inv", v, e, Directory), v)'
    BY <1>3 DEF Live, ForwardMessage
  <2> QED
    BY <1>2, <1>5, <1>6, <1>7, <2>1, <2>2, ForwardsStarted
<1>11. LineInv(v)'
  BY <1>9, <1>10 DEF LineInv
<1> QED
  BY <1>3, <1>4, <1>6, <1>11, DirStepAtCoherent

\* The owner of a victim is told to.
LEMMA ReplaceModifiedCoherent ==
  ASSUME Inv, Coherent, NEW r, NEW v \in Lines, ReplaceModified(r, v),
         UNCHANGED cacheVars
  PROVE  Coherent'
<1>1. PICK o : o = dir[v].owner
  OBVIOUS
<1> DEFINE dests == {o}
<1>2. /\ Replaces(r, v) /\ Queue(r) /\ dir[v].st = "M"
      /\ Sends("GetM", v, dests, Directory) /\ \A d : d \in dests <=> d = o
      /\ dir' = [dir EXCEPT ![v] = [dir[v] EXCEPT !.st = "MI"]]
      /\ UNCHANGED <<tag, pr, wb, rsp>>
  BY <1>1 DEF ReplaceModified, StartTransaction, SetEntry, cacheVars
<1> HIDE DEF dests
<1>3. /\ dir'[v].st = "MI" /\ dir'[v].sharers = dir[v].sharers
      /\ dir'[v].owner = o
      /\ dir'[v].count = Cardinality(dir[v].sharers)
      /\ \A b \in Lines : b # v => dir'[b] = dir[b]
  BY <1>1, <1>2 DEF Inv, LLCInv, LLCTypeOK, Entry, Coherent, SharerCount
<1>4. /\ RequestsInv /\ RequestsInv' /\ Takes(r)
      /\ \A d, b : Waiting(d, b)' <=> Waiting(d, b)
      /\ MakingRoom(v)'
      /\ \A b \in Lines : dir[b].st \notin DirBusy
  BY <1>2, <1>3, VictimTaken
<1>5. /\ Quiet(v) /\ dir[v].sharers = {o} /\ Possessing(o, v)
      /\ OthersAbsent(v, {o}) /\ ForwardsInv(v) /\ o \in Cores
  BY <1>1, <1>2 DEF Coherent, LineInv, HoldersInv, ModifiedLine
<1>6. /\ DirStepAt(v)
      /\ \A d : Datas(d, v)' = Datas(d, v)
      /\ Acks(v)' = Acks(v) /\ RespOks(v)' = RespOks(v)
      /\ \A e \in Cores : SameCore(e, v) /\ Kept(e, v)
      /\ \A d : Gone(d, v)' <=> Gone(d, v)
  BY <1>2, <1>3, <1>4, SendingFrame, DirFrame
<1>7. ForwardMessage("GetM", v, o, Directory) \in Fwds(v)'
  BY <1>2, ForwardsSent
<1>8. Giving(o, v, "GetM", Directory)' /\ (Owning(o, v)' \/ Gone(o, v))
  <2>1. CASE Owning(o, v)
    BY <1>5, <1>6, <1>7, <2>1 DEF Kept, Giving
  <2>2. CASE Leaving(o, v, "PutM")
    <3>1. Gone(o, v)
      BY <1>4, <2>2, LeaverGone
    <3> QED
      BY <1>5, <1>6, <2>2, <3>1 DEF Kept, Giving
  <2> QED
    BY <1>5, <2>1, <2>2 DEF Possessing
<1>9. RecalledFromOwner(v)'
  <2>1. Acks(v)' = {} /\ RespOks(v)' = {} /\ Datas(Directory, v)' = {}
    BY <1>5, <1>6 DEF Quiet
  <2>2. OthersAbsent(v, {o})'
    BY <1>5, <1>6 DEF OthersAbsent, Kept
  <2> QED
    BY <1>3, <1>4, <1>5, <1>8, <2>1, <2>2 DEF RecalledFromOwner
<1>10. HoldersInv(v)'
  BY <1>3, <1>9 DEF HoldersInv
<1>11. ForwardsInv(v)'
  <2>1. Recipients(v)' = {}
    BY <1>3 DEF Recipients
  <2>2. Owning(o, v)' => Live(ForwardMessage("GetM", v, o, Directory), v)'
    BY <1>3 DEF Live, ForwardMessage
  <2> QED
    BY <1>2, <1>5, <1>6, <1>8, <2>1, <2>2, ForwardsStarted
<1>12. LineInv(v)'
  BY <1>10, <1>11 DEF LineInv
<1> QED
  BY <1>3, <1>4, <1>6, <1>12, DirStepAtCoherent

\* Every step that reads a request.
LEMMA RequestStepCoherent ==
  ASSUME Inv, Coherent, NEW r, TakeRequest(r), UNCHANGED cacheVars
  PROVE  Coherent'
BY GetSCoherent, GetSModifiedCoherent, GetMUncachedCoherent, GetMSharedCoherent,
   GetMModifiedCoherent, ReplaceValidCoherent, ReplaceSharedCoherent,
   ReplaceModifiedCoherent
   DEF TakeRequest

-----------------------------------------------------------------------------
(* The end of a line's stay, and write-backs.                              *)

\* A core that holds nothing and has nothing to give.
Bare(d, a) == ~Sharing(d, a) /\ ~Owning(d, a)

\* Absent and leaving cores hold nothing.
LEMMA BareRoles ==
  ASSUME NEW d, NEW a
  PROVE  /\ Absent(d, a) => Bare(d, a)
         /\ \A type : Leaving(d, a, type) => Bare(d, a)
         /\ \A st : Expecting(d, a, st) \/ Receiving(d, a, st) => Bare(d, a)
BY RolesExclude, HoldersExclude DEF Bare

\* The line has left every cache and the directory.
LEMMA LineLeft ==
  ASSUME Inv, Coherent, NEW a \in Lines, DirStepAt(a), RequestsInv',
         dir' = [dir EXCEPT ![a] = NoEntry], Quiet(a)', Fwds(a)' = Fwds(a),
         \A d \in Cores : Absent(d, a)',
         \/ dir[a].st \notin {"SM", "SI", "MM", "MI", "MS_AD"}
         \/ \A d \in Cores : Bare(d, a)
  PROVE  Coherent'
<1>1. /\ dir'[a].st = "I" /\ dir'[a].sharers = {} /\ dir'[a].count = 0
  BY DEF Inv, LLCInv, LLCTypeOK, NoEntry
<1>2. HoldersInv(a)'
  BY <1>1 DEF HoldersInv, InvalidLine, OthersAbsent
<1>3. ForwardsInv(a)'
  <2>1. ForwardsInv(a)
    BY DEF Coherent, LineInv
  <2>2. \A m \in Fwds(a) : m.dst \in Cores
    BY DEF Inv, InterconnectTypeOK, Fwds, Forward
  <2>3. \A m \in Fwds(a) : ~Live(m, a)
    BY <2>1, <2>2, OnlyStale DEF Bare
  <2>4. Recipients(a)' = {}
    BY <1>1 DEF Recipients
  <2> QED
    BY <2>1, <2>3, <2>4, ForwardsAfter
<1>4. dir'[a].count = Cardinality(dir'[a].sharers)
  BY <1>1, FS_EmptySet
<1>5. LineInv(a)'
  BY <1>2, <1>3 DEF LineInv
<1> QED
  BY <1>4, <1>5, DirStepAtCoherent

\* The forwards of a line whose recipients stay, or from whose recipients one
\* leaves.
LEMMA ForwardsLeft ==
  ASSUME Inv, Coherent, NEW a \in Lines, DirStepAt(a), Fwds(a)' = Fwds(a),
         \/ dir[a].st \notin {"SM", "SI", "MM", "MI", "MS_AD"}
         \/ \A d \in Cores : Bare(d, a),
         Recipients(a)' \subseteq Recipients(a)
  PROVE  ForwardsInv(a)'
<1>1. ForwardsInv(a)
  BY DEF Coherent, LineInv
<1>2. \A m \in Fwds(a) : m.dst \in Cores
  BY DEF Inv, InterconnectTypeOK, Fwds, Forward
<1>3. \A m \in Fwds(a) : ~Live(m, a) /\ m.dst \notin Recipients(a)
  BY <1>1, <1>2, OnlyStale DEF Bare
<1> QED
  BY <1>1, <1>3, ForwardsAfter

\* A write-back comes from a core that is leaving.
LEMMA WriterRole ==
  ASSUME Inv, NEW w \in wb, NEW a, a = w.addr, NEW c, c = w.src,
         Coherent
  PROVE  /\ a \in Lines /\ c \in Cores /\ HoldersInv(a) /\ ForwardsInv(a)
         /\ Leaving(c, a, w.type) /\ Wbs(c, a) = {w}
         /\ \A type : Leaving(c, a, type) => type = w.type
         /\ ~Absent(c, a) /\ Bare(c, a)
         /\ \A st : ~Expecting(c, a, st) /\ ~Receiving(c, a, st)
         /\ \A owed : ~Collecting(c, a, owed)
         /\ \A type, n : ~OwningFor(c, a, type, n)
<1>1. a \in Lines /\ c \in Cores
  BY DEF Inv, InterconnectTypeOK, Writeback
<1>2. HoldersInv(a) /\ ForwardsInv(a)
  BY <1>1 DEF Coherent, LineInv
<1>3. w \in Wbs(c, a)
  BY DEF Wbs
<1>4. /\ ~Absent(c, a)
      /\ \A st : ~Expecting(c, a, st) /\ ~Receiving(c, a, st)
      /\ \A owed : ~Collecting(c, a, owed)
      /\ \A type, n : ~OwningFor(c, a, type, n)
  BY <1>3 DEF Absent, Expecting, Receiving, Collecting, OwningFor, Served
<1>5. Bare(c, a)
  BY <1>3 DEF Bare, Sharing, Owning, Served
<1>6. \E type : Leaving(c, a, type)
  BY <1>1, <1>2, <1>4, <1>5, SomeRole DEF Bare
<1>7. /\ Leaving(c, a, w.type) /\ Wbs(c, a) = {w}
      /\ \A type : Leaving(c, a, type) => type = w.type
  BY <1>3, <1>6 DEF Leaving
<1> QED
  BY <1>1, <1>2, <1>4, <1>5, <1>7

\* What reading a write-back leaves alone; its core is absent afterwards.
LEMMA WritebackFrame ==
  ASSUME Inv, Coherent, NEW w \in wb, NEW a, a = w.addr, NEW c, c = w.src,
         wb' = wb \ {w}, UNCHANGED <<tag, pr, fwd, pending>>,
         \A b \in Lines : b # a => dir'[b] = dir[b],
         \A b : b # a => SameResponses(b),
         \A d \in Cores : Datas(d, a)' = Datas(d, a),
         \A d, b : b # a => (Waiting(d, b)' <=> Waiting(d, b)),
         Waiting(c, a)' <=> Waiting(c, a)
  PROVE  /\ DirStepAt(a) /\ Absent(c, a)' /\ Fwds(a)' = Fwds(a)
         /\ \A d \in Cores : d # c => Wbs(d, a)' = Wbs(d, a)
         /\ \A d \in Cores : d # c /\ (Waiting(d, a)' <=> Waiting(d, a)) =>
              SameCore(d, a) /\ Kept(d, a)
<1>1. /\ a \in Lines /\ c \in Cores /\ Leaving(c, a, w.type) /\ Wbs(c, a) = {w}
  BY WriterRole
<1>2. /\ \A d, b : d # c \/ b # a => Wbs(d, b)' = Wbs(d, b)
      /\ Wbs(c, a)' = {}
  BY <1>1 DEF Wbs
<1>3. \A b : Fwds(b)' = Fwds(b)
  BY DEF Fwds
<1>4. DirStepAt(a)
  BY <1>2, <1>3 DEF DirStepAt
<1>5. \A d \in Cores : d # c /\ (Waiting(d, a)' <=> Waiting(d, a)) =>
        SameCore(d, a) /\ Kept(d, a)
  BY <1>2, <1>4, DirFrame
<1>6. Absent(c, a)'
  <2>1. Pend(c, a)' = Pend(c, a) /\ tag' = tag /\ Datas(c, a)' = Datas(c, a)
    BY <1>1, <1>4, DirFrame
  <2> QED
    BY <1>1, <1>2, <2>1 DEF Leaving, Absent, Apart, Asking, PendingIn
<1> QED
  BY <1>2, <1>3, <1>4, <1>5, <1>6

\* The owner writes back: no other core has the line, and a transaction for it
\* is all but finished or waits for nothing else.
LEMMA OwnerLeaves ==
  ASSUME Inv, Coherent, NEW w \in wb, w.type = "PutM", NEW a, a = w.addr,
         NEW c, c = w.src, FromOwner(w), dir[a].st \in {"M", "MM", "SM", "MI"}
  PROVE  /\ \A d \in Cores : d # c => Absent(d, a)
         /\ \A d \in Cores : Bare(d, a)
         /\ Acks(a) = {} /\ Datas(Directory, a) = {}
         /\ \A d : d \in dir[a].sharers <=> d = c
         /\ dir[a].st \in {"M", "MI"} => RespOks(a) = {}
         /\ dir[a].st = "MI" => MakingRoom(a)
         /\ dir[a].st \in {"MM", "SM"} =>
              RespOkDue(a) /\ pending # <<>> /\ Head(pending).addr = a
<1> dir[a].owner = c
  BY DEF FromOwner
<1>1. /\ a \in Lines /\ c \in Cores /\ HoldersInv(a) /\ ~Absent(c, a) /\ Bare(c, a)
      /\ \A st : ~Expecting(c, a, st) /\ ~Receiving(c, a, st)
      /\ \A owed : ~Collecting(c, a, owed)
  BY WriterRole
<1>2. CASE dir[a].st = "M"
  BY <1>1, <1>2, BareRoles DEF HoldersInv, ModifiedLine, Quiet, OthersAbsent
<1>3. CASE dir[a].st = "MM"
  <2>1. /\ Datas(Directory, a) = {} /\ InService(a, c, "GetM")
        /\ dir[a].sharers = {c} /\ Finished(a, c)
    BY <1>1, <1>3 DEF HoldersInv, HandedOverLine
  <2> QED
    BY <1>1, <1>3, <2>1, BareRoles DEF Finished, OthersAbsent, InService
<1>4. CASE dir[a].st = "SM"
  <2>1. /\ Datas(Directory, a) = {} /\ InService(a, c, "GetM")
        /\ dir[a].sharers = {c} /\ Finished(a, c)
    BY <1>1, <1>4 DEF HoldersInv, UpgradedLine
  <2> QED
    BY <1>1, <1>4, <2>1, BareRoles DEF Finished, OthersAbsent, InService
<1>5. CASE dir[a].st = "MI"
  <2>1. /\ MakingRoom(a) /\ Acks(a) = {} /\ RespOks(a) = {}
        /\ dir[a].sharers = {c} /\ OthersAbsent(a, {c})
        /\ Datas(Directory, a) = {}
    BY <1>1, <1>5 DEF HoldersInv, RecalledFromOwner
  <2> QED
    BY <1>1, <1>5, <2>1, BareRoles DEF OthersAbsent
<1> QED
  BY <1>2, <1>3, <1>4, <1>5

\* PutM from the owner.
LEMMA PutMFromOwnerCoherent ==
  ASSUME Inv, Coherent, NEW w \in wb, PutMFromOwner(w), UNCHANGED cacheVars
  PROVE  Coherent'
<1> DEFINE a == w.addr
           c == w.src
<1>1. /\ w.type = "PutM" /\ a = w.addr /\ c = w.src /\ dir[a].owner = c
      /\ FromOwner(w)
      /\ wb' = wb \ {w} /\ UNCHANGED <<tag, pr, req, fwd, rsp, pending>>
      /\ \/ dir[a].st \in {"M", "MI"} /\ dir' = [dir EXCEPT ![a] = NoEntry]
         \/ /\ dir[a].st \in {"MM", "SM"}
            /\ dir' = [dir EXCEPT ![a] = [dir[a] EXCEPT !.st = "MI_RespOk"]]
  BY DEF PutMFromOwner, FromOwner, EvictFromLlc, SetEntry, cacheVars
<1> HIDE DEF a, c
<1>2. /\ a \in Lines /\ c \in Cores /\ HoldersInv(a)
  BY <1>1, WriterRole
<1>3. /\ \A d \in Cores : d # c => Absent(d, a)
      /\ \A d \in Cores : Bare(d, a)
      /\ Acks(a) = {} /\ Datas(Directory, a) = {}
      /\ \A d : d \in dir[a].sharers <=> d = c
      /\ dir[a].st \in {"M", "MI"} => RespOks(a) = {}
      /\ dir[a].st = "MI" => MakingRoom(a)
      /\ dir[a].st \in {"MM", "SM"} =>
           RespOkDue(a) /\ pending # <<>> /\ Head(pending).addr = a
  <2>1. /\ w.type = "PutM" /\ a = w.addr /\ c = w.src /\ FromOwner(w)
        /\ dir[a].st \in {"M", "MM", "SM", "MI"}
    BY <1>1
  <2>2. \A d \in Cores : d # c => Absent(d, a)
    BY <2>1, OwnerLeaves
  <2>3. \A d \in Cores : Bare(d, a)
    BY <2>1, OwnerLeaves
  <2>4. Acks(a) = {} /\ Datas(Directory, a) = {}
    BY <2>1, OwnerLeaves
  <2>5. \A d : d \in dir[a].sharers <=> d = c
    BY <2>1, OwnerLeaves
  <2>6. dir[a].st \in {"M", "MI"} => RespOks(a) = {}
    BY <2>1, OwnerLeaves
  <2>7. dir[a].st = "MI" => MakingRoom(a)
    BY <2>1, OwnerLeaves
  <2>8. dir[a].st \in {"MM", "SM"} =>
           RespOkDue(a) /\ pending # <<>> /\ Head(pending).addr = a
    BY <2>1, OwnerLeaves
  <2> QED
    BY <2>2, <2>3, <2>4, <2>5, <2>6, <2>7, <2>8
<1>4. \A b \in Lines : b # a => dir'[b] = dir[b]
  BY <1>1, <1>2 DEF Inv, LLCInv, LLCTypeOK
<1>5. RequestsInv' /\ \A d, b : Waiting(d, b)' <=> Waiting(d, b)
  <2>1. pending # <<>> => Head(pending).addr \in Lines
    BY UnservedTypes DEF Request
  <2>2. pending # <<>> /\ Head(pending).addr = a
           => (dir'[a].st \in DirBusy <=> dir[a].st \in DirBusy)
    BY <1>1, <1>2, <1>3 DEF Inv, LLCInv, LLCTypeOK, Entry, NoEntry, DirBusy, MakingRoom
  <2> QED
    BY <1>1, <1>4, <2>1, <2>2, SameRequests DEF Coherent
<1>6. /\ \A b : SameResponses(b)
      /\ \A d : Datas(d, a)' = Datas(d, a)
      /\ Acks(a)' = Acks(a) /\ RespOks(a)' = RespOks(a)
  BY <1>1, ResponsesUnchanged DEF SameResponses
<1>7. /\ DirStepAt(a) /\ Absent(c, a)' /\ Fwds(a)' = Fwds(a)
      /\ \A d \in Cores : d # c => Kept(d, a)
  BY <1>1, <1>4, <1>5, <1>6, WritebackFrame
<1>8. \A d \in Cores : Absent(d, a)'
  BY <1>3, <1>7 DEF Kept
<1>9. CASE dir[a].st \in {"M", "MI"} /\ dir' = [dir EXCEPT ![a] = NoEntry]
  <2>1. Quiet(a)'
    BY <1>3, <1>6, <1>9 DEF Quiet
  <2> QED
    BY <1>2, <1>3, <1>5, <1>7, <1>8, <1>9, <2>1, LineLeft
<1>10. CASE /\ dir[a].st \in {"MM", "SM"}
            /\ dir' = [dir EXCEPT ![a] = [dir[a] EXCEPT !.st = "MI_RespOk"]]
  <2>1. /\ dir'[a].st = "MI_RespOk" /\ dir'[a].sharers = {c}
        /\ dir'[a].count = Cardinality(dir'[a].sharers)
    BY <1>2, <1>3, <1>10 DEF Inv, LLCInv, LLCTypeOK, Entry, Coherent, SharerCount
  <2>2. AbandonedLine(a)'
    BY <1>1, <1>3, <1>6, <1>8, <1>10, <2>1 DEF AbandonedLine, OthersAbsent, RespOkDue
  <2>3. HoldersInv(a)'
    BY <2>1, <2>2 DEF HoldersInv
  <2>4. Recipients(a)' \subseteq Recipients(a)
    BY <1>3, <1>10, <2>1 DEF Recipients
  <2>5. LineInv(a)'
    BY <1>2, <1>3, <1>7, <2>3, <2>4, ForwardsLeft DEF LineInv
  <2> QED
    BY <1>2, <1>5, <1>7, <2>1, <2>5, DirStepAtCoherent
<1> QED
  BY <1>1, <1>9, <1>10

\* PutM from a core the directory does not take for the owner any more: it was
\* asked to hand the line over, and whoever waits for it got nothing yet.
LEMMA NonOwnerLeaves ==
  ASSUME Inv, Coherent, NEW w \in wb, w.type = "PutM", NEW a, a = w.addr,
         NEW c, c = w.src, dir[a].owner # c, dir[a].st \in {"MM", "MS_AD"}
  PROVE  /\ Quiet(a)
         /\ \A d \in Cores : Bare(d, a)
         /\ \E q \in Cores :
              /\ q # c
              /\ \A d \in Cores : d # q /\ d # c => Absent(d, a)
              /\ \/ InService(a, q, "GetS") /\ Expecting(q, a, "IS_D")
                 \/ InService(a, q, "GetM") /\ Expecting(q, a, "IM_AD")
<1>1. /\ a \in Lines /\ c \in Cores /\ HoldersInv(a) /\ ~Absent(c, a) /\ Bare(c, a)
      /\ \A st : ~Expecting(c, a, st) /\ ~Receiving(c, a, st)
      /\ Leaving(c, a, "PutM") /\ ~Leaving(c, a, "PutS")
  <2>1. /\ a \in Lines /\ c \in Cores /\ HoldersInv(a) /\ ~Absent(c, a)
        /\ Bare(c, a) /\ \A st : ~Expecting(c, a, st) /\ ~Receiving(c, a, st)
        /\ Leaving(c, a, w.type)
        /\ \A type : Leaving(c, a, type) => type = w.type
    BY WriterRole
  <2> QED
    BY <2>1
<1>2. CASE dir[a].st = "MM"
  <2>1. HandedOverLine(a)
    BY <1>1, <1>2 DEF HoldersInv
  <2>2. PICK q \in Cores :
          /\ InService(a, q, "GetM") /\ dir[a].owner = q
          /\ Datas(Directory, a) = {}
          /\ \/ Acks(a) = {} /\ RespOks(a) = {} /\
                \E o \in Cores \ {q} :
                  /\ OthersAbsent(a, {q, o})
                  /\ \/ Expecting(q, a, "IM_AD") /\ Giving(o, a, "GetM", q)
                     \/ Receiving(q, a, "IM_AD") /\ Absent(o, a)
             \/ Finished(a, q)
    BY <2>1 DEF HandedOverLine
  <2>3. ~Finished(a, q)
    BY <1>1, <2>2 DEF Finished, OthersAbsent
  <2>4. PICK o \in Cores \ {q} :
          /\ OthersAbsent(a, {q, o})
          /\ \/ Expecting(q, a, "IM_AD") /\ Giving(o, a, "GetM", q)
             \/ Receiving(q, a, "IM_AD") /\ Absent(o, a)
    BY <2>2, <2>3
  <2>5. o = c
    BY <1>1, <2>2, <2>4 DEF OthersAbsent
  <2>6. Expecting(q, a, "IM_AD")
    BY <1>1, <2>4, <2>5
  <2>7. \A d \in Cores : d # q /\ d # c => Absent(d, a)
    BY <2>4, <2>5 DEF OthersAbsent
  <2>8. \A d \in Cores : Bare(d, a)
    BY <1>1, <2>6, <2>7, BareRoles
  <2>9. Quiet(a)
    BY <2>2, <2>3 DEF Quiet
  <2> QED
    BY <2>2, <2>5, <2>4, <2>6, <2>7, <2>8, <2>9
<1>3. CASE dir[a].st = "MS_AD"
  <2>1. DowngradedLine(a)
    BY <1>1, <1>3 DEF HoldersInv
  <2>2. PICK q \in Cores :
          /\ InService(a, q, "GetS")
          /\ Downgrading(a, q) \/ Downgraded(a, q)
    BY <1>3, <2>1 DEF DowngradedLine
  <2>3. ~Downgraded(a, q)
    <3>1. ~Keeping(c, a)
      BY <1>1 DEF Keeping, Bare
    <3> QED
      BY <1>1, <3>1 DEF Downgraded, OthersAbsent
  <2>4. Quiet(a) /\ Expecting(q, a, "IS_D")
    BY <2>2, <2>3 DEF Downgrading
  <2>5. PICK o \in Cores \ {q} : OthersAbsent(a, {o, q})
    BY <2>2, <2>3 DEF Downgrading
  <2>6. q # c /\ o = c
    BY <1>1, <2>4, <2>5 DEF OthersAbsent
  <2>7. \A d \in Cores : d # q /\ d # c => Absent(d, a)
    BY <2>5, <2>6 DEF OthersAbsent
  <2>8. \A d \in Cores : Bare(d, a)
    BY <1>1, <2>4, <2>7, BareRoles
  <2> QED
    BY <2>2, <2>4, <2>6, <2>7, <2>8
<1> QED
  BY <1>2, <1>3

\* The request in service is read again, as if its line had not been cached.
LEMMA PutMFromNonOwnerCoherent ==
  ASSUME Inv, Coherent, NEW w \in wb, PutMFromNonOwner(w), UNCHANGED cacheVars
  PROVE  Coherent'
<1> DEFINE a == w.addr
           c == w.src
<1>1. /\ w.type = "PutM" /\ a = w.addr /\ c = w.src
      /\ dir[a].st \in {"MM", "MS_AD"} /\ DirHit(a) /\ dir[a].owner # c
      /\ wb' = wb \ {w} /\ UNCHANGED <<tag, pr, req, fwd, rsp, pending>>
      /\ dir' = [dir EXCEPT ![a] = NoEntry]
  BY DEF PutMFromNonOwner, FromOwner, SetEntry, cacheVars, PutMNonOwnerStates, DirHit
<1> HIDE DEF a, c
<1>2. /\ a \in Lines /\ c \in Cores /\ HoldersInv(a)
  BY <1>1, WriterRole
<1>3. /\ Quiet(a)
      /\ \A d \in Cores : Bare(d, a)
      /\ \E q \in Cores :
           /\ q # c
           /\ \A d \in Cores : d # q /\ d # c => Absent(d, a)
           /\ \/ InService(a, q, "GetS") /\ Expecting(q, a, "IS_D")
              \/ InService(a, q, "GetM") /\ Expecting(q, a, "IM_AD")
  <2>1. /\ w.type = "PutM" /\ a = w.addr /\ c = w.src /\ dir[a].owner # c
        /\ dir[a].st \in {"MM", "MS_AD"}
    BY <1>1
  <2> QED
    BY <2>1, NonOwnerLeaves
<1>4. PICK q \in Cores :
        /\ q # c
        /\ \A d \in Cores : d # q /\ d # c => Absent(d, a)
        /\ \/ InService(a, q, "GetS") /\ Expecting(q, a, "IS_D")
           \/ InService(a, q, "GetM") /\ Expecting(q, a, "IM_AD")
  BY <1>3
<1>5. PICK type :
        /\ InService(a, q, type) /\ type \in {"GetS", "GetM"}
        /\ (type = "GetS") <=> (Pend(q, a).st = "IS_D")
  BY <1>4 DEF Expecting, Served, PendingIn
<1>6. /\ tag[q][a] = "I" /\ Wbs(q, a) = {} /\ ~Waiting(q, a) /\ Datas(q, a) = {}
      /\ Pend(q, a) # None /\ PendingIn(q, a, {"IS_D", "IM_AD"})
  BY <1>4 DEF Expecting, Served, PendingIn
<1>7. /\ \A b \in Lines : b # a => dir'[b] = dir[b]
      /\ dir'[a].st = "I"
  BY <1>1, <1>2 DEF Inv, LLCInv, LLCTypeOK, NoEntry
<1>8. /\ RequestsInv' /\ Waiting(q, a)'
      /\ \A d, b : d # q \/ b # a => (Waiting(d, b)' <=> Waiting(d, b))
  <2>1. dir[a].st \in DirBusy /\ dir'[a].st \notin DirBusy
    BY <1>1, <1>7 DEF DirBusy
  <2> QED
    BY <1>1, <1>2, <1>5, <1>6, <2>1, RequestRestarted DEF Coherent
<1>9. /\ \A b : SameResponses(b)
      /\ \A d : Datas(d, a)' = Datas(d, a)
      /\ Quiet(a)'
  BY <1>1, <1>3, ResponsesUnchanged DEF SameResponses, Quiet
<1>10. /\ DirStepAt(a) /\ Absent(c, a)' /\ Fwds(a)' = Fwds(a)
       /\ \A d \in Cores : d # c => Wbs(d, a)' = Wbs(d, a)
       /\ \A d \in Cores : d # c /\ (Waiting(d, a)' <=> Waiting(d, a)) =>
            SameCore(d, a) /\ Kept(d, a)
  <2>1. /\ \A d \in Cores : Datas(d, a)' = Datas(d, a)
        /\ \A b : b # a => SameResponses(b)
    BY <1>9
  <2>2. /\ \A d, b : b # a => (Waiting(d, b)' <=> Waiting(d, b))
        /\ Waiting(c, a)' <=> Waiting(c, a)
    BY <1>4, <1>8
  <2>3. a = w.addr /\ c = w.src /\ wb' = wb \ {w} /\ UNCHANGED <<tag, pr, fwd, pending>>
    BY <1>1
  <2> QED
    BY <1>7, <2>1, <2>2, <2>3, WritebackFrame
<1>11. Absent(q, a)'
  <2>1. Pend(q, a)' = Pend(q, a) /\ tag' = tag
    BY <1>10, DirFrame DEF DirStepAt
  <2>2. Wbs(q, a)' = {} /\ Datas(q, a)' = {}
    BY <1>4, <1>6, <1>9, <1>10
  <2> QED
    BY <1>6, <1>8, <2>1, <2>2 DEF Absent, Asking, PendingIn
<1>12. \A d \in Cores : Absent(d, a)'
  BY <1>4, <1>8, <1>10, <1>11 DEF Kept
<1> QED
  BY <1>1, <1>2, <1>3, <1>8, <1>9, <1>10, <1>12, LineLeft

\* A core that held nothing leaves the line, which stays in its state: the
\* forwards of the transaction in progress are for others.
LEMMA ForwardsPast ==
  ASSUME Inv, Coherent, NEW a \in Lines, DirStepAt(a), Fwds(a)' = Fwds(a),
         NEW c \in Cores, Bare(c, a), \A d \in Cores : d # c => Kept(d, a),
         dir'[a].st = dir[a].st, dir'[a].owner = dir[a].owner, pending' = pending,
         \A d : d \in Recipients(a)' => d \in Recipients(a)
  PROVE  ForwardsInv(a)'
<1>1. ForwardsInv(a)
  BY DEF Coherent, LineInv
<1>2. \A m \in Fwds(a) : m.dst \in Cores
  BY DEF Inv, InterconnectTypeOK, Fwds, Forward
<1>3. \A d, b : Gone(d, b)' <=> Gone(d, b)
  BY DirFrame
<1>4. \A m \in Fwds(a) : Live(m, a) => m.dst # c
  BY DEF Live, Bare
<1>5. \A m \in Fwds(a) : Live(m, a) => Live(m, a)' \/ Gone(m.dst, a)
  BY <1>2, <1>3, <1>4 DEF Live, Kept
<1>6. \A m \in Fwds(a)' : /\ m \in Fwds(a)
                          /\ m.dst \notin Recipients(a)'
  BY <1>1 DEF ForwardsInv
<1> QED
  BY <1>1, <1>5, <1>6, ForwardsAfter

\* Who collects acknowledgements while a sharer leaves.
LEMMA CollectorKnown ==
  ASSUME Inv, Coherent, NEW a \in Lines, HoldersInv(a), dir[a].st = "SM",
         NEW c \in Cores, ~Absent(c, a), Bare(c, a), ~Leaving(c, a, "PutM"),
         \A owed : ~Collecting(c, a, owed)
  PROVE  \E q \in Cores :
           /\ q # c /\ dir[a].owner = q
           /\ Datas(Directory, a) = {} /\ InService(a, q, "GetM")
           /\ dir[a].sharers = {q} /\ RespOks(a) = {}
           /\ Collecting(q, a, Cardinality(Debtors(q, a)))
           /\ AcksTo(q, a)
           /\ \A d \in Cores \ {q} : Absent(d, a) \/ Owing(d, a, q)
<1>1. PICK q \in Cores :
        /\ dir[a].owner = q /\ Datas(Directory, a) = {}
        /\ InService(a, q, "GetM") /\ dir[a].sharers = {q}
        /\ \/ /\ RespOks(a) = {}
              /\ Collecting(q, a, Cardinality(Debtors(q, a)))
              /\ AcksTo(q, a)
              /\ \A d \in Cores \ {q} : Absent(d, a) \/ Owing(d, a, q)
           \/ Finished(a, q)
  BY DEF HoldersInv, UpgradedLine
<1>2. ~Finished(a, q)
  BY <1>1 DEF Finished, OthersAbsent, Possessing, Bare
<1>3. q # c
  BY <1>1, <1>2
<1> QED
  BY <1>1, <1>2, <1>3

\* In SM the LLC acknowledges for a sharer that left: the collector is owed as
\* many acknowledgements as before.
LEMMA PutSUpgradedCoherent ==
  ASSUME Inv, Coherent, NEW w \in wb, PutS(w), dir[w.addr].st = "SM",
         UNCHANGED cacheVars
  PROVE  Coherent'
<1> DEFINE a == w.addr
           c == w.src
<1>1. /\ a = w.addr /\ c = w.src /\ dir[a].st = "SM" /\ w.type = "PutS"
      /\ wb' = wb \ {w} /\ UNCHANGED <<tag, pr, req, fwd, pending, dir>>
      /\ rsp' = rsp \cup {AckMessage(a, Directory, dir[a].owner, c)}
  BY DEF PutS, cacheVars, llcVars
<1> HIDE DEF a, c
<1>2. /\ a \in Lines /\ c \in Cores /\ HoldersInv(a) /\ ~Absent(c, a) /\ Bare(c, a)
      /\ \A owed : ~Collecting(c, a, owed)
      /\ ~Leaving(c, a, "PutM")
  <2>1. /\ a \in Lines /\ c \in Cores /\ HoldersInv(a) /\ ~Absent(c, a) /\ Bare(c, a)
        /\ \A owed : ~Collecting(c, a, owed)
        /\ \A type : Leaving(c, a, type) => type = w.type
    BY <1>1, WriterRole
  <2> QED
    BY <1>1, <2>1
<1>3. PICK q \in Cores :
        /\ q # c /\ dir[a].owner = q
        /\ Datas(Directory, a) = {} /\ InService(a, q, "GetM")
        /\ dir[a].sharers = {q} /\ RespOks(a) = {}
        /\ Collecting(q, a, Cardinality(Debtors(q, a)))
        /\ AcksTo(q, a)
        /\ \A d \in Cores \ {q} : Absent(d, a) \/ Owing(d, a, q)
  BY <1>1, <1>2, CollectorKnown
<1>4. PICK k : k = AckMessage(a, Directory, q, c)
  OBVIOUS
<1>5. k.type = "Ack" /\ k.addr = a /\ k.dst = q /\ k.sharer = c
  BY <1>4 DEF AckMessage
<1>6. rsp' = rsp \cup {k}
  BY <1>1, <1>3, <1>4
<1>7. /\ \A m : m \in Acks(a)' <=> (m \in Acks(a) \/ m = k)
      /\ RespOks(a)' = RespOks(a) /\ \A d : Datas(d, a)' = Datas(d, a)
      /\ \A b : b # a => SameResponses(b)
  BY <1>5, <1>6 DEF Acks, RespOks, Datas, SameResponses
<1>8. RequestsInv' /\ \A d, b : Waiting(d, b)' <=> Waiting(d, b)
  BY <1>1, SameRequests DEF Coherent
<1>9. /\ DirStepAt(a) /\ Absent(c, a)' /\ Fwds(a)' = Fwds(a)
      /\ \A d \in Cores : d # c => Kept(d, a)
  <2>1. /\ \A d \in Cores : Datas(d, a)' = Datas(d, a)
        /\ \A b : b # a => SameResponses(b)
    BY <1>7
  <2>2. /\ \A d, b : b # a => (Waiting(d, b)' <=> Waiting(d, b))
        /\ \A d : Waiting(d, a)' <=> Waiting(d, a)
    BY <1>8
  <2>3. a = w.addr /\ c = w.src /\ wb' = wb \ {w} /\ UNCHANGED <<tag, pr, fwd, pending>>
    BY <1>1
  <2>4. \A b \in Lines : b # a => dir'[b] = dir[b]
    BY <1>1
  <2> QED
    BY <2>1, <2>2, <2>3, <2>4, WritebackFrame
<1>10. \A d \in Cores : d # c => (Absent(d, a)' <=> Absent(d, a))
  BY <1>9 DEF Kept
<1>11. \A m \in Acks(a) : m.sharer # c
  BY <1>2, <1>3 DEF AcksTo
<1>12. Debtors(q, a)' = Debtors(q, a)
  <2>1. \A s \in Cores : s # c =>
          ((\E m \in Acks(a)' : m.sharer = s) <=> \E m \in Acks(a) : m.sharer = s)
    BY <1>5, <1>7
  <2>2. \E m \in Acks(a)' : m.sharer = c
    BY <1>5, <1>7
  <2>3. \A s \in Cores \ {q} :
          (~Absent(s, a)' \/ \E m \in Acks(a)' : m.sharer = s) <=>
          (~Absent(s, a) \/ \E m \in Acks(a) : m.sharer = s)
    BY <1>2, <1>10, <2>1, <2>2
  <2> QED
    BY <2>3 DEF Debtors
<1>13. Collecting(q, a, Cardinality(Debtors(q, a)))'
  BY <1>3, <1>9, <1>12 DEF Kept
<1>14. AcksTo(q, a)'
  <2>1. \A m \in Acks(a)' : m.dst = q /\ m.sharer \in Cores /\ Absent(m.sharer, a)'
    BY <1>2, <1>3, <1>5, <1>7, <1>9, <1>10 DEF AcksTo
  <2>2. \A m, n \in Acks(a)' : m.sharer = n.sharer => m = n
    BY <1>3, <1>5, <1>7, <1>11 DEF AcksTo
  <2> QED
    BY <2>1, <2>2 DEF AcksTo
<1>15. \A d \in Cores \ {q} : (Absent(d, a) \/ Owing(d, a, q))'
  <2> SUFFICES ASSUME NEW d \in Cores \ {q}, d # c
               PROVE  (Absent(d, a) \/ Owing(d, a, q))'
    BY <1>9
  <2>1. Kept(d, a) /\ (Absent(d, a) \/ Owing(d, a, q))
    BY <1>3, <1>9
  <2> QED
    BY <1>9, <2>1 DEF Kept, Owing
<1>16. UpgradedLine(a)'
  <2>1. dir' = dir /\ InService(a, q, "GetM")'
    BY <1>1, <1>3 DEF InService
  <2> QED
    BY <1>3, <1>7, <1>13, <1>14, <1>15, <2>1 DEF UpgradedLine
<1>17. HoldersInv(a)'
  BY <1>1, <1>16 DEF HoldersInv
<1>18. ForwardsInv(a)'
  <2>1. \A d : d \in Recipients(a)' => d \in Recipients(a)
    BY <1>1, <1>7 DEF Recipients
  <2> QED
    BY <1>1, <1>2, <1>9, <2>1, ForwardsPast
<1>19. LineInv(a)' /\ dir'[a].count = Cardinality(dir'[a].sharers)
  BY <1>1, <1>2, <1>17, <1>18 DEF LineInv, Coherent, SharerCount
<1> QED
  BY <1>2, <1>8, <1>9, <1>19, DirStepAtCoherent

\* What PutS leaves alone where the LLC sends nothing.
LEMMA SharerFrame ==
  ASSUME Inv, Coherent, NEW w \in wb, NEW a, a = w.addr, NEW c, c = w.src,
         wb' = wb \ {w}, UNCHANGED <<tag, pr, req, fwd, rsp, pending>>,
         \A b \in Lines : b # a => dir'[b] = dir[b],
         \/ dir'[a].st \in DirBusy <=> dir[a].st \in DirBusy
         \/ MakingRoom(a)
  PROVE  /\ RequestsInv' /\ DirStepAt(a) /\ Absent(c, a)' /\ Fwds(a)' = Fwds(a)
         /\ \A d \in Cores : d # c => Kept(d, a)
         /\ Acks(a)' = Acks(a) /\ RespOks(a)' = RespOks(a)
         /\ \A d : Datas(d, a)' = Datas(d, a)
<1>1. pending # <<>> => Head(pending).addr \in Lines
  BY UnservedTypes DEF Request
<1>2. RequestsInv' /\ \A d, b : Waiting(d, b)' <=> Waiting(d, b)
  BY <1>1, SameRequests DEF Coherent, MakingRoom
<1>3. /\ \A b : SameResponses(b)
      /\ Acks(a)' = Acks(a) /\ RespOks(a)' = RespOks(a)
      /\ \A d : Datas(d, a)' = Datas(d, a)
  BY ResponsesUnchanged DEF SameResponses
<1>4. /\ DirStepAt(a) /\ Absent(c, a)' /\ Fwds(a)' = Fwds(a)
      /\ \A d \in Cores : d # c => Kept(d, a)
  <2>1. /\ \A d \in Cores : Datas(d, a)' = Datas(d, a)
        /\ \A b : b # a => SameResponses(b)
    BY <1>3
  <2>2. /\ \A d, b : b # a => (Waiting(d, b)' <=> Waiting(d, b))
        /\ \A d : Waiting(d, a)' <=> Waiting(d, a)
    BY <1>2
  <2> QED
    BY <2>1, <2>2, WritebackFrame
<1> QED
  BY <1>2, <1>3, <1>4

\* A sharer less.
LEMMA SharerDropped ==
  ASSUME Inv, Coherent, NEW a \in Lines, NEW c \in dir[a].sharers, NEW st,
         dir' = [dir EXCEPT ![a] = DropSharer(dir[a], st, c)]
  PROVE  /\ dir'[a].st = st /\ dir'[a].owner = dir[a].owner
         /\ \A d : d \in dir'[a].sharers <=> d \in dir[a].sharers /\ d # c
         /\ dir'[a].count = Cardinality(dir'[a].sharers)
         /\ dir[a].count # 1 => dir'[a].sharers # {}
         /\ dir[a].count = 1 => /\ \A d \in dir[a].sharers : d = c
                                /\ dir'[a].sharers = {}
         /\ \A b \in Lines : b # a => dir'[b] = dir[b]
<1> DEFINE sharers == dir[a].sharers
           n == dir[a].count
<1>1. /\ dir \in [Lines -> Entry] /\ sharers \subseteq Cores
      /\ n = Cardinality(sharers)
  BY DEF Inv, LLCInv, LLCTypeOK, Entry, Coherent, SharerCount
<1>2. /\ dir'[a].st = st /\ dir'[a].owner = dir[a].owner
      /\ dir'[a].sharers = sharers \ {c} /\ dir'[a].count = n - 1
      /\ \A b \in Lines : b # a => dir'[b] = dir[b]
  BY <1>1 DEF DropSharer
<1>3. c \in sharers
  OBVIOUS
<1>4. IsFiniteSet(sharers)
  BY <1>1, FS_Subset, ConstantsAssumption
<1> HIDE DEF sharers, n
<1>5. /\ Cardinality(sharers) \in Nat
      /\ Cardinality(sharers \ {c}) = Cardinality(sharers) - 1
  BY <1>3, <1>4, FS_RemoveElement, FS_CardinalityType
<1>6. IsFiniteSet(sharers \ {c})
  BY <1>4, FS_RemoveElement
<1>7. n = 1 <=> sharers \ {c} = {}
  <2>1. Cardinality(sharers \ {c}) = 0 <=> sharers \ {c} = {}
    BY <1>6, FS_EmptySet
  <2> QED
    BY <1>1, <1>5, <2>1
<1> QED
  BY <1>1, <1>2, <1>5, <1>7 DEF sharers, n

\* The last sharer.
LEMMA LastSharer ==
  ASSUME Inv, Coherent, NEW a \in Lines, NEW c \in dir[a].sharers, dir[a].count = 1
  PROVE  \A d \in dir[a].sharers : d = c
<1> DEFINE S == dir[a].sharers
<1>1. S \subseteq Cores /\ Cardinality(S) = 1 /\ c \in S
  BY DEF Inv, LLCInv, LLCTypeOK, Entry, Coherent, SharerCount
<1>2. IsFiniteSet(S)
  BY <1>1, FS_Subset, ConstantsAssumption
<1> HIDE DEF S
<1>3. \E x : S = {x}
  BY <1>1, <1>2, FS_Singleton
<1> QED
  BY <1>1, <1>3 DEF S

\* PutS in S.
LEMMA PutSSharedCoherent ==
  ASSUME Inv, Coherent, NEW w \in wb, PutS(w), dir[w.addr].st = "S",
         UNCHANGED cacheVars
  PROVE  Coherent'
<1> DEFINE a == w.addr
           c == w.src
<1>1. /\ a = w.addr /\ c = w.src /\ dir[a].st = "S"
      /\ wb' = wb \ {w} /\ UNCHANGED <<tag, pr, req, fwd, pending, rsp>>
      /\ \/ dir[a].count # 1 /\ dir' = [dir EXCEPT ![a] = DropSharer(dir[a], "S", c)]
         \/ dir[a].count = 1 /\ dir' = [dir EXCEPT ![a] = NoEntry]
  BY DEF PutS, cacheVars, SetEntry
<1> HIDE DEF a, c
<1>2. a \in Lines /\ c \in Cores /\ HoldersInv(a) /\ ~Absent(c, a) /\ Bare(c, a)
  BY <1>1, WriterRole
<1>3. /\ Quiet(a) /\ \A d \in dir[a].sharers : Keeping(d, a)
      /\ OthersAbsent(a, dir[a].sharers)
  BY <1>1, <1>2 DEF HoldersInv, SharedLine
<1>4. c \in dir[a].sharers
  BY <1>2, <1>3 DEF OthersAbsent
<1>5. /\ \A b \in Lines : b # a => dir'[b] = dir[b]
      /\ dir'[a].st \in {"S", "I"} /\ dir'[a].st \notin DirBusy /\ dir[a].st \notin DirBusy
  BY <1>1, <1>2 DEF Inv, LLCInv, LLCTypeOK, DropSharer, NoEntry, DirBusy
<1>6. /\ RequestsInv' /\ DirStepAt(a) /\ Absent(c, a)' /\ Fwds(a)' = Fwds(a)
      /\ \A d \in Cores : d # c => Kept(d, a)
      /\ Quiet(a)'
  BY <1>1, <1>3, <1>5, SharerFrame DEF Quiet
<1>7. CASE dir[a].count # 1 /\ dir' = [dir EXCEPT ![a] = DropSharer(dir[a], "S", c)]
  <2>1. /\ dir'[a].st = "S" /\ dir'[a].sharers # {}
        /\ \A d : d \in dir'[a].sharers <=> d \in dir[a].sharers /\ d # c
        /\ dir'[a].count = Cardinality(dir'[a].sharers)
    BY <1>2, <1>4, <1>7, SharerDropped
  <2>2. \A d \in dir'[a].sharers : Keeping(d, a)'
    BY <1>2, <1>3, <1>6, <2>1 DEF Kept, Keeping, Inv, LLCInv, LLCTypeOK, Entry
  <2>3. OthersAbsent(a, dir[a].sharers)'
    BY <1>3, <1>6, <2>1 DEF OthersAbsent, Kept
  <2>4. HoldersInv(a)'
    BY <1>6, <2>1, <2>2, <2>3 DEF HoldersInv, SharedLine
  <2>5. Recipients(a)' \subseteq Recipients(a)
    BY <1>1, <2>1 DEF Recipients
  <2>6. LineInv(a)'
    BY <1>1, <1>2, <1>6, <2>4, <2>5, ForwardsLeft DEF LineInv
  <2> QED
    BY <1>2, <1>6, <2>1, <2>6, DirStepAtCoherent
<1>8. CASE dir[a].count = 1 /\ dir' = [dir EXCEPT ![a] = NoEntry]
  <2>1. \A d \in dir[a].sharers : d = c
    BY <1>2, <1>4, <1>8, LastSharer
  <2>2. \A d \in Cores : Absent(d, a)'
    BY <1>3, <1>6, <2>1 DEF OthersAbsent, Kept
  <2> QED
    BY <1>1, <1>2, <1>6, <1>8, <2>2, LineLeft
<1> QED
  BY <1>1, <1>7, <1>8

\* While the LLC waits for the former owner's data or the requestor's RespOk,
\* a sharer that leaves got its copy already.
LEMMA DowngradedKnown ==
  ASSUME Inv, Coherent, NEW a \in Lines, HoldersInv(a),
         dir[a].st \in {"MS_AD", "MS_A"},
         NEW c \in Cores, ~Absent(c, a), Bare(c, a), ~Leaving(c, a, "PutM"),
         \A type, n : ~OwningFor(c, a, type, n),
         \A st : ~Expecting(c, a, st) /\ ~Receiving(c, a, st)
  PROVE  /\ \E q \in Cores : InService(a, q, "GetS") /\ Downgraded(a, q)
         /\ c \in dir[a].sharers
         /\ IF dir[a].st = "MS_AD" THEN HandedOver(Directory, a)
                                   ELSE Datas(Directory, a) = {}
<1>1. PICK q \in Cores :
        /\ InService(a, q, "GetS")
        /\ CASE dir[a].st = "MS_AD" -> \/ Downgrading(a, q)
                                       \/ /\ Downgraded(a, q)
                                          /\ HandedOver(Directory, a)
             [] dir[a].st = "MS_A" -> Downgraded(a, q) /\ Datas(Directory, a) = {}
  BY DEF HoldersInv, DowngradedLine
<1>2. ~Downgrading(a, q)
  <2> SUFFICES ASSUME Downgrading(a, q) PROVE FALSE
    OBVIOUS
  <2>1. PICK o \in Cores \ {q} : Giving(o, a, "GetS", q) /\ OthersAbsent(a, {o, q})
    BY DEF Downgrading
  <2>2. q # c
    BY DEF Downgrading
  <2>3. o = c
    BY <2>1, <2>2 DEF OthersAbsent
  <2> QED
    BY <2>1, <2>3 DEF Giving, Bare
<1>3. /\ Downgraded(a, q)
      /\ IF dir[a].st = "MS_AD" THEN HandedOver(Directory, a)
                                ELSE Datas(Directory, a) = {}
  BY <1>1, <1>2
<1>4. c \in dir[a].sharers
  BY <1>3 DEF Downgraded, OthersAbsent
<1> QED
  BY <1>1, <1>3, <1>4

\* PutS in MS_AD and MS_A, where other sharers remain.
LEMMA DowngradedKept ==
  ASSUME Inv, NEW a \in Lines, NEW c \in Cores, NEW q \in Cores, Downgraded(a, q),
         ~Receiving(c, a, "IS_D"), dir[a].sharers \subseteq Cores,
         \A d : d \in dir'[a].sharers <=> d \in dir[a].sharers /\ d # c,
         dir'[a].sharers # {},
         Absent(c, a)', \A d \in Cores : d # c => Kept(d, a),
         Acks(a)' = Acks(a), RespOks(a)' = RespOks(a)
  PROVE  Downgraded(a, q)'
<1>1. OthersAbsent(a, dir[a].sharers)'
  BY DEF Downgraded, OthersAbsent, Kept
<1>2. \A d \in Cores : d # c /\ Keeping(d, a) => Keeping(d, a)'
  BY DEF Keeping, Kept
<1>3. /\ RespOks(a) = {}
      /\ Receiving(q, a, "IS_D")
      /\ q \in dir[a].sharers
      /\ \A d \in dir[a].sharers \ {q} : Keeping(d, a)
      => /\ RespOks(a)' = {}
         /\ Receiving(q, a, "IS_D")'
         /\ q \in dir'[a].sharers
         /\ \A d \in dir'[a].sharers \ {q} : Keeping(d, a)'
  BY <1>2 DEF Kept
<1>4. /\ RespOkDue(a)
      /\ \A d \in dir[a].sharers : Keeping(d, a)
      => /\ RespOkDue(a)'
         /\ \A d \in dir'[a].sharers : Keeping(d, a)'
  BY <1>2 DEF RespOkDue
<1> QED
  BY <1>1, <1>3, <1>4 DEF Downgraded

\* PutS while the former owner hands the line on (MS_AD and MS_A).
LEMMA PutSDowngradedCoherent ==
  ASSUME Inv, Coherent, NEW w \in wb, PutS(w), dir[w.addr].st \in {"MS_AD", "MS_A"},
         UNCHANGED cacheVars
  PROVE  Coherent'
<1> DEFINE a == w.addr
           c == w.src
<1>1. /\ a = w.addr /\ c = w.src /\ dir[a].st \in {"MS_AD", "MS_A"} /\ w.type = "PutS"
      /\ wb' = wb \ {w} /\ UNCHANGED <<tag, pr, req, fwd, pending, rsp>>
      /\ \/ /\ dir[a].count # 1
            /\ dir' = [dir EXCEPT ![a] = DropSharer(dir[a], dir[a].st, c)]
         \/ /\ dir[a].count = 1
            /\ dir' = [dir EXCEPT ![a] =
                         DropSharer(dir[a], NextOnLastPutS(dir[a].st), c)]
  BY DEF PutS, cacheVars, SetEntry
<1> HIDE DEF a, c
<1>2. /\ a \in Lines /\ c \in Cores /\ HoldersInv(a) /\ ~Absent(c, a) /\ Bare(c, a)
      /\ \A st : ~Expecting(c, a, st) /\ ~Receiving(c, a, st)
      /\ \A type, n : ~OwningFor(c, a, type, n)
      /\ ~Leaving(c, a, "PutM")
  <2>1. /\ a \in Lines /\ c \in Cores /\ HoldersInv(a) /\ ~Absent(c, a) /\ Bare(c, a)
        /\ \A st : ~Expecting(c, a, st) /\ ~Receiving(c, a, st)
        /\ \A type, n : ~OwningFor(c, a, type, n)
        /\ \A type : Leaving(c, a, type) => type = w.type
    BY <1>1, WriterRole
  <2> QED
    BY <1>1, <2>1
<1>3. /\ \E q \in Cores : InService(a, q, "GetS") /\ Downgraded(a, q)
      /\ c \in dir[a].sharers
      /\ IF dir[a].st = "MS_AD" THEN HandedOver(Directory, a)
                                ELSE Datas(Directory, a) = {}
  BY <1>1, <1>2, DowngradedKnown
<1>4. PICK q \in Cores : InService(a, q, "GetS") /\ Downgraded(a, q)
  BY <1>3
<1>5. PICK st \in DirBusy :
        /\ dir' = [dir EXCEPT ![a] = DropSharer(dir[a], st, c)]
        /\ IF dir[a].count # 1 THEN st = dir[a].st
                               ELSE st = NextOnLastPutS(dir[a].st)
  BY <1>1 DEF NextOnLastPutS, DirBusy
<1>6. /\ dir'[a].st = st /\ dir'[a].owner = dir[a].owner
      /\ \A d : d \in dir'[a].sharers <=> d \in dir[a].sharers /\ d # c
      /\ dir'[a].count = Cardinality(dir'[a].sharers)
      /\ dir[a].count # 1 => dir'[a].sharers # {}
      /\ dir[a].count = 1 => /\ \A d \in dir[a].sharers : d = c
                             /\ dir'[a].sharers = {}
      /\ \A b \in Lines : b # a => dir'[b] = dir[b]
  BY <1>2, <1>3, <1>5, SharerDropped
<1>7. /\ RequestsInv' /\ DirStepAt(a) /\ Absent(c, a)' /\ Fwds(a)' = Fwds(a)
      /\ \A d \in Cores : d # c => Kept(d, a)
      /\ Acks(a)' = Acks(a) /\ RespOks(a)' = RespOks(a)
      /\ \A d : Datas(d, a)' = Datas(d, a)
  <2>1. dir'[a].st \in DirBusy <=> dir[a].st \in DirBusy
    BY <1>1, <1>6 DEF DirBusy
  <2> QED
    BY <1>1, <1>6, <2>1, SharerFrame
<1>8. HandedOver(Directory, a)' <=> HandedOver(Directory, a)
  BY <1>7 DEF HandedOver
<1>9. CASE dir[a].count # 1
  <2>1. Downgraded(a, q)'
    <3>1. dir[a].sharers \subseteq Cores
      BY <1>2 DEF Inv, LLCInv, LLCTypeOK, Entry
    <3>2. /\ c \in Cores /\ q \in Cores /\ a \in Lines
          /\ Downgraded(a, q) /\ ~Receiving(c, a, "IS_D")
      BY <1>1, <1>2, <1>3, <1>4
    <3>3. /\ \A d : d \in dir'[a].sharers <=> d \in dir[a].sharers /\ d # c
          /\ dir'[a].sharers # {}
      BY <1>2, <1>4, <1>6, <1>9
    <3>4. /\ Absent(c, a)' /\ \A d \in Cores : d # c => Kept(d, a)
          /\ Acks(a)' = Acks(a) /\ RespOks(a)' = RespOks(a)
      BY <1>7
    <3> QED
      BY <3>1, <3>2, <3>3, <3>4, DowngradedKept
  <2>2. InService(a, q, "GetS")'
    BY <1>1, <1>4 DEF InService
  <2>3. st = dir[a].st
    BY <1>5, <1>9
  <2>4. DowngradedLine(a)'
    <3>1. dir'[a].st = dir[a].st /\ dir[a].st \in {"MS_AD", "MS_A"}
      BY <1>1, <1>6, <2>3
    <3>2. dir[a].st = "MS_AD" => HandedOver(Directory, a)'
      BY <1>3, <1>8
    <3>3. dir[a].st = "MS_A" => Datas(Directory, a)' = {}
      BY <1>3, <1>7
    <3> QED
      BY <1>2, <2>1, <2>2, <3>1, <3>2, <3>3 DEF DowngradedLine
  <2>5. HoldersInv(a)'
    BY <1>1, <1>6, <2>3, <2>4 DEF HoldersInv
  <2>6. \A d : d \in Recipients(a)' => d \in Recipients(a)
    BY <1>1, <1>3, <1>6, <1>7, <2>3 DEF Recipients, HandedOver
  <2>7. ForwardsInv(a)'
    BY <1>1, <1>2, <1>6, <1>7, <2>3, <2>6, ForwardsPast
  <2> QED
    BY <1>2, <1>6, <1>7, <2>5, <2>7, DirStepAtCoherent DEF LineInv
<1>10. CASE dir[a].count = 1
  <2>1. \A d \in dir[a].sharers : d = c
    BY <1>6, <1>10
  <2>2. ~Receiving(q, a, "IS_D") \/ q \notin dir[a].sharers
    BY <1>2, <2>1
  <2>3. Acks(a) = {} /\ RespOkDue(a) /\ OthersAbsent(a, dir[a].sharers)
    BY <1>4, <2>2 DEF Downgraded
  <2>4. \A d \in Cores : Absent(d, a)'
    BY <1>7, <2>1, <2>3 DEF OthersAbsent, Kept
  <2>5. \A d \in Cores : Bare(d, a)
    BY <1>2, <2>1, <2>3, BareRoles DEF OthersAbsent
  <2>6. /\ st = IF dir[a].st = "MS_AD" THEN "MI_AD" ELSE "MI_RespOk"
        /\ pending' # <<>> /\ Head(pending)'.addr = a
    BY <1>1, <1>4, <1>5, <1>10 DEF NextOnLastPutS, InService
  <2>7. AbandonedLine(a)'
    <3>1. RespOkDue(a)' /\ OthersAbsent(a, {})' /\ Acks(a)' = {}
      BY <1>7, <2>3, <2>4 DEF RespOkDue, OthersAbsent
    <3>2. IF dir'[a].st \in {"MI_AD", "MI_D"} THEN HandedOver(Directory, a)'
                                              ELSE Datas(Directory, a)' = {}
      BY <1>1, <1>3, <1>6, <1>7, <1>8, <2>6
    <3> QED
      BY <1>6, <2>6, <3>1, <3>2 DEF AbandonedLine
  <2>8. HoldersInv(a)'
    BY <1>6, <2>6, <2>7 DEF HoldersInv
  <2>9. Recipients(a)' \subseteq Recipients(a)
    BY <1>6, <1>10, <2>6 DEF Recipients
  <2>10. ForwardsInv(a)'
    BY <1>2, <1>7, <2>5, <2>9, ForwardsLeft
  <2> QED
    BY <1>2, <1>6, <1>7, <2>8, <2>10, DirStepAtCoherent DEF LineInv
<1> QED
  BY <1>9, <1>10

\* A line that is being recalled, seen from a core that leaves or left it.
LEMMA RecalledKnown ==
  ASSUME Inv, Coherent, NEW a \in Lines, dir[a].st = "SI"
  PROVE  /\ MakingRoom(a) /\ RespOks(a) = {} /\ Datas(Directory, a) = {}
         /\ AcksTo(Directory, a)
         /\ \A m \in Acks(a) : m.src = m.sharer /\ m.sharer \in dir[a].sharers
         /\ \A d \in dir[a].sharers : \/ Owing(d, a, Directory)
                                      \/ \E m \in Acks(a) : m.sharer = d
         /\ OthersAbsent(a, dir[a].sharers)
         /\ dir[a].sharers \subseteq Cores
         /\ \A m \in Acks(a) : m.sharer \in Cores /\ Absent(m.sharer, a)
BY DEF Coherent, LineInv, HoldersInv, RecalledLine, AcksTo, Inv, LLCInv,
       LLCTypeOK, Entry

\* One of the sharers is done with the recalled line, others are not.
LEMMA RecalledKept ==
  ASSUME Inv, Coherent, NEW a \in Lines, dir[a].st = "SI", NEW c \in Cores,
         DirStepAt(a), RequestsInv', Absent(c, a)', Bare(c, a),
         \A d \in Cores : d # c => Kept(d, a),
         NEW gone, \A m : m \in Acks(a)' <=> m \in Acks(a) /\ m # gone,
         \A m \in Acks(a)' : m.sharer # c,
         gone \in Acks(a) => gone.sharer = c,
         RespOks(a)' = RespOks(a), Datas(Directory, a)' = Datas(Directory, a),
         Fwds(a)' = Fwds(a), pending' = pending,
         dir'[a].st = "SI", dir'[a].owner = dir[a].owner, dir'[a].sharers # {},
         \A d : d \in dir'[a].sharers <=> d \in dir[a].sharers /\ d # c,
         dir'[a].count = Cardinality(dir'[a].sharers)
  PROVE  Coherent'
<1>1. /\ MakingRoom(a) /\ RespOks(a) = {} /\ Datas(Directory, a) = {}
      /\ AcksTo(Directory, a)
      /\ \A m \in Acks(a) : m.src = m.sharer /\ m.sharer \in dir[a].sharers
      /\ \A d \in dir[a].sharers : \/ Owing(d, a, Directory)
                                   \/ \E m \in Acks(a) : m.sharer = d
      /\ OthersAbsent(a, dir[a].sharers)
      /\ dir[a].sharers \subseteq Cores
  BY RecalledKnown
<1>2. AcksTo(Directory, a)'
  <2>1. \A m \in Acks(a)' :
          m.dst = Directory /\ m.sharer \in Cores /\ Absent(m.sharer, a)'
    BY <1>1 DEF AcksTo, Kept
  <2>2. \A m, n \in Acks(a)' : m.sharer = n.sharer => m = n
    BY <1>1 DEF AcksTo
  <2> QED
    BY <2>1, <2>2 DEF AcksTo
<1>3. \A m \in Acks(a)' : m.src = m.sharer /\ m.sharer \in dir'[a].sharers
  BY <1>1
<1>4. \A d \in dir'[a].sharers : \/ Owing(d, a, Directory)'
                                 \/ \E m \in Acks(a)' : m.sharer = d
  <2> SUFFICES ASSUME NEW d \in dir'[a].sharers
               PROVE  \/ Owing(d, a, Directory)'
                      \/ \E m \in Acks(a)' : m.sharer = d
    OBVIOUS
  <2>1. d \in dir[a].sharers /\ d # c /\ d \in Cores /\ Kept(d, a)
    BY <1>1
  <2>2. CASE Owing(d, a, Directory)
    BY <2>1, <2>2 DEF Owing, Kept
  <2>3. CASE \E m \in Acks(a) : m.sharer = d
    BY <2>1, <2>3
  <2> QED
    BY <1>1, <2>1, <2>2, <2>3
<1>5. OthersAbsent(a, dir[a].sharers)'
  BY <1>1 DEF OthersAbsent, Kept
<1>6. MakingRoom(a)' /\ RespOks(a)' = {} /\ Datas(Directory, a)' = {}
  BY <1>1 DEF MakingRoom
<1>7. RecalledLine(a)'
  BY <1>2, <1>3, <1>4, <1>5, <1>6 DEF RecalledLine
<1>8. HoldersInv(a)'
  BY <1>7 DEF HoldersInv
<1>9. \A d : d \in Recipients(a)' => d \in Recipients(a)
  BY DEF Recipients
<1>10. ForwardsInv(a)'
  BY <1>9, ForwardsPast
<1> QED
  BY <1>8, <1>10, DirStepAtCoherent DEF LineInv

\* The last of the sharers is done with the recalled line.
LEMMA RecalledLeft ==
  ASSUME Inv, Coherent, NEW a \in Lines, dir[a].st = "SI",
         NEW c \in dir[a].sharers, dir[a].count = 1,
         DirStepAt(a), RequestsInv', Absent(c, a)', Bare(c, a),
         \A d \in Cores : d # c => Kept(d, a),
         Acks(a)' = {}, RespOks(a)' = RespOks(a),
         Datas(Directory, a)' = Datas(Directory, a),
         Fwds(a)' = Fwds(a), dir' = [dir EXCEPT ![a] = NoEntry]
  PROVE  Coherent'
<1>1. /\ RespOks(a) = {} /\ Datas(Directory, a) = {}
      /\ OthersAbsent(a, dir[a].sharers)
  BY RecalledKnown
<1>2. \A d \in dir[a].sharers : d = c
  BY LastSharer
<1>3. \A d \in Cores : d # c => Absent(d, a)
  BY <1>1, <1>2 DEF OthersAbsent
<1>4. \A d \in Cores : Absent(d, a)' /\ Bare(d, a)
  BY <1>3, BareRoles DEF Kept
<1>5. Quiet(a)'
  BY <1>1 DEF Quiet
<1> QED
  BY <1>4, <1>5, LineLeft

\* PutS in SI.
LEMMA PutSRecalledCoherent ==
  ASSUME Inv, Coherent, NEW w \in wb, PutS(w), dir[w.addr].st = "SI",
         UNCHANGED cacheVars
  PROVE  Coherent'
<1> DEFINE a == w.addr
           c == w.src
<1>1. /\ a = w.addr /\ c = w.src /\ dir[a].st = "SI"
      /\ wb' = wb \ {w} /\ UNCHANGED <<tag, pr, req, fwd, pending, rsp>>
      /\ \/ dir[a].count # 1 /\ dir' = [dir EXCEPT ![a] = DropSharer(dir[a], "SI", c)]
         \/ dir[a].count = 1 /\ dir' = [dir EXCEPT ![a] = NoEntry]
  BY DEF PutS, cacheVars, SetEntry, EvictFromLlc
<1> HIDE DEF a, c
<1>2. a \in Lines /\ c \in Cores /\ ~Absent(c, a) /\ Bare(c, a)
  BY <1>1, WriterRole
<1>3. /\ MakingRoom(a) /\ OthersAbsent(a, dir[a].sharers)
      /\ \A m \in Acks(a) : m.sharer \in Cores /\ Absent(m.sharer, a)
      /\ \A m \in Acks(a) : m.sharer \in dir[a].sharers
  BY <1>1, <1>2, RecalledKnown
<1>4. c \in dir[a].sharers /\ \A m \in Acks(a) : m.sharer # c
  BY <1>2, <1>3 DEF OthersAbsent
<1>5. \A b \in Lines : b # a => dir'[b] = dir[b]
  BY <1>1, <1>2 DEF Inv, LLCInv, LLCTypeOK
<1>6. /\ RequestsInv' /\ DirStepAt(a) /\ Absent(c, a)' /\ Fwds(a)' = Fwds(a)
      /\ \A d \in Cores : d # c => Kept(d, a)
      /\ Acks(a)' = Acks(a) /\ RespOks(a)' = RespOks(a)
      /\ \A d : Datas(d, a)' = Datas(d, a)
  BY <1>1, <1>3, <1>5, SharerFrame
<1>7. CASE dir[a].count # 1 /\ dir' = [dir EXCEPT ![a] = DropSharer(dir[a], "SI", c)]
  <2>1. /\ dir'[a].st = "SI" /\ dir'[a].owner = dir[a].owner /\ dir'[a].sharers # {}
        /\ \A d : d \in dir'[a].sharers <=> d \in dir[a].sharers /\ d # c
        /\ dir'[a].count = Cardinality(dir'[a].sharers)
    BY <1>2, <1>4, <1>7, SharerDropped
  <2>2. PICK gone : gone \notin Acks(a)
    <3>1. [type |-> "PutS"] \notin Acks(a)
      BY DEF Acks
    <3> QED
      BY <3>1
  <2>3. /\ \A m : m \in Acks(a)' <=> m \in Acks(a) /\ m # gone
        /\ \A m \in Acks(a)' : m.sharer # c
    BY <1>4, <1>6, <2>2
  <2> QED
    BY <1>1, <1>2, <1>6, <2>1, <2>2, <2>3, RecalledKept
<1>8. CASE dir[a].count = 1 /\ dir' = [dir EXCEPT ![a] = NoEntry]
  <2>1. Acks(a) = {}
    <3>1. \A d \in dir[a].sharers : d = c
      BY <1>2, <1>4, <1>8, LastSharer
    <3> QED
      BY <1>3, <1>4, <3>1
  <2> QED
    BY <1>1, <1>2, <1>4, <1>6, <1>8, <2>1, RecalledLeft
<1> QED
  BY <1>1, <1>7, <1>8

\* PutS, whatever the state of the entry.
LEMMA PutSCoherent ==
  ASSUME Inv, Coherent, NEW w \in wb, PutS(w), UNCHANGED cacheVars
  PROVE  Coherent'
BY PutSSharedCoherent, PutSUpgradedCoherent, PutSDowngradedCoherent,
   PutSRecalledCoherent
   DEF PutS, PutSStates

-----------------------------------------------------------------------------
(* Answers to the directory.                                               *)

\* The forwards of a line whose recipients alone have anything to do with it.
LEMMA ForwardsOver ==
  ASSUME Inv, Coherent, NEW a \in Lines, DirStepAt(a), Fwds(a)' = Fwds(a),
         OthersAbsent(a, Recipients(a)),
         \A d : d \in Recipients(a)' => d \in Recipients(a)
  PROVE  ForwardsInv(a)'
<1>1. ForwardsInv(a)
  BY DEF Coherent, LineInv
<1>2. \A m \in Fwds(a) : m.dst \in Cores /\ m.dst \notin Recipients(a)
  BY <1>1 DEF ForwardsInv, Inv, InterconnectTypeOK, Fwds, Forward
<1>3. \A m \in Fwds(a) : ~Sharing(m.dst, a) /\ ~Owning(m.dst, a)
  BY <1>2, BareRoles DEF OthersAbsent, Bare
<1>4. \A m \in Fwds(a) : ~Live(m, a)
  BY <1>1, <1>3, OnlyStale
<1> QED
  BY <1>1, <1>2, <1>4, ForwardsAfter

\* The answer m about line a is read: nothing else changes for the caches.
AnswerRead(m, a) ==
  /\ RequestsInv' /\ DirStepAt(a) /\ Fwds(a)' = Fwds(a)
  /\ \A d \in Cores : Kept(d, a)
  /\ \A k : k \in Acks(a)' <=> k \in Acks(a) /\ k # m
  /\ \A k : k \in RespOks(a)' <=> k \in RespOks(a) /\ k # m
  /\ \A k : k \in Datas(Directory, a)' <=> k \in Datas(Directory, a) /\ k # m

\* The transaction goes on, ends, or makes room.
LEMMA AnswerTaken ==
  ASSUME Inv, Coherent, NEW m \in rsp, m.dst = Directory, NEW a, a = m.addr,
         rsp' = rsp \ {m}, UNCHANGED <<tag, pr, req, wb, fwd>>,
         \A b \in Lines : b # a => dir'[b] = dir[b],
         dir[a].st \in DirBusy,
         \/ pending' = pending /\ (dir'[a].st \in DirBusy \/ MakingRoom(a))
         \/ /\ pending # <<>>
            /\ Head(pending).addr = a
            /\ pending' = Tail(pending)
  PROVE  AnswerRead(m, a)
<1>1. a \in Lines /\ Directory \notin Cores
  BY ConstantsAssumption DEF Inv, InterconnectTypeOK, Response
<1>2. /\ \A k : k \in Acks(a)' <=> k \in Acks(a) /\ k # m
      /\ \A k : k \in RespOks(a)' <=> k \in RespOks(a) /\ k # m
      /\ \A k : k \in Datas(Directory, a)' <=> k \in Datas(Directory, a) /\ k # m
      /\ \A d \in Cores : Datas(d, a)' = Datas(d, a)
      /\ \A b : b # a => SameResponses(b)
  BY <1>1 DEF Acks, RespOks, Datas, SameResponses
<1>3. RequestsInv' /\ \A d, b : Waiting(d, b)' <=> Waiting(d, b)
  <2>1. CASE pending' = pending /\ (dir'[a].st \in DirBusy \/ MakingRoom(a))
    <3>1. pending # <<>> => Head(pending).addr \in Lines
      BY UnservedTypes DEF Request
    <3> QED
      BY <2>1, <3>1, SameRequests DEF Coherent, MakingRoom
  <2>2. CASE /\ pending # <<>>
             /\ Head(pending).addr = a
             /\ pending' = Tail(pending)
    <3>1. pending' = <<>>
      BY <2>2, PendingStream DEF Inv, LLCInv, LLCTypeOK, BlockingDiscipline
    <3> QED
      BY <2>2, <3>1, RequestFinished DEF Coherent
  <2> QED
    BY <2>1, <2>2
<1>4. \A b \in Lines : b # a => dir[b].st \notin DirBusy
  BY <1>1 DEF Inv, LLCInv, BlockingDiscipline
<1>5. \A b : Fwds(b)' = Fwds(b) /\ \A d : Wbs(d, b)' = Wbs(d, b)
  BY DEF Fwds, Wbs
<1>6. DirStepAt(a)
  BY <1>2, <1>3, <1>4, <1>5 DEF DirStepAt
<1>7. \A d \in Cores : Kept(d, a)
  BY <1>2, <1>3, <1>5, <1>6, DirFrame
<1> QED
  BY <1>2, <1>3, <1>5, <1>6, <1>7 DEF AnswerRead

\* What MoveTo makes of the entry.
LEMMA EntryMoved ==
  ASSUME Inv, Coherent, NEW a \in Lines, NEW st \in DirStates, MoveTo(a, st)
  PROVE  /\ dir'[a].st = st
         /\ st # "I" => /\ dir'[a].sharers = dir[a].sharers
                        /\ dir'[a].owner = dir[a].owner
         /\ st = "I" => dir' = [dir EXCEPT ![a] = NoEntry]
         /\ dir'[a].count = Cardinality(dir'[a].sharers)
         /\ \A b \in Lines : b # a => dir'[b] = dir[b]
         /\ st \in DirBusy => pending' = pending
         /\ st \notin DirBusy => pending # <<>> /\ pending' = Tail(pending)
<1>1. dir \in [Lines -> Entry] /\ dir[a].count = Cardinality(dir[a].sharers)
  BY DEF Inv, LLCInv, LLCTypeOK, Coherent, SharerCount
<1>2. CASE st # "I"
  <2>1. /\ dir' = [dir EXCEPT ![a] = [dir[a] EXCEPT !.st = st]]
        /\ st \in DirBusy => pending' = pending
        /\ st \notin DirBusy => pending # <<>> /\ pending' = Tail(pending)
    BY <1>2 DEF MoveTo, SetEntry, Finish, DirBusy, DirStable
  <2>2. /\ dir'[a] = [dir[a] EXCEPT !.st = st]
        /\ \A b \in Lines : b # a => dir'[b] = dir[b]
    BY <1>1, <2>1
  <2>3. /\ dir'[a].st = st /\ dir'[a].sharers = dir[a].sharers
        /\ dir'[a].owner = dir[a].owner /\ dir'[a].count = dir[a].count
    BY <1>1, <2>2 DEF Entry
  <2> QED
    BY <1>1, <1>2, <2>1, <2>2, <2>3
<1>3. CASE st = "I"
  <2>1. /\ dir' = [dir EXCEPT ![a] = NoEntry]
        /\ st \notin DirBusy /\ pending # <<>> /\ pending' = Tail(pending)
    BY <1>3 DEF MoveTo, SetEntry, Finish, DirBusy, DirStable
  <2>2. /\ dir'[a] = NoEntry
        /\ \A b \in Lines : b # a => dir'[b] = dir[b]
    BY <1>1, <2>1
  <2>3. dir'[a].st = st /\ dir'[a].count = Cardinality(dir'[a].sharers)
    BY <1>3, <2>2, FS_EmptySet DEF NoEntry
  <2> QED
    BY <1>3, <2>1, <2>2, <2>3
<1> QED
  BY <1>2, <1>3

\* The line ends in S.
LEMMA SharedAgain ==
  ASSUME Inv, Coherent, NEW a \in Lines, DirStepAt(a), RequestsInv',
         Fwds(a)' = Fwds(a), \A d \in Cores : Kept(d, a),
         dir[a].st \in {"MS_A", "MS_D"}, dir'[a].st = "S",
         dir'[a].sharers = dir[a].sharers, dir[a].sharers # {},
         \A d \in dir[a].sharers : Keeping(d, a),
         OthersAbsent(a, dir[a].sharers), Quiet(a)',
         dir'[a].count = Cardinality(dir'[a].sharers)
  PROVE  Coherent'
<1>1. dir[a].sharers \subseteq Cores
  BY DEF Inv, LLCInv, LLCTypeOK, Entry
<1>2. \A d \in dir'[a].sharers : Keeping(d, a)'
  BY <1>1 DEF Keeping, Kept
<1>3. OthersAbsent(a, dir[a].sharers)'
  BY DEF OthersAbsent, Kept
<1>4. HoldersInv(a)'
  BY <1>2, <1>3 DEF HoldersInv, SharedLine
<1>5. Recipients(a) = dir[a].sharers /\ Recipients(a)' = dir'[a].sharers
  BY DEF Recipients
<1>6. ForwardsInv(a)'
  BY <1>5, ForwardsOver
<1> QED
  BY <1>4, <1>6, DirStepAtCoherent DEF LineInv

\* The line ends in M.
LEMMA ModifiedAgain ==
  ASSUME Inv, Coherent, NEW a \in Lines, DirStepAt(a), RequestsInv',
         Fwds(a)' = Fwds(a), \A d \in Cores : Kept(d, a),
         dir[a].st \in {"MM", "SM"}, dir'[a].st = "M",
         dir'[a].sharers = dir[a].sharers, dir'[a].owner = dir[a].owner,
         NEW q \in Cores, dir[a].owner = q, dir[a].sharers = {q},
         Possessing(q, a), \A d \in Cores : d # q => Absent(d, a), Quiet(a)',
         dir'[a].count = Cardinality(dir'[a].sharers)
  PROVE  Coherent'
<1>1. Possessing(q, a)' /\ OthersAbsent(a, {q})'
  BY DEF Possessing, Kept, OthersAbsent
<1>2. HoldersInv(a)'
  BY <1>1 DEF HoldersInv, ModifiedLine
<1>3. Recipients(a) = dir[a].sharers /\ Recipients(a)' = dir'[a].sharers
  BY DEF Recipients
<1>4. ForwardsInv(a)'
  BY <1>3, ForwardsOver DEF OthersAbsent
<1> QED
  BY <1>2, <1>4, DirStepAtCoherent DEF LineInv

\* The rows for the last answers.
LEMMA AnswerRow ==
  /\ NextOnDataResp["MS_AD"] = "MS_A" /\ NextOnDataResp["MS_D"] = "S"
  /\ NextOnDataResp["MI_AD"] = "MI_A" /\ NextOnDataResp["MI_D"] = "I"
  /\ DOMAIN NextOnDataResp = {"MS_AD", "MS_D", "MI_AD", "MI_D"}
  /\ NextOnRespOk["MM"] = "M" /\ NextOnRespOk["SM"] = "M"
  /\ NextOnRespOk["MS_A"] = "S" /\ NextOnRespOk["MS_AD"] = "MS_D"
  /\ NextOnRespOk["MI_AD"] = "MI_D" /\ NextOnRespOk["MI_A"] = "I"
  /\ NextOnRespOk["MI_RespOk"] = "I"
  /\ DOMAIN NextOnRespOk =
       {"MM", "SM", "MS_A", "MS_AD", "MI_AD", "MI_A", "MI_RespOk"}
BY DEF NextOnDataResp, NextOnRespOk

\* The entry after MoveTo.
MovedTo(a, st) ==
  /\ dir'[a].st = st
  /\ dir'[a].count = Cardinality(dir'[a].sharers)
  /\ st # "I" => /\ dir'[a].sharers = dir[a].sharers
                 /\ dir'[a].owner = dir[a].owner
  /\ st = "I" => dir' = [dir EXCEPT ![a] = NoEntry]
  /\ st \in DirBusy => pending' = pending

\* What is known of the line when an answer that moves the entry to st is read.
LEMMA AnswerMoves ==
  ASSUME Inv, Coherent, NEW m \in rsp, m.dst = Directory, NEW a, a = m.addr,
         rsp' = rsp \ {m}, UNCHANGED <<req, wb, fwd>>, UNCHANGED cacheVars,
         NEW st \in DirStates, MoveTo(a, st), dir[a].st \in DirBusy,
         pending # <<>>, Head(pending).addr = a
  PROVE  AnswerRead(m, a) /\ MovedTo(a, st)
<1>1. a \in Lines
  BY DEF Inv, InterconnectTypeOK, Response
<1>2. /\ dir'[a].st = st
      /\ st # "I" => /\ dir'[a].sharers = dir[a].sharers
                     /\ dir'[a].owner = dir[a].owner
      /\ st = "I" => dir' = [dir EXCEPT ![a] = NoEntry]
      /\ dir'[a].count = Cardinality(dir'[a].sharers)
      /\ \A b \in Lines : b # a => dir'[b] = dir[b]
      /\ st \in DirBusy => pending' = pending
      /\ st \notin DirBusy => pending # <<>> /\ pending' = Tail(pending)
  BY <1>1, EntryMoved
<1>3. UNCHANGED <<tag, pr, req, wb, fwd>>
  BY DEF cacheVars
<1>4. AnswerRead(m, a)
  <2>1. \/ pending' = pending /\ (dir'[a].st \in DirBusy \/ MakingRoom(a))
        \/ /\ pending # <<>>
           /\ Head(pending).addr = a
           /\ pending' = Tail(pending)
    BY <1>2
  <2> QED
    BY <1>2, <1>3, <2>1, AnswerTaken
<1>5. MovedTo(a, st)
  BY <1>2 DEF MovedTo
<1> QED
  BY <1>4, <1>5

\* All have left the line and the transaction ends.
LEMMA AbandonedLeft ==
  ASSUME Inv, Coherent, NEW a \in Lines, DirStepAt(a), RequestsInv',
         Fwds(a)' = Fwds(a), \A d \in Cores : Kept(d, a),
         dir[a].st \in {"MI_AD", "MI_A", "MI_D", "MI_RespOk"},
         OthersAbsent(a, {}), Quiet(a)', dir' = [dir EXCEPT ![a] = NoEntry]
  PROVE  Coherent'
<1>1. \A d \in Cores : Absent(d, a)'
  BY DEF OthersAbsent, Kept
<1> QED
  BY <1>1, LineLeft

\* All have left the line and the transaction goes on.
LEMMA AbandonedStill ==
  ASSUME Inv, Coherent, NEW a \in Lines, DirStepAt(a), RequestsInv',
         Fwds(a)' = Fwds(a), \A d \in Cores : Kept(d, a),
         OthersAbsent(a, {}), dir[a].st = "MI_AD", dir'[a].st \in {"MI_A", "MI_D"},
         dir'[a].sharers = dir[a].sharers,
         dir'[a].count = Cardinality(dir'[a].sharers),
         pending' = pending, pending # <<>>, Head(pending).addr = a, Acks(a)' = {},
         dir'[a].st = "MI_A" => Datas(Directory, a)' = {} /\ RespOkDue(a)',
         dir'[a].st = "MI_D" => RespOks(a)' = {} /\ HandedOver(Directory, a)'
  PROVE  Coherent'
<1>1. OthersAbsent(a, {})' /\ OthersAbsent(a, Recipients(a))
  BY DEF OthersAbsent, Kept
<1>2. AbandonedLine(a)'
  BY <1>1 DEF AbandonedLine
<1>3. HoldersInv(a)'
  BY <1>2 DEF HoldersInv
<1>4. \A d : d \in Recipients(a)' => d \in Recipients(a)
  BY DEF Recipients
<1>5. ForwardsInv(a)'
  BY <1>1, <1>4, ForwardsOver
<1> QED
  BY <1>3, <1>5, DirStepAtCoherent DEF LineInv

\* Sharers have the line and the transaction goes on.
LEMMA DowngradedStill ==
  ASSUME Inv, Coherent, NEW a \in Lines, DirStepAt(a), RequestsInv',
         Fwds(a)' = Fwds(a), \A d \in Cores : Kept(d, a),
         NEW q \in Cores, InService(a, q, "GetS"), pending' = pending,
         Downgraded(a, q), HandedOver(Directory, a), dir[a].st = "MS_AD",
         dir'[a].sharers = dir[a].sharers,
         dir'[a].count = Cardinality(dir'[a].sharers), Acks(a)' = {},
         \/ /\ dir'[a].st = "MS_A" /\ RespOks(a)' = RespOks(a)
            /\ Datas(Directory, a)' = {}
         \/ /\ dir'[a].st = "MS_D" /\ RespOkDue(a) /\ RespOks(a)' = {}
            /\ HandedOver(Directory, a)'
  PROVE  Coherent'
<1>1. /\ dir[a].sharers \subseteq Cores /\ dir[a].sharers # {}
      /\ OthersAbsent(a, dir[a].sharers)
  BY DEF Inv, LLCInv, LLCTypeOK, Entry, Downgraded
<1>2. \A d \in Cores : Keeping(d, a) => Keeping(d, a)'
  BY DEF Keeping, Kept
<1>3. OthersAbsent(a, dir[a].sharers)'
  BY <1>1 DEF OthersAbsent, Kept
<1>4. InService(a, q, "GetS")'
  BY DEF InService
<1>5. DowngradedLine(a)'
  <2>1. CASE dir'[a].st = "MS_A"
    <3>1. RespOks(a)' = RespOks(a) /\ Datas(Directory, a)' = {}
      BY <2>1
    <3>2. \/ /\ RespOks(a)' = {}
             /\ Receiving(q, a, "IS_D")'
             /\ q \in dir'[a].sharers
             /\ \A c \in dir'[a].sharers \ {q} : Keeping(c, a)'
          \/ /\ RespOkDue(a)'
             /\ \A c \in dir'[a].sharers : Keeping(c, a)'
      BY <1>1, <1>2, <3>1 DEF Downgraded, Kept, RespOkDue
    <3>3. Downgraded(a, q)'
      BY <1>1, <1>3, <3>2 DEF Downgraded
    <3> QED
      BY <1>4, <2>1, <3>1, <3>3 DEF DowngradedLine
  <2>2. CASE dir'[a].st = "MS_D"
    <3>1. RespOkDue(a) /\ RespOks(a)' = {} /\ HandedOver(Directory, a)'
      BY <2>2
    <3>2. \A c \in dir[a].sharers : Keeping(c, a)
      BY <3>1 DEF Downgraded, RespOkDue
    <3>3. \A c \in dir'[a].sharers : Keeping(c, a)'
      BY <1>1, <1>2, <3>2
    <3> QED
      BY <1>1, <1>3, <1>4, <2>2, <3>1, <3>3 DEF DowngradedLine
  <2> QED
    BY <2>1, <2>2
<1>6. HoldersInv(a)'
  BY <1>5 DEF HoldersInv
<1>7. Recipients(a) = dir[a].sharers /\ Recipients(a)' = dir'[a].sharers
  BY DEF Recipients, HandedOver
<1>8. ForwardsInv(a)'
  BY <1>1, <1>7, ForwardsOver
<1> QED
  BY <1>6, <1>8, DirStepAtCoherent DEF LineInv

\* The former owner's data reaches the LLC.
LEMMA DataRespCoherent ==
  ASSUME Inv, Coherent, NEW m \in rsp, ReceiveDataResp(m), UNCHANGED cacheVars
  PROVE  Coherent'
<1> DEFINE a == m.addr
<1>1. /\ a = m.addr /\ m.dst = Directory /\ m.type = "Data" /\ rsp' = rsp \ {m}
      /\ UNCHANGED <<req, wb, fwd>>
      /\ \/ dir[a].st = "MS_AD" /\ MoveTo(a, "MS_A")
         \/ dir[a].st = "MS_D" /\ MoveTo(a, "S")
         \/ dir[a].st = "MI_AD" /\ MoveTo(a, "MI_A")
         \/ dir[a].st = "MI_D" /\ MoveTo(a, "I")
         \/ /\ dir[a].st = "MI" /\ dir' = [dir EXCEPT ![a] = NoEntry]
            /\ pending' = pending
  BY AnswerRow DEF ReceiveDataResp, EvictFromLlc, SetEntry
<1> HIDE DEF a
<1>11. /\ a = m.addr /\ m.dst = Directory /\ rsp' = rsp \ {m}
       /\ UNCHANGED <<req, wb, fwd>>
  BY <1>1
<1>2. a \in Lines /\ HoldersInv(a)
  BY <1>1 DEF Inv, InterconnectTypeOK, Response, Coherent, LineInv
<1>3. m \in Datas(Directory, a) /\ m \notin RespOks(a) /\ m \notin Acks(a)
  BY <1>1 DEF Datas, RespOks, Acks
<1>4. HandedOver(Directory, a) => \A k \in Datas(Directory, a) : k = m
  BY <1>3 DEF HandedOver
<1>5. /\ \A st \in {"MS_A", "S", "MI_A", "I"} : st \in DirStates
      /\ \A st \in {"MS_AD", "MS_D", "MI_AD", "MI_D", "MI", "MS_A", "MI_A"} :
           st \in DirBusy
  BY DEF DirStates, DirStable, DirBusy
<1>6. CASE dir[a].st = "MS_AD" /\ MoveTo(a, "MS_A")
  <2>1. PICK q \in Cores :
          /\ InService(a, q, "GetS")
          /\ \/ Downgrading(a, q)
             \/ Downgraded(a, q) /\ HandedOver(Directory, a)
    BY <1>2, <1>6 DEF HoldersInv, DowngradedLine
  <2>2. Downgraded(a, q) /\ HandedOver(Directory, a)
    BY <1>3, <2>1 DEF Downgrading, Quiet
  <2>3. pending # <<>> /\ Head(pending).addr = a /\ Acks(a) = {}
    BY <2>1, <2>2 DEF InService, Downgraded
  <2>4. /\ AnswerRead(m, a)
        /\ dir'[a].st = "MS_A" /\ dir'[a].sharers = dir[a].sharers
        /\ dir'[a].count = Cardinality(dir'[a].sharers)
        /\ pending' = pending
    <3>1. /\ "MS_A" \in DirStates /\ MoveTo(a, "MS_A") /\ dir[a].st \in DirBusy
          /\ pending # <<>> /\ Head(pending).addr = a
      BY <1>5, <1>6, <2>3
    <3>2. AnswerRead(m, a) /\ MovedTo(a, "MS_A")
      BY <1>11, <3>1, AnswerMoves
    <3> QED
      BY <1>5, <3>2 DEF MovedTo
  <2>5. Acks(a)' = {} /\ RespOks(a)' = RespOks(a) /\ Datas(Directory, a)' = {}
    BY <1>3, <1>4, <2>2, <2>3, <2>4 DEF AnswerRead
  <2> QED
    BY <1>2, <1>6, <2>1, <2>2, <2>4, <2>5, DowngradedStill DEF AnswerRead
<1>7. CASE dir[a].st = "MS_D" /\ MoveTo(a, "S")
  <2>1. PICK q \in Cores :
          /\ InService(a, q, "GetS")
          /\ Acks(a) = {} /\ RespOks(a) = {} /\ HandedOver(Directory, a)
          /\ dir[a].sharers # {}
          /\ \A c \in dir[a].sharers : Keeping(c, a)
          /\ OthersAbsent(a, dir[a].sharers)
    BY <1>2, <1>7 DEF HoldersInv, DowngradedLine
  <2>2. pending # <<>> /\ Head(pending).addr = a
    BY <2>1 DEF InService
  <2>3. /\ AnswerRead(m, a)
        /\ dir'[a].st = "S" /\ dir'[a].sharers = dir[a].sharers
        /\ dir'[a].count = Cardinality(dir'[a].sharers)
    <3>1. /\ "S" \in DirStates /\ MoveTo(a, "S") /\ dir[a].st \in DirBusy
          /\ pending # <<>> /\ Head(pending).addr = a
      BY <1>5, <1>7, <2>2
    <3>2. AnswerRead(m, a) /\ MovedTo(a, "S")
      BY <1>11, <3>1, AnswerMoves
    <3> QED
      BY <1>5, <3>2 DEF MovedTo
  <2>4. Quiet(a)'
    BY <1>4, <2>1, <2>3 DEF Quiet, AnswerRead
  <2> QED
    BY <1>2, <1>7, <2>1, <2>3, <2>4, SharedAgain DEF AnswerRead
<1>8. CASE dir[a].st = "MI_AD" /\ MoveTo(a, "MI_A")
  <2>1. /\ pending # <<>> /\ Head(pending).addr = a /\ Acks(a) = {}
        /\ OthersAbsent(a, {}) /\ HandedOver(Directory, a) /\ RespOkDue(a)
    BY <1>2, <1>8 DEF HoldersInv, AbandonedLine
  <2>2. /\ AnswerRead(m, a)
        /\ dir'[a].st = "MI_A" /\ dir'[a].sharers = dir[a].sharers
        /\ dir'[a].count = Cardinality(dir'[a].sharers)
        /\ pending' = pending
    <3>1. /\ "MI_A" \in DirStates /\ MoveTo(a, "MI_A") /\ dir[a].st \in DirBusy
          /\ pending # <<>> /\ Head(pending).addr = a
      BY <1>5, <1>8, <2>1
    <3>2. AnswerRead(m, a) /\ MovedTo(a, "MI_A")
      BY <1>11, <3>1, AnswerMoves
    <3> QED
      BY <1>5, <3>2 DEF MovedTo
  <2>3. Acks(a)' = {} /\ RespOks(a)' = RespOks(a) /\ Datas(Directory, a)' = {}
    BY <1>3, <1>4, <2>1, <2>2 DEF AnswerRead
  <2>4. RespOkDue(a)'
    BY <2>1, <2>3 DEF RespOkDue
  <2> QED
    BY <1>2, <1>8, <2>1, <2>2, <2>3, <2>4, AbandonedStill DEF AnswerRead
<1>9. CASE dir[a].st = "MI_D" /\ MoveTo(a, "I")
  <2>1. /\ pending # <<>> /\ Head(pending).addr = a /\ Acks(a) = {}
        /\ OthersAbsent(a, {}) /\ HandedOver(Directory, a) /\ RespOks(a) = {}
    BY <1>2, <1>9 DEF HoldersInv, AbandonedLine
  <2>2. /\ AnswerRead(m, a)
        /\ dir' = [dir EXCEPT ![a] = NoEntry]
    <3>1. /\ "I" \in DirStates /\ MoveTo(a, "I") /\ dir[a].st \in DirBusy
          /\ pending # <<>> /\ Head(pending).addr = a
      BY <1>5, <1>9, <2>1
    <3>2. AnswerRead(m, a) /\ MovedTo(a, "I")
      BY <1>11, <3>1, AnswerMoves
    <3> QED
      BY <1>5, <3>2 DEF MovedTo
  <2>3. Quiet(a)'
    BY <1>4, <2>1, <2>2 DEF Quiet, AnswerRead
  <2> QED
    BY <1>2, <1>9, <2>1, <2>2, <2>3, AbandonedLeft DEF AnswerRead
<1>10. CASE /\ dir[a].st = "MI" /\ dir' = [dir EXCEPT ![a] = NoEntry]
            /\ pending' = pending
  <2>1. /\ MakingRoom(a) /\ Acks(a) = {} /\ RespOks(a) = {}
        /\ \E o \in Cores : /\ OthersAbsent(a, {o})
                            /\ Absent(o, a) /\ HandedOver(Directory, a)
    BY <1>2, <1>3, <1>10 DEF HoldersInv, RecalledFromOwner
  <2>2. \A d \in Cores : Absent(d, a)
    BY <2>1 DEF OthersAbsent
  <2>3. \A b \in Lines : b # a => dir'[b] = dir[b]
    BY <1>2, <1>10 DEF Inv, LLCInv, LLCTypeOK
  <2>4. UNCHANGED <<tag, pr, req, wb, fwd>>
    BY <1>1 DEF cacheVars
  <2>5. AnswerRead(m, a)
    <3>1. dir[a].st \in DirBusy /\ pending' = pending /\ MakingRoom(a)
      BY <1>5, <1>10, <2>1
    <3> QED
      BY <1>11, <2>3, <2>4, <3>1, AnswerTaken
  <2>6. Quiet(a)'
    BY <1>4, <2>1, <2>5 DEF Quiet, AnswerRead
  <2>7. \A d \in Cores : Absent(d, a)' /\ Bare(d, a)
    BY <2>2, <2>5, BareRoles DEF Kept, AnswerRead
  <2> QED
    BY <1>2, <1>10, <2>5, <2>6, <2>7, LineLeft DEF AnswerRead
<1> QED
  BY <1>1, <1>6, <1>7, <1>8, <1>9, <1>10

\* The new owner has the line: what is left of its transaction is its RespOk.
LEMMA FinishedKnown ==
  ASSUME Inv, Coherent, NEW a \in Lines, dir[a].st \in {"MM", "SM"}, RespOks(a) # {}
  PROVE  \E q \in Cores :
           /\ InService(a, q, "GetM") /\ dir[a].owner = q /\ dir[a].sharers = {q}
           /\ Possessing(q, a) /\ \A d \in Cores : d # q => Absent(d, a)
           /\ Datas(Directory, a) = {} /\ Acks(a) = {} /\ RespOkDue(a)
<1>1. HoldersInv(a)
  BY DEF Coherent, LineInv
<1>2. CASE dir[a].st = "MM"
  BY <1>1, <1>2 DEF HoldersInv, HandedOverLine, Finished, OthersAbsent
<1>3. CASE dir[a].st = "SM"
  BY <1>1, <1>3 DEF HoldersInv, UpgradedLine, Finished, OthersAbsent
<1> QED
  BY <1>2, <1>3

\* So it is for a load, once the RespOk is there: who shares the line has it.
LEMMA DowngradedFinished ==
  ASSUME Inv, Coherent, NEW a \in Lines, dir[a].st \in {"MS_AD", "MS_A"},
         RespOks(a) # {}
  PROVE  /\ \E q \in Cores : InService(a, q, "GetS") /\ Downgraded(a, q)
         /\ Acks(a) = {} /\ RespOkDue(a)
         /\ dir[a].sharers # {} /\ OthersAbsent(a, dir[a].sharers)
         /\ \A d \in dir[a].sharers : Keeping(d, a)
         /\ dir[a].st = "MS_AD" => HandedOver(Directory, a)
         /\ dir[a].st = "MS_A" => Datas(Directory, a) = {}
<1>1. PICK q \in Cores :
        /\ InService(a, q, "GetS")
        /\ CASE dir[a].st = "MS_AD" -> \/ Downgrading(a, q)
                                       \/ /\ Downgraded(a, q)
                                          /\ HandedOver(Directory, a)
             [] dir[a].st = "MS_A" -> Downgraded(a, q) /\ Datas(Directory, a) = {}
  BY DEF Coherent, LineInv, HoldersInv, DowngradedLine
<1>2. ~Downgrading(a, q)
  BY DEF Downgrading, Quiet
<1>3. /\ Downgraded(a, q)
      /\ dir[a].st = "MS_AD" => HandedOver(Directory, a)
      /\ dir[a].st = "MS_A" => Datas(Directory, a) = {}
  BY <1>1, <1>2
<1> QED
  BY <1>1, <1>3 DEF Downgraded

\* The requestor's RespOk reaches the LLC.
LEMMA RespOkCoherent ==
  ASSUME Inv, Coherent, NEW m \in rsp, ReceiveRespOk(m), UNCHANGED cacheVars
  PROVE  Coherent'
<1> DEFINE a == m.addr
<1>1. /\ a = m.addr /\ m.dst = Directory /\ m.type = "RespOk" /\ rsp' = rsp \ {m}
      /\ UNCHANGED <<req, wb, fwd>>
      /\ \/ dir[a].st \in {"MM", "SM"} /\ MoveTo(a, "M")
         \/ dir[a].st = "MS_A" /\ MoveTo(a, "S")
         \/ dir[a].st = "MS_AD" /\ MoveTo(a, "MS_D")
         \/ dir[a].st = "MI_AD" /\ MoveTo(a, "MI_D")
         \/ dir[a].st \in {"MI_A", "MI_RespOk"} /\ MoveTo(a, "I")
  BY AnswerRow DEF ReceiveRespOk
<1> HIDE DEF a
<1>2. /\ a = m.addr /\ m.dst = Directory /\ rsp' = rsp \ {m}
      /\ UNCHANGED <<req, wb, fwd>>
  BY <1>1
<1>3. a \in Lines /\ HoldersInv(a)
  BY <1>1 DEF Inv, InterconnectTypeOK, Response, Coherent, LineInv
<1>4. m \in RespOks(a) /\ m \notin Datas(Directory, a) /\ m \notin Acks(a)
  BY <1>1 DEF Datas, RespOks, Acks
<1>5. RespOkDue(a) => \A k \in RespOks(a) : k = m
  BY <1>4 DEF RespOkDue
<1>6. /\ \A st \in {"M", "S", "MS_D", "MI_D", "I"} : st \in DirStates
      /\ \A st \in {"MM", "SM", "MS_A", "MS_AD", "MI_AD", "MI_A", "MI_RespOk",
                    "MS_D", "MI_D"} : st \in DirBusy
  BY DEF DirStates, DirStable, DirBusy
<1>7. CASE dir[a].st \in {"MM", "SM"} /\ MoveTo(a, "M")
  <2>1. PICK q \in Cores :
          /\ InService(a, q, "GetM") /\ dir[a].owner = q /\ dir[a].sharers = {q}
          /\ Possessing(q, a) /\ \A d \in Cores : d # q => Absent(d, a)
          /\ Datas(Directory, a) = {} /\ Acks(a) = {} /\ RespOkDue(a)
    BY <1>3, <1>4, <1>7, FinishedKnown
  <2>2. AnswerRead(m, a) /\ MovedTo(a, "M")
    <3>1. /\ "M" \in DirStates /\ MoveTo(a, "M") /\ dir[a].st \in DirBusy
          /\ pending # <<>> /\ Head(pending).addr = a
      BY <1>6, <1>7, <2>1 DEF InService
    <3> QED
      BY <1>2, <3>1, AnswerMoves
  <2>3. /\ dir'[a].st = "M" /\ dir'[a].sharers = dir[a].sharers
        /\ dir'[a].owner = dir[a].owner
        /\ dir'[a].count = Cardinality(dir'[a].sharers)
    BY <2>2 DEF MovedTo
  <2>4. Quiet(a)'
    BY <1>5, <2>1, <2>2 DEF AnswerRead, Quiet
  <2> QED
    BY <1>3, <1>7, <2>1, <2>2, <2>3, <2>4, ModifiedAgain DEF AnswerRead
<1>8. CASE dir[a].st = "MS_A" /\ MoveTo(a, "S")
  <2>1. /\ \E q \in Cores : InService(a, q, "GetS") /\ Downgraded(a, q)
        /\ Acks(a) = {} /\ RespOkDue(a) /\ Datas(Directory, a) = {}
        /\ dir[a].sharers # {} /\ OthersAbsent(a, dir[a].sharers)
        /\ \A d \in dir[a].sharers : Keeping(d, a)
    BY <1>3, <1>4, <1>8, DowngradedFinished
  <2>2. AnswerRead(m, a) /\ MovedTo(a, "S")
    <3>1. /\ "S" \in DirStates /\ MoveTo(a, "S") /\ dir[a].st \in DirBusy
          /\ pending # <<>> /\ Head(pending).addr = a
      BY <1>6, <1>8, <2>1 DEF InService
    <3> QED
      BY <1>2, <3>1, AnswerMoves
  <2>3. /\ dir'[a].st = "S" /\ dir'[a].sharers = dir[a].sharers
        /\ dir'[a].count = Cardinality(dir'[a].sharers)
    BY <2>2 DEF MovedTo
  <2>4. Quiet(a)'
    BY <1>5, <2>1, <2>2 DEF AnswerRead, Quiet
  <2> QED
    BY <1>3, <1>8, <2>1, <2>2, <2>3, <2>4, SharedAgain DEF AnswerRead
<1>9. CASE dir[a].st = "MS_AD" /\ MoveTo(a, "MS_D")
  <2>1. /\ \E q \in Cores : InService(a, q, "GetS") /\ Downgraded(a, q)
        /\ Acks(a) = {} /\ RespOkDue(a) /\ HandedOver(Directory, a)
    BY <1>3, <1>4, <1>9, DowngradedFinished
  <2>2. PICK q \in Cores : InService(a, q, "GetS") /\ Downgraded(a, q)
    BY <2>1
  <2>3. AnswerRead(m, a) /\ MovedTo(a, "MS_D")
    <3>1. /\ "MS_D" \in DirStates /\ MoveTo(a, "MS_D") /\ dir[a].st \in DirBusy
          /\ pending # <<>> /\ Head(pending).addr = a
      BY <1>6, <1>9, <2>2 DEF InService
    <3> QED
      BY <1>2, <3>1, AnswerMoves
  <2>4. /\ dir'[a].st = "MS_D" /\ dir'[a].sharers = dir[a].sharers
        /\ dir'[a].count = Cardinality(dir'[a].sharers)
        /\ pending' = pending
    BY <1>6, <2>3 DEF MovedTo
  <2>5. Acks(a)' = {} /\ RespOks(a)' = {} /\ Datas(Directory, a)' = Datas(Directory, a)
    BY <1>4, <1>5, <2>1, <2>3 DEF AnswerRead
  <2>6. HandedOver(Directory, a)'
    BY <2>1, <2>5 DEF HandedOver
  <2> QED
    BY <1>3, <1>9, <2>1, <2>2, <2>3, <2>4, <2>5, <2>6, DowngradedStill DEF AnswerRead
<1>10. CASE dir[a].st = "MI_AD" /\ MoveTo(a, "MI_D")
  <2>1. /\ pending # <<>> /\ Head(pending).addr = a /\ Acks(a) = {}
        /\ OthersAbsent(a, {}) /\ HandedOver(Directory, a) /\ RespOkDue(a)
    BY <1>3, <1>10 DEF HoldersInv, AbandonedLine
  <2>2. AnswerRead(m, a) /\ MovedTo(a, "MI_D")
    <3>1. /\ "MI_D" \in DirStates /\ MoveTo(a, "MI_D") /\ dir[a].st \in DirBusy
          /\ pending # <<>> /\ Head(pending).addr = a
      BY <1>6, <1>10, <2>1
    <3> QED
      BY <1>2, <3>1, AnswerMoves
  <2>3. /\ dir'[a].st = "MI_D" /\ dir'[a].sharers = dir[a].sharers
        /\ dir'[a].count = Cardinality(dir'[a].sharers)
        /\ pending' = pending
    BY <1>6, <2>2 DEF MovedTo
  <2>4. Acks(a)' = {} /\ RespOks(a)' = {} /\ Datas(Directory, a)' = Datas(Directory, a)
    BY <1>4, <1>5, <2>1, <2>2 DEF AnswerRead
  <2>5. HandedOver(Directory, a)'
    BY <2>1, <2>4 DEF HandedOver
  <2> QED
    BY <1>3, <1>10, <2>1, <2>2, <2>3, <2>4, <2>5, AbandonedStill DEF AnswerRead
<1>11. CASE dir[a].st \in {"MI_A", "MI_RespOk"} /\ MoveTo(a, "I")
  <2>1. /\ pending # <<>> /\ Head(pending).addr = a /\ Acks(a) = {}
        /\ OthersAbsent(a, {}) /\ Datas(Directory, a) = {} /\ RespOkDue(a)
    BY <1>3, <1>11 DEF HoldersInv, AbandonedLine
  <2>2. AnswerRead(m, a) /\ MovedTo(a, "I")
    <3>1. /\ "I" \in DirStates /\ MoveTo(a, "I") /\ dir[a].st \in DirBusy
          /\ pending # <<>> /\ Head(pending).addr = a
      BY <1>6, <1>11, <2>1
    <3> QED
      BY <1>2, <3>1, AnswerMoves
  <2>3. dir' = [dir EXCEPT ![a] = NoEntry]
    BY <2>2 DEF MovedTo
  <2>4. Quiet(a)'
    BY <1>5, <2>1, <2>2 DEF AnswerRead, Quiet
  <2> QED
    BY <1>3, <1>11, <2>1, <2>2, <2>3, <2>4, AbandonedLeft DEF AnswerRead
<1> QED
  BY <1>1, <1>7, <1>8, <1>9, <1>10, <1>11

\* A sharer of the line that makes room has acknowledged.
LEMMA InvAckCoherent ==
  ASSUME Inv, Coherent, NEW m \in rsp, ReceiveInvAck(m), UNCHANGED cacheVars
  PROVE  Coherent'
<1> DEFINE a == m.addr
           c == m.src
<1>1. /\ a = m.addr /\ c = m.src /\ m.dst = Directory /\ m.type = "Ack"
      /\ rsp' = rsp \ {m} /\ UNCHANGED <<req, wb, fwd>>
      /\ dir[a].st = "SI" /\ pending' = pending
      /\ \/ dir[a].count # 1 /\ dir' = [dir EXCEPT ![a] = DropSharer(dir[a], "SI", c)]
         \/ dir[a].count = 1 /\ dir' = [dir EXCEPT ![a] = NoEntry]
  BY DEF ReceiveInvAck, EvictFromLlc, SetEntry
<1> HIDE DEF a, c
<1>2. a \in Lines
  BY <1>1 DEF Inv, InterconnectTypeOK, Response
<1>3. /\ MakingRoom(a)
      /\ \A k \in Acks(a) : k.src = k.sharer /\ k.sharer \in dir[a].sharers
      /\ \A k \in Acks(a) : k.sharer \in Cores /\ Absent(k.sharer, a)
      /\ \A k, l \in Acks(a) : k.sharer = l.sharer => k = l
  BY <1>1, <1>2, RecalledKnown DEF AcksTo
<1>4. m \in Acks(a) /\ m \notin RespOks(a) /\ m \notin Datas(Directory, a)
  BY <1>1 DEF Datas, RespOks, Acks
<1>5. /\ m.sharer = c /\ c \in dir[a].sharers /\ c \in Cores /\ Absent(c, a)
      /\ Bare(c, a)
  BY <1>1, <1>3, <1>4, BareRoles
<1>6. \A b \in Lines : b # a => dir'[b] = dir[b]
  BY <1>1, <1>2 DEF Inv, LLCInv, LLCTypeOK
<1>7. AnswerRead(m, a)
  <2>1. UNCHANGED <<tag, pr, req, wb, fwd>>
    BY <1>1 DEF cacheVars
  <2>2. dir[a].st \in DirBusy
    BY <1>1 DEF DirBusy
  <2>3. pending' = pending /\ MakingRoom(a) /\ m.dst = Directory /\ rsp' = rsp \ {m}
        /\ a = m.addr
    BY <1>1, <1>3
  <2> QED
    BY <1>6, <2>1, <2>2, <2>3, AnswerTaken
<1>8. /\ RequestsInv' /\ DirStepAt(a) /\ Fwds(a)' = Fwds(a)
      /\ \A d \in Cores : Kept(d, a)
      /\ Absent(c, a)'
      /\ RespOks(a)' = RespOks(a) /\ Datas(Directory, a)' = Datas(Directory, a)
      /\ \A k : k \in Acks(a)' <=> k \in Acks(a) /\ k # m
      /\ \A k \in Acks(a)' : k.sharer # c
  BY <1>3, <1>4, <1>5, <1>7 DEF AnswerRead, Kept
<1>9. CASE dir[a].count # 1 /\ dir' = [dir EXCEPT ![a] = DropSharer(dir[a], "SI", c)]
  <2>1. /\ dir'[a].st = "SI" /\ dir'[a].owner = dir[a].owner /\ dir'[a].sharers # {}
        /\ \A d : d \in dir'[a].sharers <=> d \in dir[a].sharers /\ d # c
        /\ dir'[a].count = Cardinality(dir'[a].sharers)
    BY <1>2, <1>5, <1>9, SharerDropped
  <2> QED
    BY <1>1, <1>2, <1>5, <1>8, <2>1, RecalledKept
<1>10. CASE dir[a].count = 1 /\ dir' = [dir EXCEPT ![a] = NoEntry]
  <2>1. \A d \in dir[a].sharers : d = c
    BY <1>2, <1>5, <1>10, LastSharer
  <2>2. Acks(a)' = {}
    BY <1>3, <1>8, <2>1
  <2> QED
    BY <1>1, <1>2, <1>5, <1>8, <1>10, <2>2, RecalledLeft
<1> QED
  BY <1>1, <1>9, <1>10

\* Every step of the LLC.
LEMMA DirectoryStepCoherent ==
  ASSUME Inv, Coherent, DirectoryStep, UNCHANGED cacheVars
  PROVE  Coherent'
<1>1. CASE \E c \in Cores : RequestStep(c)
  BY <1>1, RequestStepCoherent DEF RequestStep
<1>2. CASE WritebackStep
  BY <1>2, PutMFromOwnerCoherent, PutMFromNonOwnerCoherent, PutSCoherent
     DEF WritebackStep
<1>3. CASE DirResponseStep
  BY <1>3, DataRespCoherent, RespOkCoherent, InvAckCoherent DEF DirResponseStep
<1> QED
  BY <1>1, <1>2, <1>3 DEF DirectoryStep

-----------------------------------------------------------------------------
(* CoherenceInv is inductive.                                              *)

\* After reset every line is invalid everywhere and nothing is in flight.
LEMMA InitCoherent == Init => Coherent
<1> SUFFICES ASSUME Init PROVE Coherent
  OBVIOUS
<1>1. /\ req = {} /\ wb = {} /\ fwd = {} /\ rsp = {} /\ pending = <<>>
      /\ \A c \in Cores : pr[c] = None
      /\ \A c \in Cores, a \in Lines : tag[c][a] = "I"
      /\ \A a \in Lines : dir[a] = NoEntry
  BY DEF Init, InterconnectInit, CacheInit, LLCInit
<1>2. SharerCount
  <2>1. Cardinality({}) = 0
    BY FS_EmptySet
  <2>2. \A a \in Lines : dir[a].sharers = {} /\ dir[a].count = 0
    BY <1>1 DEF NoEntry
  <2> QED
    BY <2>1, <2>2 DEF SharerCount
<1>3. Unserved = {} /\ SetAside = {}
  BY <1>1 DEF Unserved, SetAside
<1>4. RequestsInv
  BY <1>1, <1>3 DEF RequestsInv
<1>5. \A c \in Cores, a \in Lines : Absent(c, a)
  BY <1>1, <1>3 DEF Absent, Apart, Wbs, Datas, Waiting, Pend, HitPr
<1>6. \A a \in Lines : LineInv(a)
  BY <1>1, <1>5 DEF LineInv, HoldersInv, InvalidLine, Quiet, Acks, RespOks, Datas,
                    OthersAbsent, ForwardsInv, Fwds, NoEntry
<1> QED
  BY <1>2, <1>4, <1>6 DEF Coherent

\* Every step keeps Coherent.
LEMMA NextCoherent ==
  ASSUME TimelyForwards, Inv, Coherent, [Next]_vars
  PROVE  Coherent'
<1>1. CASE Next
  BY <1>1, CacheStepCoherent, DirectoryStepCoherent DEF Next
<1>2. CASE UNCHANGED vars
  <2>1. UNCHANGED <<networks, tag, pr, llcVars>>
    BY <1>2 DEF vars, cacheVars
  <2> QED
    BY <2>1, SameCoherent
<1> QED
  BY <1>1, <1>2

\* Whatever the number of cores, lines, values and ways, every copy, request,
\* write-back, forward, acknowledgement and datum is accounted for by the state
\* of its line's directory entry.
THEOREM CoherenceInvariant ==
  ASSUME TimelyForwards
  PROVE  Spec => []CoherenceInv
<1>1. CoherenceInv <=> Inv /\ Coherent
  BY DEF CoherenceInv, Coherent
<1>2. Init => CoherenceInv
  BY <1>1, InitInv, InitCoherent
<1>3. CoherenceInv /\ [Next]_vars => CoherenceInv'
  <2> SUFFICES ASSUME CoherenceInv, [Next]_vars PROVE CoherenceInv'
    OBVIOUS
  <2>1. Inv /\ Coherent
    BY <1>1
  <2>2. Inv' /\ Coherent'
    BY <2>1, NextInv, NextCoherent
  <2> QED
    BY <2>2 DEF CoherenceInv, Coherent
<1> QED
  BY <1>2, <1>3, PTL DEF Spec

-----------------------------------------------------------------------------
(* What it implies.                                                        *)

\* While a core owns a line no other has a copy.
LEMMA SoleOwner ==
  ASSUME Inv, NEW a \in Lines, HoldersInv(a), NEW c \in Cores, Owning(c, a),
         NEW d \in Cores, d # c
  PROVE  tag[d][a] = "I"
<1>1. ~Absent(c, a) /\ ~Sharing(c, a) /\ \A type : ~Leaving(c, a, type)
      /\ \A st : ~Expecting(c, a, st) /\ ~Receiving(c, a, st)
  BY RolesExclude, HoldersExclude
<1>2. \A owed : ~Collecting(c, a, owed)
  BY HoldersExclude
<1>3. ~Keeping(c, a)
  BY <1>1 DEF Keeping
<1>4. Absent(d, a) => tag[d][a] = "I"
  BY DEF Absent
<1>5. \A st : Expecting(d, a, st) \/ Receiving(d, a, st) => tag[d][a] = "I"
  BY DEF Expecting, Receiving, Served
<1>6. CASE dir[a].st = "I"
  BY <1>1, <1>6 DEF HoldersInv, InvalidLine, OthersAbsent
<1>7. CASE dir[a].st = "S"
  BY <1>1, <1>3, <1>7 DEF HoldersInv, SharedLine, OthersAbsent
<1>8. CASE dir[a].st = "M"
  BY <1>1, <1>4, <1>8 DEF HoldersInv, ModifiedLine, OthersAbsent
<1>9. CASE dir[a].st = "SM"
  BY <1>1, <1>2, <1>4, <1>9 DEF HoldersInv, UpgradedLine, OthersAbsent, Owing, Finished
<1>10. CASE dir[a].st = "MM"
  BY <1>1, <1>4, <1>5, <1>10 DEF HoldersInv, HandedOverLine, OthersAbsent, Finished
<1>11. CASE dir[a].st \in {"MS_AD", "MS_A", "MS_D"}
  <2>1. CASE \E q \in Cores : Downgrading(a, q)
    BY <1>1, <1>4, <1>5, <2>1 DEF Downgrading, OthersAbsent
  <2>2. CASE \E q \in Cores : Downgraded(a, q)
    BY <1>1, <1>3, <2>2 DEF Downgraded, OthersAbsent
  <2>3. CASE dir[a].st = "MS_D"
    BY <1>1, <1>3, <2>3 DEF HoldersInv, DowngradedLine, OthersAbsent
  <2> QED
    BY <1>11, <2>1, <2>2, <2>3 DEF HoldersInv, DowngradedLine
<1>12. CASE dir[a].st \in {"MI_AD", "MI_A", "MI_D", "MI_RespOk"}
  BY <1>1, <1>12 DEF HoldersInv, AbandonedLine, OthersAbsent
<1>13. CASE dir[a].st = "SI"
  <2>1. \A x \in dir[a].sharers : Owing(x, a, Directory) \/ Absent(x, a)
    BY <1>13 DEF HoldersInv, RecalledLine, AcksTo
  <2> QED
    BY <1>1, <1>13, <2>1 DEF HoldersInv, RecalledLine, OthersAbsent, Owing
<1>14. CASE dir[a].st = "MI"
  BY <1>1, <1>4, <1>14 DEF HoldersInv, RecalledFromOwner, OthersAbsent
<1> QED
  BY <1>6, <1>7, <1>8, <1>9, <1>10, <1>11, <1>12, <1>13, <1>14
     DEF Inv, LLCInv, LLCTypeOK, Entry, DirStates, DirStable, DirBusy

\* A core that may write a line is the only one that may read it.
THEOREM SingleWriter ==
  ASSUME TimelyForwards
  PROVE  Spec => []SingleWriterMultipleReaders
<1>1. CoherenceInv => SingleWriterMultipleReaders
  BY HeldRole, SoleOwner DEF CoherenceInv, LineInv, SingleWriterMultipleReaders
<1> QED
  BY <1>1, CoherenceInvariant, PTL

\* A stable directory entry covers what the caches hold.
THEOREM CopiesCovered ==
  ASSUME TimelyForwards
  PROVE  Spec => []DirectoryCoversCopies
<1>1. CoherenceInv => DirectoryCoversCopies
  <2> SUFFICES ASSUME CoherenceInv, NEW c \in Cores, NEW a \in Lines, tag[c][a] # "I"
               PROVE  CASE dir[a].st = "S" -> /\ tag[c][a] = "S"
                                              /\ c \in dir[a].sharers
                        [] dir[a].st = "M" -> c = dir[a].owner
                        [] OTHER -> dir[a].st \in DirBusy
    BY DEF DirectoryCoversCopies
  <2>1. Inv /\ HoldersInv(a)
    BY DEF CoherenceInv, LineInv
  <2>2. /\ tag[c][a] \in {"S", "M"}
        /\ tag[c][a] = "M" => Owning(c, a)
    BY <2>1, HeldRole DEF Inv, CacheInv, CacheTypeOK, StableStates
  <2>3. ~Absent(c, a)
    BY DEF Absent
  <2>4. CASE dir[a].st = "S"
    <3>1. c \in dir[a].sharers /\ Keeping(c, a)
      BY <2>1, <2>3, <2>4 DEF HoldersInv, SharedLine, OthersAbsent
    <3>2. ~Owning(c, a)
      BY <3>1, HoldersExclude DEF Keeping
    <3> QED
      BY <2>2, <2>4, <3>1, <3>2
  <2>5. CASE dir[a].st = "M"
    BY <2>1, <2>3, <2>5 DEF HoldersInv, ModifiedLine, OthersAbsent
  <2>6. dir[a].st # "I"
    BY <2>1, <2>3 DEF HoldersInv, InvalidLine, OthersAbsent
  <2> QED
    BY <2>1, <2>4, <2>5, <2>6 DEF Inv, LLCInv, LLCTypeOK, Entry, DirStates, DirStable
<1> QED
  BY <1>1, CoherenceInvariant, PTL

\* sharer_count is the number of sharers.
THEOREM SharersCounted ==
  ASSUME TimelyForwards
  PROVE  Spec => []SharerCount
<1>1. CoherenceInv => SharerCount
  BY DEF CoherenceInv
<1> QED
  BY <1>1, CoherenceInvariant, PTL

\* No forward of an earlier transaction is on its way to a holder.
THEOREM ForwardsAreSettled ==
  ASSUME TimelyForwards
  PROVE  Spec => []ForwardSettled
<1>1. CoherenceInv => ForwardSettled
  BY DEF CoherenceInv, LineInv, ForwardsInv, Fwds, Recipients, ForwardSettled, DirStable
<1> QED
  BY <1>1, CoherenceInvariant, PTL

\* A core that collects acknowledgements gets no forward for the line.
THEOREM CollectorsUndisturbed ==
  ASSUME TimelyForwards
  PROVE  Spec => []NoForwardWhileCollecting
<1>1. CoherenceInv => NoForwardWhileCollecting
  <2> SUFFICES ASSUME CoherenceInv, NEW c \in Cores, pr[c] # None
               PROVE  pr[c].st \in {"IS_D", "IS_DI", "IM_AD", "SM_AD", "IM_A", "SM_A",
                                    "IM_AD_S", "IM_AD_I"}
    BY DEF NoForwardWhileCollecting
  <2>1. PICK a : a = pr[c].line
    OBVIOUS
  <2>2. Inv /\ a \in Lines /\ Pend(c, a) = pr[c]
    BY <2>1 DEF CoherenceInv, Inv, CacheInv, CacheTypeOK, PendingRequest, Pend, HitPr
  <2>3. HoldersInv(a)
    BY <2>2 DEF CoherenceInv, LineInv
  <2>4. \/ Absent(c, a) \/ Sharing(c, a) \/ Owning(c, a)
        \/ \E type : Leaving(c, a, type)
        \/ \E type, n : OwningFor(c, a, type, n)
        \/ \E owed : Collecting(c, a, owed)
        \/ \E st \in {"IM_AD", "IS_D"} : Expecting(c, a, st) \/ Receiving(c, a, st)
    BY <2>2, <2>3, SomeRole
  <2> QED
    BY <2>2, <2>4 DEF Absent, Sharing, Owning, Leaving, OwningFor, Collecting,
       Expecting, Receiving, Served, Asking, Apart, PendingIn
<1> QED
  BY <1>1, CoherenceInvariant, PTL

-----------------------------------------------------------------------------
(* Acknowledgements.                                                       *)

\* An invalidation that finds a copy of an upgraded line is the transaction's,
\* and is for a sharer other than the new owner.
LEMMA PendingInv ==
  ASSUME Inv, NEW a \in Lines, LineInv(a), dir[a].st = "SM", NEW q \in Cores,
         dir[a].owner = q, dir[a].sharers = {q}, NEW s \in Cores,
         ForwardMessage("Inv", a, s, q) \in fwd
  PROVE  /\ s # q
         /\ State(s, a) # "I" => Sharing(s, a)
<1>1. PICK m \in Fwds(a) : m = ForwardMessage("Inv", a, s, q)
  BY DEF Fwds, ForwardMessage
<1>2. m.type = "Inv" /\ m.dst = s
  BY <1>1 DEF ForwardMessage
<1>3. Recipients(a) = dir[a].sharers
  BY DEF Recipients
<1>4. s # q
  BY <1>2, <1>3 DEF LineInv, ForwardsInv
<1>5. State(s, a) # "I" => ~Gone(m.dst, a)
  BY <1>2, LineFacts DEF Gone
<1>6. State(s, a) # "I" => Sharing(s, a)
  BY <1>2, <1>5, LiveForward DEF Live
<1> QED
  BY <1>4, <1>6

\* What a core has to be acknowledged by, in terms of the roles of the cores.
LEMMA AcknowledgingIs ==
  ASSUME Inv, NEW a \in Lines, LineInv(a), dir[a].st = "SM", NEW q \in Cores,
         dir[a].owner = q, dir[a].sharers = {q}, AcksTo(q, a), Wbs(q, a) = {},
         \A c \in Cores \ {q} : Absent(c, a) \/ Owing(c, a, q),
         \A m \in Acks(a) : m.sharer # q
  PROVE  Acknowledging(q, a) = Debtors(q, a)
<1>1. ASSUME NEW s \in Acknowledging(q, a) PROVE s \in Debtors(q, a)
  <2>1. s \in Cores
    BY DEF Acknowledging
  <2>2. CASE \E m \in rsp : m.type = "Ack" /\ m.dst = q /\ m.addr = a /\ m.sharer = s
    BY <2>1, <2>2 DEF Acks, Debtors
  <2>3. CASE \E w \in wb : w.type = "PutS" /\ w.addr = a /\ w.src = s
    <3>1. Wbs(s, a) # {}
      BY <2>3 DEF Wbs
    <3>2. s # q /\ ~Absent(s, a)
      BY <3>1 DEF Absent
    <3> QED
      BY <2>1, <3>2 DEF Debtors
  <2>4. CASE /\ ForwardMessage("Inv", a, s, q) \in fwd
             /\ State(s, a) # "I"
    <3>1. s # q /\ Sharing(s, a)
      BY <2>1, <2>4, PendingInv
    <3> QED
      BY <2>1, <3>1, RolesExclude DEF Debtors
  <2>5. ForwardMessage("Inv", a, s, q)
          = [type |-> "Inv", addr |-> a, dst |-> s, respondTo |-> q]
    BY DEF ForwardMessage
  <2> QED
    BY <2>2, <2>3, <2>4, <2>5 DEF Acknowledging
<1>2. ASSUME NEW s \in Debtors(q, a) PROVE s \in Acknowledging(q, a)
  <2>1. s \in Cores \ {q}
    BY DEF Debtors
  <2>2. CASE \E m \in Acks(a) : m.sharer = s
    BY <2>1, <2>2 DEF AcksTo, Acks, Acknowledging
  <2>3. CASE Leaving(s, a, "PutS")
    BY <2>1, <2>3 DEF Leaving, Wbs, Acknowledging
  <2>4. CASE Sharing(s, a) /\ ForwardMessage("Inv", a, s, q) \in Fwds(a)
    <3>1. ~Gone(s, a)
      BY <2>4, RolesExclude
    <3>2. State(s, a) # "I"
      BY <2>1, <3>1, LineFacts DEF Gone, PendingRequest, TransientStates,
         AwaitingData, AwaitingAcks
    <3>3. [type |-> "Inv", addr |-> a, dst |-> s, respondTo |-> q] \in fwd
      BY <2>4 DEF Fwds, ForwardMessage
    <3> QED
      BY <2>1, <3>2, <3>3 DEF Acknowledging
  <2> QED
    BY <2>1, <2>2, <2>3, <2>4 DEF Debtors, Owing
<1> QED
  BY <1>1, <1>2

\* The acknowledgements a core has counted and those still due are as many as
\* the directory promised it.
LEMMA AcksAccounted ==
  ASSUME Inv, NEW a \in Lines, LineInv(a), dir[a].st = "SM",
         NEW q \in Cores, dir[a].owner = q, Pend(q, a) # None
  PROVE  IF Pend(q, a).st \in AwaitingAcks
           THEN Pend(q, a).acks + Cardinality(Acknowledging(q, a)) = Pend(q, a).total
           ELSE \A m \in Datas(q, a) :
                  Pend(q, a).acks + Cardinality(Acknowledging(q, a)) = m.acks
<1>1. HoldersInv(a)
  BY DEF LineInv
<1>2. CASE Leaving(q, a, "PutM")
  <2>1. Asking(q, a, {"IS_D", "IM_AD"})
    BY <1>2 DEF Leaving, Apart
  <2> QED
    BY <2>1 DEF Asking, PendingIn, AwaitingAcks
<1>3. CASE Owning(q, a)
  <2>1. /\ Wbs(q, a) = {}
        /\ Pend(q, a).st = "IM_AD" /\ Pend(q, a).acks = 0
        /\ Granted(q, a)
    BY <1>3 DEF Owning, Served, PendingIn, Apart
  <2>2. Finished(a, q) /\ dir[a].sharers = {q}
    <3>1. \A owed : ~Collecting(q, a, owed)
      BY <1>3, HoldersExclude
    <3> QED
      BY <1>1, <3>1 DEF HoldersInv, UpgradedLine
  <2>3. /\ Acks(a) = {} /\ AcksTo(q, a)
        /\ \A c \in Cores \ {q} : Absent(c, a)
    BY <2>2 DEF Finished, AcksTo, OthersAbsent
  <2>4. Acknowledging(q, a) = Debtors(q, a)
    BY <2>1, <2>2, <2>3, AcknowledgingIs
  <2>5. Debtors(q, a) = {}
    BY <2>3 DEF Debtors
  <2>6. Cardinality(Acknowledging(q, a)) = 0
    BY <2>4, <2>5, FS_EmptySet
  <2> QED
    BY <2>1, <2>6 DEF Granted, AwaitingAcks
<1>4. CASE ~Owning(q, a) /\ ~Leaving(q, a, "PutM")
  <2>1. /\ dir[a].sharers = {q}
        /\ Collecting(q, a, Cardinality(Debtors(q, a)))
        /\ AcksTo(q, a)
        /\ \A c \in Cores \ {q} : Absent(c, a) \/ Owing(c, a, q)
        /\ \A m \in Acks(a) : m.sharer \in Debtors(q, a)
    BY <1>1, <1>4, CollectingLine
  <2>2. Wbs(q, a) = {} /\ \A m \in Acks(a) : m.sharer # q
    BY <2>1 DEF Collecting, Debtors
  <2>3. Acknowledging(q, a) = Debtors(q, a)
    BY <2>1, <2>2, AcknowledgingIs
  <2>4. Collecting(q, a, Cardinality(Acknowledging(q, a)))
    BY <2>1, <2>3
  <2> QED
    BY <2>4 DEF Collecting, AwaitingAcks
<1> QED
  BY <1>2, <1>3, <1>4
\* Every acknowledgement the directory promised is counted or still owed.
THEOREM AcksConserved ==
  ASSUME TimelyForwards
  PROVE  Spec => []AckAccounting
<1>1. CoherenceInv => AckAccounting
  <2> SUFFICES ASSUME CoherenceInv, NEW a \in Lines, dir[a].st = "SM",
                      HitPr(dir[a].owner, a)
               PROVE  IF pr[dir[a].owner].st \in AwaitingAcks
                        THEN pr[dir[a].owner].acks
                               + Cardinality(Acknowledging(dir[a].owner, a))
                             = pr[dir[a].owner].total
                        ELSE \A m \in rsp :
                          m.type = "Data" /\ m.dst = dir[a].owner /\ m.addr = a =>
                            pr[dir[a].owner].acks
                              + Cardinality(Acknowledging(dir[a].owner, a)) = m.acks
    BY DEF AckAccounting
  <2>1. PICK q \in Cores : dir[a].owner = q
    BY DEF CoherenceInv, LineInv, HoldersInv, UpgradedLine
  <2>2. Inv /\ LineInv(a)
    BY DEF CoherenceInv
  <2>3. Pend(q, a) = pr[q] /\ Pend(q, a) # None
    BY <2>1 DEF Pend, HitPr
  <2>4. IF pr[q].st \in AwaitingAcks
          THEN pr[q].acks + Cardinality(Acknowledging(q, a)) = pr[q].total
          ELSE \A m \in Datas(q, a) :
                 pr[q].acks + Cardinality(Acknowledging(q, a)) = m.acks
    BY <2>1, <2>2, <2>3, AcksAccounted
  <2> QED
    BY <2>1, <2>4 DEF Datas
<1> QED
  BY <1>1, CoherenceInvariant, PTL

-----------------------------------------------------------------------------
(* Unspecified events.                                                     *)

\* The completion of a request sends a RespOk to the LLC only.
LEMMA CompletionSends ==
  ASSUME RespOkToDirectory, NEW c, NEW m \in rsp,
         ReceiveData(c, m) \/ ReceiveAck(c, m)
  PROVE  RespOkToDirectory'
<1>1. CASE rsp' = rsp \ {m}
  BY <1>1 DEF RespOkToDirectory
<1>2. ASSUME NEW cl, NEW ok, Complete(c, cl, m, ok)
      PROVE  RespOkToDirectory'
  <2>1. PICK s, a, d : rsp' = (rsp \ {m}) \cup CompletionMessages(c, s, a, d, ok)
    BY <1>2 DEF Complete
  <2>2. \A k \in CompletionMessages(c, s, a, d, ok) :
          k.type = "RespOk" => k.dst = Directory
    BY DEF CompletionMessages, RespOkMessage, DataMessage
  <2> QED
    BY <2>1, <2>2 DEF RespOkToDirectory
<1>3. ReceiveData(c, m) => rsp' = rsp \ {m} \/ \E cl, b : Complete(c, cl, m, b)
  BY DEF ReceiveData, DataAck
<1>4. ReceiveAck(c, m) => rsp' = rsp \ {m} \/ \E cl, b : Complete(c, cl, m, b)
  BY DEF ReceiveAck
<1> QED
  BY <1>1, <1>2, <1>3, <1>4

\* A cache sends a RespOk to the LLC only.
LEMMA CacheSends ==
  ASSUME RespOkToDirectory, NEW c \in Cores, CacheStep(c)
  PROVE  RespOkToDirectory'
<1>1. CASE CoreStep(c)
  BY <1>1 DEF RespOkToDirectory, CoreStep, LoadMiss, StoreMiss, Miss, LoadHit, StoreHit,
     StoreShared, networks
<1>2. CASE ForwardStep(c)
  <2>1. PICK m \in fwd : ReceiveFwdGet(c, m) \/ ReceiveInv(c, m)
    BY <1>2 DEF ForwardStep
  <2>2. \A k \in rsp' : k \in rsp \/ k.type \in {"Data", "Ack"}
    <3>1. CASE ReceiveFwdGet(c, m)
      BY <3>1 DEF ReceiveFwdGet, DataMessage
    <3>2. CASE ReceiveInv(c, m)
      BY <3>2 DEF ReceiveInv, AckMessage
    <3> QED
      BY <2>1, <3>1, <3>2
  <2> QED
    BY <2>2 DEF RespOkToDirectory
<1>3. CASE ResponseStep(c)
  BY <1>3, CompletionSends DEF ResponseStep
<1> QED
  BY <1>1, <1>2, <1>3 DEF CacheStep

\* The LLC sends no RespOk.
LEMMA LlcSends ==
  ASSUME RespOkToDirectory, DirectoryStep
  PROVE  RespOkToDirectory'
<1>1. \/ \A k \in rsp' : k \in rsp
      \/ \E r, acks, d : SendsData(r, acks, d)
      \/ \E a, n, s : rsp' = rsp \cup {AckMessage(a, Directory, n, s)}
  <2>1. ASSUME NEW r, TakeRequest(r)
        PROVE  rsp' = rsp \/ \E acks, d : SendsData(r, acks, d)
    BY <2>1 DEF TakeRequest, GetSInvalid, GetSValid, GetSShared, GetSModified,
       GetMUncached, GetMShared, GetMModified, ReplaceValid, ReplaceShared,
       ReplaceModified
  <2>2. ASSUME NEW w \in wb, PutMFromOwner(w) \/ PutMFromNonOwner(w) \/ PutS(w)
        PROVE  rsp' = rsp \/ \E a, n, s : rsp' = rsp \cup {AckMessage(a, Directory, n, s)}
    BY <2>2 DEF PutMFromOwner, PutMFromNonOwner, PutS
  <2>3. ASSUME NEW m \in rsp,
               ReceiveDataResp(m) \/ ReceiveRespOk(m) \/ ReceiveInvAck(m)
        PROVE  rsp' = rsp \ {m}
    BY <2>3 DEF ReceiveDataResp, ReceiveRespOk, ReceiveInvAck
  <2> QED
    BY <2>1, <2>2, <2>3 DEF DirectoryStep, RequestStep, WritebackStep, DirResponseStep
<1> QED
  BY <1>1 DEF RespOkToDirectory, SendsData, DataMessage, AckMessage

\* The entry e of line a starts to wait for the former owner's data for a reason:
\* a load has been taken of a modified line.
Caused(a, e) ==
  e.st \in {"MS_AD", "MI_AD"} => dir[a].st = "MS_AD" \/ \E r : GetSModified(r)

\* How the directory changes, as far as it waits for data.
LEMMA EntryChanges ==
  ASSUME Inv, DirectoryStep
  PROVE  dir' = dir \/ \E a \in Lines : \E e : SetEntry(a, e) /\ Caused(a, e)
<1>1. \A a, e : e.st \notin {"MS_AD", "MI_AD"} => Caused(a, e)
  BY DEF Caused
<1>2. ASSUME NEW r, TakeRequest(r)
      PROVE  dir' = dir \/ \E a \in Lines : \E e : SetEntry(a, e) /\ Caused(a, e)
  <2>1. r.addr \in Lines
    BY <1>2, RequestRead DEF TakeRequest, GetSInvalid, GetSValid, GetSShared, GetSModified,
       GetMUncached, GetMShared, GetMModified, ReplaceValid, ReplaceShared,
       ReplaceModified, Replaces, Inv
  <2>2. /\ \A e, c : AddSharer(e, "S", c).st = "S"
        /\ \A e, c : ToShared(e, "MS_AD", c).st = "MS_AD"
        /\ \A st, c : MarkOwner(st, c).st = st
    BY DEF AddSharer, ToShared, MarkOwner
  <2>3. CASE GetSInvalid(r) \/ GetSValid(r) \/ GetSShared(r)
    BY <1>1, <2>1, <2>2, <2>3 DEF GetSInvalid, GetSValid, GetSShared
  <2>4. CASE GetSModified(r)
    <3>1. SetEntry(r.addr, ToShared(dir[r.addr], "MS_AD", r.src))
      BY <2>4 DEF GetSModified, StartTransaction
    <3>2. Caused(r.addr, ToShared(dir[r.addr], "MS_AD", r.src))
      BY <2>2, <2>4 DEF Caused
    <3> QED
      BY <2>1, <3>1, <3>2
  <2>5. CASE GetMUncached(r) \/ GetMShared(r) \/ GetMModified(r)
    BY <1>1, <2>1, <2>2, <2>5 DEF GetMUncached, GetMShared, GetMModified, StartTransaction
  <2>6. ASSUME NEW v \in Lines,
               ReplaceValid(r, v) \/ ReplaceShared(r, v) \/ ReplaceModified(r, v)
        PROVE dir' = dir \/ \E a \in Lines : \E e : SetEntry(a, e) /\ Caused(a, e)
    <3>1. \A st : [dir[v] EXCEPT !.st = st].st = st
      BY DEF Inv, LLCInv, LLCTypeOK, Entry
    <3>2. \/ dir' = dir
          \/ SetEntry(v, [dir[v] EXCEPT !.st = "SI"])
          \/ SetEntry(v, [dir[v] EXCEPT !.st = "MI"])
      BY <2>6 DEF ReplaceValid, ReplaceShared, ReplaceModified, StartTransaction
    <3>3. /\ [dir[v] EXCEPT !.st = "SI"].st = "SI"
          /\ [dir[v] EXCEPT !.st = "MI"].st = "MI"
      BY <3>1
    <3> QED
      BY <1>1, <3>2, <3>3
  <2> QED
    BY <1>2, <2>3, <2>5, <2>6, <2>4 DEF TakeRequest
<1>3. ASSUME NEW w \in wb, PutMFromOwner(w) \/ PutMFromNonOwner(w) \/ PutS(w)
      PROVE  dir' = dir \/ \E a \in Lines : \E e : SetEntry(a, e) /\ Caused(a, e)
  <2>1. w.addr \in Lines
    BY DEF Inv, InterconnectTypeOK, Writeback
  <2>2. \A st : [dir[w.addr] EXCEPT !.st = st].st = st
    BY <2>1 DEF Inv, LLCInv, LLCTypeOK, Entry
  <2>3. NoEntry.st = "I" /\ \A e, st, c : DropSharer(e, st, c).st = st
    BY DEF NoEntry, DropSharer
  <2>4. CASE PutMFromOwner(w) \/ PutMFromNonOwner(w)
    <3>1. \/ SetEntry(w.addr, NoEntry)
          \/ SetEntry(w.addr, [dir[w.addr] EXCEPT !.st = "MI_RespOk"])
      BY <2>4 DEF PutMFromOwner, PutMFromNonOwner, EvictFromLlc
    <3>2. [dir[w.addr] EXCEPT !.st = "MI_RespOk"].st = "MI_RespOk"
      BY <2>2
    <3> QED
      BY <1>1, <2>1, <2>3, <3>1, <3>2
  <2>5. CASE PutS(w)
    <3> DEFINE a == w.addr
               e == dir[a]
    <3>1. e.st \in PutSStates
      BY <2>5 DEF PutS
    <3>2. \/ dir' = dir
          \/ SetEntry(a, NoEntry)
          \/ SetEntry(a, DropSharer(e, e.st, w.src))
          \/ /\ e.st \in {"MS_AD", "MS_A"}
             /\ SetEntry(a, DropSharer(e, NextOnLastPutS(e.st), w.src))
      BY <2>5 DEF PutS, EvictFromLlc, llcVars
    <3>3. Caused(a, DropSharer(e, e.st, w.src))
      BY <2>3, <3>1 DEF PutSStates, Caused
    <3>4. e.st \in {"MS_AD", "MS_A"} =>
            Caused(a, DropSharer(e, NextOnLastPutS(e.st), w.src))
      BY <2>3 DEF NextOnLastPutS, Caused
    <3> HIDE DEF a, e
    <3> QED
      BY <1>1, <2>1, <2>3, <3>2, <3>3, <3>4 DEF a
  <2> QED
    BY <1>3, <2>4, <2>5
<1>4. ASSUME NEW m \in rsp, ReceiveDataResp(m) \/ ReceiveRespOk(m) \/ ReceiveInvAck(m)
      PROVE  \E a \in Lines : \E e : SetEntry(a, e) /\ Caused(a, e)
  <2>1. m.addr \in Lines
    BY DEF Inv, InterconnectTypeOK, Response
  <2>2. \A st : [dir[m.addr] EXCEPT !.st = st].st = st
    BY <2>1 DEF Inv, LLCInv, LLCTypeOK, Entry
  <2>3. NoEntry.st = "I" /\ \A e, st, c : DropSharer(e, st, c).st = st
    BY DEF NoEntry, DropSharer
  <2>4. \A st : MoveTo(m.addr, st) => \E e : SetEntry(m.addr, e) /\ e.st \in {st, "I"}
    <3> SUFFICES ASSUME NEW st, MoveTo(m.addr, st)
                 PROVE  \E e : SetEntry(m.addr, e) /\ e.st \in {st, "I"}
      OBVIOUS
    <3>1. \/ SetEntry(m.addr, NoEntry)
          \/ SetEntry(m.addr, [dir[m.addr] EXCEPT !.st = st])
      BY DEF MoveTo, Finish
    <3>2. [dir[m.addr] EXCEPT !.st = st].st = st
      BY <2>2
    <3> QED
      BY <2>3, <3>1, <3>2
  <2>5. CASE ReceiveDataResp(m)
    <3>1. \/ \E st \in {"MS_A", "S", "MI_A", "I"} : MoveTo(m.addr, st)
          \/ SetEntry(m.addr, NoEntry)
      BY <2>5, AnswerRow DEF ReceiveDataResp, EvictFromLlc
    <3> QED
      BY <1>1, <2>1, <2>3, <2>4, <3>1
  <2>6. CASE ReceiveRespOk(m)
    <3>1. \E st : /\ MoveTo(m.addr, st)
                  /\ st \in {"M", "S", "I", "MS_D", "MI_D"}
      BY <2>6, AnswerRow DEF ReceiveRespOk
    <3> QED
      BY <1>1, <2>1, <2>4, <3>1
  <2>7. CASE ReceiveInvAck(m)
    <3>1. \A e : e.st = "SI" => Caused(m.addr, e)
      BY <1>1
    <3> QED
      BY <1>1, <2>1, <2>3, <2>7, <3>1 DEF ReceiveInvAck, EvictFromLlc
  <2> QED
    BY <1>4, <2>5, <2>6, <2>7
<1> QED
  BY <1>2, <1>3, <1>4 DEF DirectoryStep, RequestStep, WritebackStep, DirResponseStep

\* The owner does not ask for a line to load it.
LEMMA LoadOfOwned ==
  ASSUME Inv, Coherent, NEW r, GetSModified(r)
  PROVE  \E c, d \in Cores : c # d
<1>1. PICK a, c, o : a = r.addr /\ c = r.src /\ o = dir[a].owner
  OBVIOUS
<1>2. Takes(r) /\ a = r.addr /\ dir[a].st = "M" /\ c = r.src /\ o = dir[a].owner
  BY <1>1 DEF GetSModified
<1>3. c \in Cores /\ o \in Cores /\ o # c
  BY <1>2, OwnedLineAsked
<1> QED
  BY <1>3

\* While there is one core, no line is in MS_AD or MI_AD.
LEMMA NextTwoCores ==
  ASSUME Inv, Coherent, TwoCores, [Next]_vars
  PROVE  TwoCores'
<1> SUFFICES ASSUME \A c, d \in Cores : c = d
             PROVE  \A a \in Lines : dir'[a].st \notin {"MS_AD", "MI_AD"}
  BY DEF TwoCores
<1>1. \A a \in Lines : dir[a].st \notin {"MS_AD", "MI_AD"}
  BY DEF TwoCores
<1>2. CASE dir' = dir
  BY <1>1, <1>2
<1>3. ASSUME NEW a \in Lines, NEW e, SetEntry(a, e), Caused(a, e)
      PROVE  \A b \in Lines : dir'[b].st \notin {"MS_AD", "MI_AD"}
  <2>1. \A r : ~GetSModified(r)
    BY LoadOfOwned
  <2>2. e.st \notin {"MS_AD", "MI_AD"}
    BY <1>1, <1>3, <2>1 DEF Caused
  <2> QED
    BY <1>1, <1>3, <2>2 DEF SetEntry, Inv, LLCInv, LLCTypeOK
<1> QED
  BY <1>2, <1>3, EntryChanges DEF Next, vars, llcVars

\* Every step keeps RespOkToDirectory.
LEMMA NextRespOks ==
  ASSUME RespOkToDirectory, [Next]_vars
  PROVE  RespOkToDirectory'
<1>1. CASE UNCHANGED vars
  BY <1>1 DEF vars, networks, RespOkToDirectory
<1> QED
  BY <1>1, CacheSends, LlcSends DEF Next

-----------------------------------------------------------------------------
(* No message finds its receiver unprepared.                               *)

\* A forward finds a core that has, or awaits, what it asks for, or is done.
LEMMA ForwardMet ==
  ASSUME CoherenceInv, NEW m \in fwd
  PROVE  ForwardSpecified(m)
<1>1. PICK a \in Lines : a = m.addr
  BY DEF CoherenceInv, Inv, InterconnectTypeOK, Forward
<1>2. Inv /\ LineInv(a) /\ m \in Fwds(a)
  BY <1>1 DEF CoherenceInv, Fwds
<1>3. m.dst \in Cores /\ m.type \in {"GetS", "GetM", "Inv"}
  BY <1>2 DEF Inv, InterconnectTypeOK, Forward
<1>4. /\ DOMAIN NextOnFwdGetS = {"I", "M", "IM_AD", "IM_A", "SM_AD", "SM_A"}
      /\ DOMAIN NextOnFwdGetM = {"I", "M", "IM_AD", "IM_A", "SM_AD", "SM_A"}
      /\ DOMAIN NextOnInv = {"I", "S", "IS_D", "SM_AD", "SM_AD_S", "SM_A_S"}
  BY DEF NextOnFwdGetS, NextOnFwdGetM, NextOnInv
<1>5. CASE Gone(m.dst, a)
  <2>1. State(m.dst, a) = "I"
    BY <1>2, <1>3, <1>5, LineFacts DEF Gone
  <2> QED
    BY <1>1, <1>3, <1>4, <2>1 DEF ForwardSpecified
<1>6. CASE ~Gone(m.dst, a)
  <2>1. Live(m, a)
    BY <1>2, <1>6, LiveForward
  <2>2. CASE m.type = "Inv"
    <3>1. Sharing(m.dst, a)
      BY <2>1, <2>2 DEF Live
    <3>2. State(m.dst, a) \in {"S", "SM_AD", "IS_D"}
      BY <1>2, <1>3, <3>1, LineFacts DEF Sharing, Asking, Served, PendingIn
    <3> QED
      BY <1>1, <1>4, <2>2, <3>2 DEF ForwardSpecified
  <2>3. CASE m.type \in {"GetS", "GetM"}
    <3>1. Owning(m.dst, a)
      BY <2>1, <2>3 DEF Live
    <3>2. State(m.dst, a) \in {"M", "IM_AD"}
      BY <1>2, <1>3, <3>1, LineFacts DEF Owning, Served, PendingIn
    <3> QED
      BY <1>1, <1>4, <2>3, <3>2 DEF ForwardSpecified
  <2> QED
    BY <1>3, <2>2, <2>3
<1> QED
  BY <1>5, <1>6

\* Data and acknowledgements find a core that waits for them.
LEMMA ResponseMet ==
  ASSUME CoherenceInv, NEW m \in rsp, m.type # "RespOk", m.dst # Directory
  PROVE  ResponseSpecified(m)
<1>1. PICK a \in Lines : a = m.addr
  BY DEF CoherenceInv, Inv, InterconnectTypeOK, Response
<1>2. PICK c \in Cores : c = m.dst
  BY DEF CoherenceInv, Inv, InterconnectTypeOK, Response, Nodes
<1>3. Inv /\ HoldersInv(a) /\ m.type \in {"Data", "Ack"}
  BY DEF CoherenceInv, LineInv, Inv, InterconnectTypeOK, Response
<1>4. CASE m.type = "Ack"
  <2>1. m \in Acks(a)
    BY <1>1, <1>4 DEF Acks
  <2>2. /\ dir[a].st = "SM" /\ dir[a].owner = c
        /\ ~Owning(c, a) /\ ~Leaving(c, a, "PutM")
    BY <1>2, <1>3, <2>1, AckRole
  <2>3. Collecting(c, a, Cardinality(Debtors(c, a)))
    BY <1>3, <2>2, CollectingLine
  <2>4. Pend(c, a) # None /\ Pend(c, a) = pr[c] /\ HitPr(c, a)
        /\ pr[c] \in PendingRequest
    <3>1. Pend(c, a) # None
      BY <2>3 DEF Collecting
    <3> QED
      BY <1>3, <3>1, LineFacts DEF HitPr
  <2>5. /\ pr[c].st \in AwaitingData \cup AwaitingAcks
        /\ pr[c].st \in {"IM_AD", "SM_AD"} => pr[c].total = 0
        /\ pr[c].st \in {"IM_AD", "SM_AD", "IM_A", "SM_A"}
    BY <2>3, <2>4 DEF Collecting, AwaitingData, AwaitingAcks
  <2>6. pr[c].acks \in Nat
    BY <2>4 DEF PendingRequest
  <2>7. pr[c].acks = pr[c].total - 1 => pr[c].st \in {"IM_A", "SM_A"}
    BY <2>5, <2>6
  <2>8. pr[c].acks = pr[c].total - 1 => pr[c].st \in AwaitingAcks
    BY <2>7 DEF AwaitingAcks
  <2> QED
    BY <1>1, <1>2, <1>4, <2>4, <2>5, <2>8 DEF ResponseSpecified
<1>5. CASE m.type = "Data"
  <2>1. m \in Datas(c, a)
    BY <1>1, <1>2, <1>5 DEF Datas
  <2>2. Pend(c, a) # None
    BY <1>3, <2>1, SomeRole DEF Absent, Sharing, Owning, Leaving, OwningFor, Collecting,
       Expecting, Receiving, Served, PendingIn, Apart, Asking
  <2>3. Pend(c, a) = pr[c] /\ HitPr(c, a)
    BY <1>3, <2>2, LineFacts DEF HitPr
  <2>4. CASE Granted(c, a) /\ m.src = Directory /\ m.acks = 0
    <3>1. pr[c].st \in {"IS_D", "IS_DI", "IM_AD", "IM_AD_S", "IM_AD_I"}
          \/ Collecting(c, a, Cardinality(Debtors(c, a))) \/ Receiving(c, a, "IM_AD")
          \/ Receiving(c, a, "IS_D")
      BY <1>3, <2>1, <2>2, <2>3, DataRole DEF PendingIn, OwningFor, Served
    <3>2. Collecting(c, a, Cardinality(Debtors(c, a))) =>
            pr[c].st \in {"IM_AD", "SM_AD"}
      BY <2>1, <2>3 DEF Collecting
    <3>3. Receiving(c, a, "IM_AD") \/ Receiving(c, a, "IS_D") =>
            pr[c].st \in {"IS_D", "IM_AD"}
      BY <2>3 DEF Receiving, Served, PendingIn
    <3>4. pr[c].st \in CompletesOnData
      BY <3>1, <3>2, <3>3 DEF CompletesOnData, AwaitingData
    <3> QED
      BY <1>1, <1>2, <1>5, <2>3, <2>4, <3>4 DEF ResponseSpecified
  <2>5. CASE Collecting(c, a, Cardinality(Debtors(c, a)))
    <3>1. pr[c].st \in {"IM_AD", "SM_AD"} /\ m.src = Directory
      BY <2>1, <2>3, <2>5 DEF Collecting
    <3>2. pr[c].st \in AwaitingData /\ pr[c].st \in CompletesOnData
      BY <3>1 DEF CompletesOnData, AwaitingData
    <3> QED
      BY <1>1, <1>2, <1>5, <2>3, <3>1, <3>2 DEF ResponseSpecified
  <2>6. CASE Receiving(c, a, "IM_AD") \/ Receiving(c, a, "IS_D")
    <3>1. pr[c].st \in {"IS_D", "IM_AD"} /\ m.src # Directory
      BY <2>1, <2>3, <2>6 DEF Receiving, HandedOver, Served, PendingIn
    <3>2. pr[c].st \in CompletesOnOwnerData
      BY <3>1 DEF CompletesOnOwnerData
    <3> QED
      BY <1>1, <1>2, <1>5, <2>3, <3>1, <3>2 DEF ResponseSpecified
  <2> QED
    BY <1>3, <2>1, <2>2, <2>4, <2>5, <2>6, DataRole
<1> QED
  BY <1>3, <1>4, <1>5

\* An owner that leaves is the directory's owner, or the former one of a
\* transaction that has not reached it.
LEMMA OwnerLeaving ==
  ASSUME CoherenceInv, NEW w \in wb, w.type = "PutM", NEW a, a = w.addr,
         NEW c, c = w.src
  PROVE  \/ dir[a].st \in {"M", "SM", "MI"} /\ dir[a].owner = c
         \/ dir[a].st = "MM"
         \/ dir[a].st = "MS_AD" /\ dir[a].owner = None
<1>1. Inv /\ Coherent
  BY DEF CoherenceInv, Coherent
<1>2. /\ a \in Lines /\ c \in Cores /\ HoldersInv(a)
      /\ ~Absent(c, a) /\ Bare(c, a) /\ ~Leaving(c, a, "PutS")
      /\ \A st : ~Expecting(c, a, st) /\ ~Receiving(c, a, st)
      /\ \A owed : ~Collecting(c, a, owed)
  BY <1>1, WriterRole
<1>3. ~Keeping(c, a) /\ \A n : ~Owing(c, a, n)
  BY <1>2 DEF Keeping, Owing, Bare
<1>4. CASE dir[a].st = "I"
  BY <1>2, <1>4 DEF HoldersInv, InvalidLine, OthersAbsent
<1>5. CASE dir[a].st = "S"
  BY <1>2, <1>3, <1>5 DEF HoldersInv, SharedLine, OthersAbsent
<1>6. CASE dir[a].st = "M"
  BY <1>2, <1>6 DEF HoldersInv, ModifiedLine, OthersAbsent
<1>7. CASE dir[a].st = "SM"
  BY <1>2, <1>3, <1>7 DEF HoldersInv, UpgradedLine, Finished, OthersAbsent
<1>8. CASE dir[a].st \in {"MS_AD", "MS_A", "MS_D"}
  <2>1. \A q \in Cores : ~Downgraded(a, q)
    BY <1>2, <1>3 DEF Downgraded, OthersAbsent
  <2>2. dir[a].st # "MS_D"
    BY <1>2, <1>3 DEF HoldersInv, DowngradedLine, OthersAbsent
  <2> QED
    BY <1>2, <1>8, <2>1, <2>2 DEF HoldersInv, DowngradedLine, Downgrading
<1>9. CASE dir[a].st \in {"MI_AD", "MI_A", "MI_D", "MI_RespOk"}
  BY <1>2, <1>9 DEF HoldersInv, AbandonedLine, OthersAbsent
<1>10. CASE dir[a].st = "SI"
  <2>1. \A x \in dir[a].sharers : Owing(x, a, Directory) \/ Absent(x, a)
    BY <1>2, <1>10 DEF HoldersInv, RecalledLine, AcksTo
  <2> QED
    BY <1>2, <1>3, <1>10, <2>1 DEF HoldersInv, RecalledLine, OthersAbsent
<1>11. CASE dir[a].st = "MI"
  BY <1>2, <1>11 DEF HoldersInv, RecalledFromOwner, OthersAbsent
<1> QED
  BY <1>1, <1>2, <1>4, <1>5, <1>6, <1>7, <1>8, <1>9, <1>10, <1>11
     DEF Inv, LLCInv, LLCTypeOK, Entry, DirStates, DirStable, DirBusy

\* A sharer that leaves is one of the directory's, or owes an acknowledgement.
LEMMA SharerLeaving ==
  ASSUME CoherenceInv, NEW w \in wb, w.type = "PutS", NEW a, a = w.addr,
         NEW c, c = w.src
  PROVE  \/ dir[a].st \in {"S", "MS_AD", "MS_A", "MS_D", "SI"} /\ c \in dir[a].sharers
         \/ dir[a].st = "SM"
<1>1. Inv /\ Coherent
  BY DEF CoherenceInv, Coherent
<1>2. /\ a \in Lines /\ c \in Cores /\ HoldersInv(a)
      /\ ~Absent(c, a) /\ Bare(c, a) /\ ~Leaving(c, a, "PutM")
      /\ \A st : ~Expecting(c, a, st) /\ ~Receiving(c, a, st)
      /\ \A type, n : ~OwningFor(c, a, type, n)
  BY <1>1, WriterRole
<1>3. ~Possessing(c, a) /\ \A type, n : ~Giving(c, a, type, n)
  BY <1>2 DEF Possessing, Giving, Bare
<1>4. CASE dir[a].st = "I"
  BY <1>2, <1>4 DEF HoldersInv, InvalidLine, OthersAbsent
<1>5. CASE dir[a].st = "S"
  BY <1>2, <1>5 DEF HoldersInv, SharedLine, OthersAbsent
<1>6. CASE dir[a].st = "M"
  BY <1>2, <1>3, <1>6 DEF HoldersInv, ModifiedLine, OthersAbsent
<1>7. CASE dir[a].st = "MM"
  BY <1>2, <1>3, <1>7 DEF HoldersInv, HandedOverLine, Finished, OthersAbsent
<1>8. CASE dir[a].st \in {"MS_AD", "MS_A"}
  BY <1>1, <1>2, <1>8, DowngradedKnown
<1>9. CASE dir[a].st = "MS_D"
  BY <1>2, <1>9 DEF HoldersInv, DowngradedLine, OthersAbsent
<1>10. CASE dir[a].st \in {"MI_AD", "MI_A", "MI_D", "MI_RespOk"}
  BY <1>2, <1>10 DEF HoldersInv, AbandonedLine, OthersAbsent
<1>11. CASE dir[a].st = "SI"
  BY <1>2, <1>11 DEF HoldersInv, RecalledLine, OthersAbsent
<1>12. CASE dir[a].st = "MI"
  BY <1>2, <1>3, <1>12 DEF HoldersInv, RecalledFromOwner, OthersAbsent
<1> QED
  BY <1>1, <1>2, <1>4, <1>5, <1>6, <1>7, <1>8, <1>9, <1>10, <1>11, <1>12
     DEF Inv, LLCInv, LLCTypeOK, Entry, DirStates, DirStable, DirBusy

\* A write-back finds the entry of the line in a state that expects it, or waiting
\* for the former owner's data alone.
LEMMA WritebackMet ==
  ASSUME CoherenceInv, NEW w \in wb
  PROVE  WritebackSpecified(w) \/ (w.type = "PutS" /\ dir[w.addr].st = "MS_D")
<1>1. w.type \in {"PutS", "PutM"} /\ w.addr \in Lines /\ w.src \in Cores
  BY DEF CoherenceInv, Inv, InterconnectTypeOK, Writeback
<1>2. CASE w.type = "PutM"
  <2>1. \/ dir[w.addr].st \in {"M", "SM", "MI"} /\ dir[w.addr].owner = w.src
        \/ dir[w.addr].st = "MM"
        \/ dir[w.addr].st = "MS_AD" /\ dir[w.addr].owner = None
    BY <1>2, OwnerLeaving
  <2>2. w.src # None
    BY <1>1, ConstantsAssumption
  <2> QED
    BY <1>2, <2>1, <2>2 DEF WritebackSpecified, FromOwner, DirHit, PutMOwnerStates,
       PutMNonOwnerStates
<1>3. CASE w.type = "PutS"
  <2>1. \/ /\ dir[w.addr].st \in {"S", "MS_AD", "MS_A", "MS_D", "SI"}
           /\ w.src \in dir[w.addr].sharers
        \/ dir[w.addr].st = "SM"
    BY <1>3, SharerLeaving
  <2> QED
    BY <1>1, <1>3, <2>1 DEF WritebackSpecified, PutSStates
<1> QED
  BY <1>1, <1>2, <1>3

\* An answer finds the entry of the line in a state that expects it.
LEMMA AnswerMet ==
  ASSUME CoherenceInv, NEW m \in rsp, m.dst = Directory
  PROVE  DirResponseSpecified(m)
<1>1. PICK a \in Lines : a = m.addr
  BY DEF CoherenceInv, Inv, InterconnectTypeOK, Response
<1>2. /\ Inv /\ HoldersInv(a) /\ m.type \in {"Data", "Ack", "RespOk"}
      /\ Directory \notin Cores
      /\ dir[a].st \in DirStates
  BY ConstantsAssumption
     DEF CoherenceInv, LineInv, Inv, InterconnectTypeOK, Response, LLCInv, LLCTypeOK,
         Entry
<1>3. CASE m.type = "Data"
  <2>1. Datas(Directory, a) # {}
    BY <1>1, <1>3 DEF Datas
  <2>2. \A q : Downgrading(a, q) => Datas(Directory, a) = {}
    BY DEF Downgrading, Quiet
  <2>3. dir[a].st \in {"MS_AD", "MS_D", "MI_AD", "MI_D", "MI"}
    BY <1>2, <2>1, <2>2
       DEF DirStates, DirStable, DirBusy, HoldersInv, InvalidLine, SharedLine, ModifiedLine,
           UpgradedLine, HandedOverLine, DowngradedLine, AbandonedLine, RecalledLine,
           RecalledFromOwner, Quiet
  <2> QED
    BY <1>1, <1>3, <2>3, AnswerRow DEF DirResponseSpecified
<1>4. CASE m.type = "RespOk"
  <2>1. RespOks(a) # {}
    BY <1>1, <1>4 DEF RespOks
  <2>2. dir[a].st \in {"MM", "SM", "MS_A", "MS_AD", "MI_AD", "MI_A", "MI_RespOk"}
    BY <1>2, <2>1
       DEF DirStates, DirStable, DirBusy, HoldersInv, InvalidLine, SharedLine, ModifiedLine,
           DowngradedLine, AbandonedLine, RecalledLine, RecalledFromOwner, Quiet
  <2> QED
    BY <1>1, <1>4, <2>2, AnswerRow DEF DirResponseSpecified
<1>5. CASE m.type = "Ack"
  <2>1. m \in Acks(a) /\ m.dst = Directory
    BY <1>1, <1>5 DEF Acks
  <2>2. \A q : Finished(a, q) => Acks(a) = {}
    BY DEF Finished
  <2>3. \A q : Downgrading(a, q) \/ Downgraded(a, q) => Acks(a) = {}
    BY DEF Downgrading, Downgraded, Quiet
  <2>4. \A q \in Cores : ~AcksTo(q, a)
    BY <1>2, <2>1 DEF AcksTo
  <2>5. dir[a].st = "SI"
    BY <1>2, <2>1, <2>2, <2>3, <2>4
       DEF DirStates, DirStable, DirBusy, HoldersInv, InvalidLine, SharedLine, ModifiedLine,
           UpgradedLine, HandedOverLine, DowngradedLine, AbandonedLine,
           RecalledFromOwner, Quiet
  <2>6. m.src \in dir[a].sharers
    BY <1>2, <2>1, <2>5 DEF HoldersInv, RecalledLine
  <2> QED
    BY <1>1, <1>5, <2>5, <2>6 DEF DirResponseSpecified
<1> QED
  BY <1>2, <1>3, <1>4, <1>5

\* Whatever message is delivered next, and in whatever order, its receiver has a
\* row for it: but for a PutS that finds its line in MS_D.
THEOREM EveryEventSpecified ==
  ASSUME TimelyForwards
  PROVE  Spec => []OnlyLatePutSUnspecified
<1>1. Init => RespOkToDirectory
  BY DEF Init, InterconnectInit, RespOkToDirectory
<1>2. RespOkToDirectory /\ [Next]_vars => RespOkToDirectory'
  BY NextRespOks
<1>3. CoherenceInv /\ RespOkToDirectory => OnlyLatePutSUnspecified
  BY ForwardMet, ResponseMet, WritebackMet, AnswerMet
     DEF OnlyLatePutSUnspecified, RespOkToDirectory
<1> QED
  BY <1>1, <1>2, <1>3, CoherenceInvariant, PTL DEF Spec

-----------------------------------------------------------------------------
(* The directory's capacity.                                               *)

\* Sets of at most n elements each, and one of fewer, have fewer than n each
\* together.
LEMMA CoverBound ==
  ASSUME NEW C, IsFiniteSet(C), NEW n \in Nat, NEW x \in C, NEW cover,
         \A c \in C : IsFiniteSet(cover[c]) /\ Cardinality(cover[c]) <= n,
         Cardinality(cover[x]) < n,
         NEW S, \A a \in S : \E c \in C : a \in cover[c]
  PROVE  Cardinality(S) < n * Cardinality(C)
<1> DEFINE K(c) == Cardinality(cover[c])
           g == [c \in C |-> CHOOSE f : f \in Bijection(1..K(c), cover[c])]
           Q == {p \in C \X (1..n) : p[2] <= K(p[1]) /\ g[p[1]][p[2]] \in S}
           h == [p \in Q |-> g[p[1]][p[2]]]
<1>1. \A c \in C : K(c) \in Nat /\ K(c) <= n
  BY FS_CardinalityType
<1>2. \A c \in C : g[c] \in Bijection(1..K(c), cover[c])
  BY FS_CardinalityType DEF ExistsBijection
<1>3. \A a \in S : \E p \in Q : h[p] = a
  <2> SUFFICES ASSUME NEW a \in S PROVE \E p \in Q : h[p] = a
    OBVIOUS
  <2>1. PICK c \in C : a \in cover[c]
    OBVIOUS
  <2>2. g[c] \in Surjection(1..K(c), cover[c])
    BY <1>2, <2>1 DEF Bijection
  <2> HIDE DEF g, K
  <2>3. PICK i \in 1..K(c) : g[c][i] = a
    BY <2>1, <2>2 DEF Surjection
  <2>4. i \in 1..n /\ i <= K(c)
    BY <1>1, <2>1, <2>3
  <2>5. <<c, i>> \in Q
    BY <2>1, <2>3, <2>4
  <2>6. h[<<c, i>>] = a
    BY <2>3, <2>5
  <2> QED
    BY <2>5, <2>6
<1>4. h \in Surjection(Q, S)
  BY <1>3 DEF Surjection
<1>5. IsFiniteSet(1..n) /\ Cardinality(1..n) = n
  BY FS_Interval
<1>6. /\ IsFiniteSet(C \X (1..n))
      /\ Cardinality(C \X (1..n)) = Cardinality(C) * n
  BY <1>5, FS_Product
<1>7. n \in 1..n
  <2>1. K(x) < n /\ K(x) \in Nat
    BY <1>1
  <2> HIDE DEF K
  <2> QED
    BY <2>1
<1>8. <<x, n>> \in C \X (1..n) /\ <<x, n>> \notin Q
  <2>1. K(x) < n /\ K(x) \in Nat
    BY <1>1
  <2> HIDE DEF K
  <2> QED
    BY <1>7, <2>1
<1>9. Q \in SUBSET ((C \X (1..n)) \ {<<x, n>>})
  BY <1>8
<1> HIDE DEF Q, h
<1>10. /\ IsFiniteSet((C \X (1..n)) \ {<<x, n>>})
       /\ Cardinality((C \X (1..n)) \ {<<x, n>>}) = Cardinality(C) * n - 1
  <2> DEFINE T == C \X (1..n)
             z == <<x, n>>
  <2>1. IsFiniteSet(T) /\ Cardinality(T) = Cardinality(C) * n /\ z \in T
    BY <1>6, <1>8
  <2> HIDE DEF T, z
  <2>2. /\ IsFiniteSet(T \ {z})
        /\ Cardinality(T \ {z}) = IF z \in T THEN Cardinality(T) - 1 ELSE Cardinality(T)
    BY <2>1, FS_RemoveElement
  <2>3. Cardinality(T \ {z}) = Cardinality(C) * n - 1
    BY <2>1, <2>2
  <2> QED
    BY <2>2, <2>3 DEF T, z
<1>11. IsFiniteSet(Q) /\ Cardinality(Q) <= Cardinality(C) * n - 1
  BY <1>9, <1>10, FS_Subset
<1>12. IsFiniteSet(S) /\ Cardinality(S) <= Cardinality(Q)
  BY <1>4, <1>11, FS_Surjection
<1>13. /\ Cardinality(S) \in Nat /\ Cardinality(Q) \in Nat /\ Cardinality(C) \in Nat
  BY <1>11, <1>12, FS_CardinalityType
<1>14. Cardinality(C) * n \in Nat /\ n * Cardinality(C) = Cardinality(C) * n
  BY <1>13
<1> QED
  BY <1>11, <1>12, <1>13, <1>14

\* A set has at most one element more than a set from which it differs in one.
LEMMA OneMore ==
  ASSUME NEW S, IsFiniteSet(S), NEW x, NEW T \in SUBSET (S \cup {x})
  PROVE  IsFiniteSet(T) /\ Cardinality(T) <= Cardinality(S) + 1
<1>1. /\ IsFiniteSet(S \cup {x})
      /\ Cardinality(S \cup {x}) = IF x \in S THEN Cardinality(S) ELSE Cardinality(S) + 1
  BY FS_AddElement
<1>2. IsFiniteSet(T) /\ Cardinality(T) <= Cardinality(S \cup {x})
  BY <1>1, FS_Subset
<1>3. Cardinality(S) \in Nat /\ Cardinality(T) \in Nat
  BY <1>2, FS_CardinalityType
<1> QED
  BY <1>1, <1>2, <1>3

\* The lines whose directory entries a core accounts for.
Covered(c) ==
  {a \in Lines : DirHit(a) /\ (Keeping(c, a) \/ Possessing(c, a))}

\* A core accounts for a line that it holds, waits for, or writes back.
LEMMA CoveredWhere ==
  ASSUME NEW c, NEW a, Keeping(c, a) \/ Possessing(c, a)
  PROVE  \/ Hit(c, a)
         \/ Pend(c, a) # None /\ ~Waiting(c, a)
         \/ Pend(c, a) # None /\ Pend(c, a).st = "SM_AD"
         \/ Wbs(c, a) # {}
BY DEF Keeping, Possessing, Sharing, Owning, Leaving, Served, Asking, PendingIn, Apart,
       Hit

\* When the LLC is about to read a request, every entry is accounted for.
LEMMA EntriesCovered ==
  ASSUME CoherenceInv, ~blocking, NEW a \in Lines, DirHit(a)
  PROVE  \E c \in Cores : a \in Covered(c)
<1>1. /\ HoldersInv(a) /\ Inv
      /\ dir[a].st \in DirStates /\ dir[a].sharers \subseteq Cores
  BY DEF CoherenceInv, LineInv, Inv, LLCInv, LLCTypeOK, Entry
<1>2. dir[a].st \notin DirBusy
  BY <1>1 DEF Inv, LLCInv, BlockingDiscipline
<1>3. CASE dir[a].st = "S"
  BY <1>1, <1>3 DEF HoldersInv, SharedLine, Covered
<1>4. CASE dir[a].st = "M"
  BY <1>1, <1>4 DEF HoldersInv, ModifiedLine, Covered
<1> QED
  BY <1>1, <1>2, <1>3, <1>4 DEF DirStates, DirStable, DirHit

\* A write-back still combined with its request: the core has no other, and
\* waits for another line.
LEMMA CombinedRequest ==
  ASSUME CoherenceInv, UpgradesInv, \A w \in wb : ~WritebackDue(w),
         NEW c \in Cores, NEW b \in Lines, Wbs(c, b) # {}
  PROVE  /\ pr[c] # None
         /\ \A a : Wbs(c, a) # {} => a = b
         /\ \A a : Pend(c, a) # None => Waiting(c, a) /\ Pend(c, a).st # "SM_AD"
<1>1. \A a : Wbs(c, a) # {} =>
               \E r \in req : r.src = c /\ r.victim = a
  BY DEF Wbs, WritebackDue
<1>2. PICK r \in req : r.src = c /\ r.victim = b
  BY <1>1
<1>3. RequestsInv /\ r \in Unserved /\ req \subseteq Unserved
  BY DEF CoherenceInv, Unserved
<1>4. \A a : Wbs(c, a) # {} => a = b
  BY <1>1, <1>2, <1>3 DEF RequestsInv
<1>5. Pend(c, r.addr) # None
  BY <1>2, <1>3 DEF RequestsInv
<1>6. pr[c] # None /\ \A a : Pend(c, a) # None => a = r.addr /\ Pend(c, a) = pr[c]
  BY <1>5 DEF Pend, HitPr
<1>7. Waiting(c, r.addr)
  BY <1>2, <1>3 DEF Waiting
<1>8. pr[c].st # "SM_AD"
  BY <1>2, <1>6, ConstantsAssumption DEF UpgradesInv
<1> QED
  BY <1>4, <1>6, <1>7, <1>8

\* A core accounts for no more lines than it has ways: what it holds, and either
\* the line it waits for or the one it writes back while it waits for another.
LEMMA CoveredFits ==
  ASSUME CoherenceInv, UpgradesInv, \A w \in wb : ~WritebackDue(w),
         NEW c \in Cores
  PROVE  IsFiniteSet(Covered(c)) /\ Cardinality(Covered(c)) <= Ways
<1>1. /\ Held(c) \subseteq Lines /\ IsFiniteSet(Held(c))
      /\ Cardinality(Held(c)) \in Nat /\ Ways \in Nat
  <2>1. Held(c) \in SUBSET Lines
    BY DEF Held
  <2> QED
    BY <2>1, ConstantsAssumption, CacheAssumption, FS_Subset, FS_CardinalityType
<1>2. Cardinality(Held(c)) + (IF pr[c] = None THEN 0 ELSE 1) <= Ways
  BY DEF CoherenceInv, Inv, CacheInv, WaysFit
<1>3. CASE \A b \in Lines : Wbs(c, b) = {}
  <2>1. \A a \in Covered(c) : a \in Held(c) \/ Pend(c, a) # None
    BY <1>3, CoveredWhere DEF Covered, Held
  <2>2. CASE pr[c] = None
    <3>1. Covered(c) \in SUBSET Held(c)
      BY <2>1, <2>2 DEF Pend, HitPr
    <3> QED
      BY <1>1, <1>2, <2>2, <3>1, FS_Subset, FS_CardinalityType
  <2>3. CASE pr[c] # None
    <3>1. Covered(c) \in SUBSET (Held(c) \cup {pr[c].line})
      BY <2>1 DEF Pend, HitPr
    <3>2. /\ IsFiniteSet(Covered(c))
          /\ Cardinality(Covered(c)) <= Cardinality(Held(c)) + 1
      BY <1>1, <3>1, OneMore
    <3>3. Cardinality(Covered(c)) \in Nat
      BY <3>2, FS_CardinalityType
    <3> QED
      BY <1>1, <1>2, <2>3, <3>2, <3>3
  <2> QED
    BY <2>2, <2>3
<1>4. ASSUME NEW b \in Lines, Wbs(c, b) # {}
      PROVE  IsFiniteSet(Covered(c)) /\ Cardinality(Covered(c)) <= Ways
  <2>1. /\ \A a : Wbs(c, a) # {} => a = b
        /\ \A a : Pend(c, a) # None => Waiting(c, a) /\ Pend(c, a).st # "SM_AD"
    BY <1>4, CombinedRequest
  <2>2. Covered(c) \in SUBSET (Held(c) \cup {b})
    BY <2>1, CoveredWhere DEF Covered, Held
  <2>3. pr[c] # None
    BY <1>4, CombinedRequest
  <2>4. /\ IsFiniteSet(Covered(c))
        /\ Cardinality(Covered(c)) <= Cardinality(Held(c)) + 1
    BY <1>1, <2>2, OneMore
  <2>5. Cardinality(Covered(c)) \in Nat
    BY <2>4, FS_CardinalityType
  <2> QED
    BY <1>1, <1>2, <2>3, <2>4, <2>5
<1> QED
  BY <1>3, <1>4

\* Requests are typed also when they are put aside.
LEMMA UnservedTyped ==
  ASSUME Inv, NEW r \in Unserved
  PROVE  r \in Request
<1>1. r \in req \/ (pending # <<>> /\ r = Head(pending))
  BY DEF Unserved, SetAside
<1>2. req \subseteq Request /\ pending \in Seq(Request) /\ Len(pending) <= 1
  BY DEF Inv, InterconnectTypeOK, LLCInv, LLCTypeOK, BlockingDiscipline
<1> QED
  BY <1>1, <1>2, PendingStream

\* The core whose request is read, its write-back having come first, has a way
\* for the line requested, which has no entry.
LEMMA RequestorFits ==
  ASSUME CoherenceInv, ~blocking, NEW r \in NextRequests, ~DirHit(r.addr),
         \A w \in wb : w.src # r.src
  PROVE  r.src \in Cores /\ Cardinality(Covered(r.src)) < Ways
<1> DEFINE c == r.src
<1>1. Inv /\ RequestsInv
  BY DEF CoherenceInv
<1>2. r \in Unserved
  <2>1. CASE pending = <<>>
    BY <2>1 DEF NextRequests, Unserved
  <2>2. CASE pending # <<>>
    BY <2>2, <1>1 DEF NextRequests, Unserved, SetAside, DirHit, DirBusy
  <2> QED
    BY <2>1, <2>2
<1>3. r.src \in Cores
  BY <1>1, <1>2, UnservedTyped DEF Request
<1>4. Pend(c, r.addr) # None
  BY <1>1, <1>2 DEF RequestsInv
<1>5. pr[c] # None /\ \A a : Pend(c, a) # None => a = r.addr
  BY <1>4 DEF Pend, HitPr
<1>6. \A b : Wbs(c, b) = {}
  BY DEF Wbs
<1>7. Covered(c) \in SUBSET Held(c)
  BY <1>5, <1>6, CoveredWhere DEF Covered, Held
<1>8. /\ IsFiniteSet(Held(c)) /\ Cardinality(Held(c)) \in Nat /\ Ways \in Nat
  <2>1. Held(c) \in SUBSET Lines
    BY DEF Held
  <2> QED
    BY <2>1, ConstantsAssumption, CacheAssumption, FS_Subset, FS_CardinalityType
<1>9. Cardinality(Held(c)) + 1 <= Ways
  BY <1>1, <1>3, <1>5 DEF Inv, CacheInv, WaysFit
<1>10. /\ IsFiniteSet(Covered(c)) /\ Cardinality(Covered(c)) <= Cardinality(Held(c))
  BY <1>7, <1>8, FS_Subset
<1>11. Cardinality(Covered(c)) \in Nat
  BY <1>10, FS_CardinalityType
<1> QED
  BY <1>3, <1>8, <1>9, <1>10, <1>11

\* With as many directory ways as the caches have together, entries that are all
\* accounted for leave one for the request that is read, its write-back having
\* come first.
LEMMA VacantWay ==
  ASSUME DirWays >= Ways * Cardinality(Cores), CoherenceInv, UpgradesInv
  PROVE  FullOnlyBeforeWriteback
<1> SUFFICES ASSUME NEW r \in NextRequests, MayTake(r), ~DirHit(r.addr),
                    \A w \in wb : w.src # r.src
             PROVE  DirHasVacant
  BY DEF FullOnlyBeforeWriteback
<1> DEFINE S == {a \in Lines : DirHit(a)}
           cover == [c \in Cores |-> Covered(c)]
<1>1. /\ ~blocking /\ \A w \in wb : ~WritebackDue(w)
  BY DEF MayTake
<1>2. \A a \in S : \E c \in Cores : a \in cover[c]
  BY <1>1, EntriesCovered
<1>3. \A c \in Cores : IsFiniteSet(cover[c]) /\ Cardinality(cover[c]) <= Ways
  BY <1>1, CoveredFits
<1>4. r.src \in Cores /\ Cardinality(cover[r.src]) < Ways
  BY <1>1, RequestorFits
<1>5. IsFiniteSet(Cores) /\ Ways \in Nat /\ DirWays \in Nat
  BY ConstantsAssumption, CacheAssumption, LLCAssumption
<1> HIDE DEF cover, S
<1>6. Cardinality(S) < Ways * Cardinality(Cores)
  BY <1>2, <1>3, <1>4, <1>5, CoverBound
<1>7. Cardinality(S) \in Nat /\ Cardinality(Cores) \in Nat
  <2>1. S \in SUBSET Lines
    BY DEF S
  <2> QED
    BY <2>1, <1>5, ConstantsAssumption, FS_Subset, FS_CardinalityType
<1>8. Ways * Cardinality(Cores) \in Nat
  BY <1>5, <1>7
<1>9. Cardinality(S) < DirWays
  BY <1>5, <1>6, <1>7, <1>8
<1> QED
  BY <1>9 DEF DirHasVacant, S

\* Only a store to a shared line enters SM_AD, and it evicts nothing.
LEMMA UpgradesKept ==
  ASSUME Inv, RequestsInv, UpgradesInv, [Next]_vars
  PROVE  UpgradesInv'
<1>1. ASSUME NEW c \in Cores, NEW a, NEW op, NEW d, NEW st, NEW type, NEW v,
             Idle(c), Issue(c, a, op, d, st, type, v), st = "SM_AD" => v = None
      PROVE  UpgradesInv'
  <2>1. pr[c] = None
    BY <1>1 DEF Idle, Inv, CacheInv, MshrMatchesPr
  <2>2. \A r \in req : r.src # c /\ r.src \in Cores
    BY <2>1, IdleAsksNothing DEF Unserved, Inv, InterconnectTypeOK, Request
  <2>3. pr \in [Cores -> PendingRequest \cup {None}]
    BY DEF Inv, CacheInv, CacheTypeOK
  <2>4. /\ pr'[c].st = st
        /\ \A e \in Cores : e # c => pr'[e] = pr[e]
    BY <1>1, <2>3 DEF Issue
  <2>5. \A r \in req' : r \in req \/ (r.src = c /\ r.victim = v)
    BY <1>1 DEF Issue
  <2> QED
    BY <1>1, <2>2, <2>4, <2>5 DEF UpgradesInv
<1>2. ASSUME NEW c \in Cores, req' = req,
             \/ pr' = pr
             \/ \E p : /\ pr' = [pr EXCEPT ![c] = p]
                       /\ p # None => pr[c] # None /\ (p.st = "SM_AD" => pr[c].st = "SM_AD")
      PROVE  UpgradesInv'
  <2>1. pr \in [Cores -> PendingRequest \cup {None}]
    BY DEF Inv, CacheInv, CacheTypeOK
  <2>2. \A e \in Cores : pr'[e] # None /\ pr'[e].st = "SM_AD" =>
                            pr[e] # None /\ pr[e].st = "SM_AD"
    <3>1. CASE pr' = pr
      BY <3>1
    <3>2. CASE pr' # pr
      <4>1. PICK p : /\ pr' = [pr EXCEPT ![c] = p]
                     /\ p # None => pr[c] # None /\ (p.st = "SM_AD" => pr[c].st = "SM_AD")
        BY <1>2, <3>2
      <4>2. pr'[c] = p /\ \A e \in Cores : e # c => pr'[e] = pr[e]
        BY <2>1, <4>1
      <4> QED
        BY <4>1, <4>2
    <3> QED
      BY <3>1, <3>2
  <2>3. \A r \in req : r.src \in Cores
    BY DEF Inv, InterconnectTypeOK, Request
  <2> QED
    BY <1>2, <2>2, <2>3 DEF UpgradesInv
<1>3. ASSUME NEW c \in Cores, CoreStep(c)
      PROVE  UpgradesInv'
  <2>1. PICK a \in Lines : \/ LoadMiss(c, a)
                          \/ LoadHit(c, a)
                          \/ \E d \in Values : \/ StoreMiss(c, a, d)
                                                \/ StoreShared(c, a, d)
                                                \/ StoreHit(c, a, d)
    BY <1>3 DEF CoreStep
  <2>2. ASSUME NEW op, NEW d, NEW st, NEW type, Miss(c, a, op, d, st, type), st # "SM_AD"
        PROVE  UpgradesInv'
    BY <1>1, <2>2 DEF Miss
  <2>3. CASE LoadMiss(c, a)
    BY <2>2, <2>3 DEF LoadMiss
  <2>4. CASE LoadHit(c, a)
    BY <1>2, <2>4 DEF LoadHit, networks
  <2>5. ASSUME NEW d \in Values, StoreMiss(c, a, d)
        PROVE  UpgradesInv'
    BY <2>2, <2>5 DEF StoreMiss
  <2>6. ASSUME NEW d \in Values, StoreShared(c, a, d)
        PROVE  UpgradesInv'
    BY <1>1, <2>6 DEF StoreShared
  <2>7. ASSUME NEW d \in Values, StoreHit(c, a, d)
        PROVE  UpgradesInv'
    BY <1>2, <2>7 DEF StoreHit, networks
  <2> QED
    BY <2>1, <2>3, <2>4, <2>5, <2>6, <2>7
<1>4. ASSUME NEW c \in Cores, NEW m \in fwd, ReceiveFwdGet(c, m) \/ ReceiveInv(c, m)
      PROVE  UpgradesInv'
  <2>1. req' = req
    BY <1>4 DEF ReceiveFwdGet, ReceiveInv
  <2>2. ASSUME NEW s, NEW dest, SetPending(c, s, dest), s # "SM_AD",
               State(c, m.addr) \in TransientStates
        PROVE  UpgradesInv'
    <3>1. /\ pr \in [Cores -> PendingRequest \cup {None}]
          /\ tag[c][m.addr] \in StableStates
      BY DEF Inv, CacheInv, CacheTypeOK, InterconnectTypeOK, Forward
    <3>2. pr[c] # None
      BY <2>2, <3>1 DEF State, HitPr, Hit, StableStates, TransientStates, AwaitingData,
         AwaitingAcks
    <3>3. pr[c] \in PendingRequest
      BY <3>2, <3>1
    <3>4. [pr[c] EXCEPT !.st = s, !.fwdDest = dest].st = s
      BY <3>3 DEF PendingRequest
    <3> QED
      BY <1>2, <2>1, <2>2, <3>2, <3>4 DEF SetPending
  <2>3. \A s \in {"I", "M", "IM_AD", "IM_A", "SM_AD", "SM_A"} :
          NextOnFwdGetS[s] # "SM_AD" /\ NextOnFwdGetM[s] # "SM_AD"
    BY DEF NextOnFwdGetS, NextOnFwdGetM
  <2>4. \A s \in {"I", "S", "IS_D", "SM_AD", "SM_AD_S", "SM_A_S"} : NextOnInv[s] # "SM_AD"
    BY DEF NextOnInv
  <2>5. /\ DOMAIN NextOnFwdGetS = {"I", "M", "IM_AD", "IM_A", "SM_AD", "SM_A"}
        /\ DOMAIN NextOnFwdGetM = {"I", "M", "IM_AD", "IM_A", "SM_AD", "SM_A"}
        /\ DOMAIN NextOnInv = {"I", "S", "IS_D", "SM_AD", "SM_AD_S", "SM_A_S"}
    BY DEF NextOnFwdGetS, NextOnFwdGetM, NextOnInv
  <2>6. CASE pr' = pr
    BY <1>2, <2>1, <2>6
  <2>7. CASE ReceiveFwdGet(c, m) /\ pr' # pr
    <3>1. PICK next \in {NextOnFwdGetS, NextOnFwdGetM} :
            /\ State(c, m.addr) \in DOMAIN next
            /\ State(c, m.addr) \in TransientStates
            /\ SetPending(c, next[State(c, m.addr)], m.respondTo)
      BY <2>7 DEF ReceiveFwdGet, SetTag
    <3> QED
      BY <2>2, <2>3, <2>5, <3>1
  <2>8. CASE ReceiveInv(c, m) /\ pr' # pr
    <3>1. /\ State(c, m.addr) \in DOMAIN NextOnInv
          /\ State(c, m.addr) \in TransientStates
          /\ SetPending(c, NextOnInv[State(c, m.addr)], pr[c].fwdDest)
      BY <2>8 DEF ReceiveInv, SetTag
    <3> QED
      BY <2>2, <2>4, <2>5, <3>1
  <2> QED
    BY <1>4, <2>6, <2>7, <2>8
<1>5. ASSUME NEW c \in Cores, NEW m \in rsp, ReceiveData(c, m) \/ ReceiveAck(c, m)
      PROVE  UpgradesInv'
  <2>1. req' = req /\ HitPr(c, m.addr)
    BY <1>5 DEF ReceiveData, ReceiveAck
  <2>2. pr[c] # None /\ pr[c] \in PendingRequest
    BY <2>1 DEF HitPr, Inv, CacheInv, CacheTypeOK
  <2>3. ASSUME NEW cl, NEW ok, Complete(c, cl, m, ok)
        PROVE  UpgradesInv'
    BY <1>2, <2>1, <2>3 DEF Complete
  <2>4. CASE DataAck(c, m)
    <3> DEFINE p == [pr[c] EXCEPT !.st = NextOnDataAck[pr[c].st], !.total = m.acks,
                                  !.dataValid = TRUE]
    <3>1. p.st = NextOnDataAck[pr[c].st] /\ pr[c].st \in AwaitingData
      BY <2>2, <2>4 DEF PendingRequest, DataAck, NextOnDataAck
    <3>2. p.st # "SM_AD"
      BY <3>1 DEF NextOnDataAck, AwaitingData
    <3>3. pr' = [pr EXCEPT ![c] = p]
      BY <2>4 DEF DataAck
    <3> HIDE DEF p
    <3> QED
      BY <1>2, <2>1, <2>2, <3>2, <3>3
  <2>5. CASE pr' = [pr EXCEPT ![c] = [pr[c] EXCEPT !.acks = pr[c].acks + 1]]
    <3> DEFINE p == [pr[c] EXCEPT !.acks = pr[c].acks + 1]
    <3>1. p.st = pr[c].st /\ p.line = pr[c].line
      BY <2>2 DEF PendingRequest
    <3>2. pr' = [pr EXCEPT ![c] = p]
      BY <2>5
    <3> HIDE DEF p
    <3> QED
      BY <1>2, <2>1, <2>2, <3>1, <3>2
  <2> QED
    BY <1>5, <2>3, <2>4, <2>5 DEF ReceiveData, ReceiveAck
<1>6. CASE DirectoryStep /\ UNCHANGED cacheVars
  <2>1. req' \subseteq req
    <3>1. CASE \E c \in Cores : RequestStep(c)
      <4>1. PICK r : TakeRequest(r)
        BY <3>1 DEF RequestStep
      <4>2. CASE \E v \in Lines : \/ ReplaceValid(r, v)
                                   \/ ReplaceShared(r, v)
                                   \/ ReplaceModified(r, v)
        BY <4>2 DEF ReplaceValid, ReplaceShared, ReplaceModified, Replaces, Takes
      <4>3. CASE GetSInvalid(r) \/ GetSValid(r) \/ GetSShared(r) \/ GetSModified(r)
        BY <4>3 DEF GetSInvalid, GetSValid, GetSShared, GetSModified, Takes
      <4>4. CASE GetMUncached(r) \/ GetMShared(r) \/ GetMModified(r)
        BY <4>4 DEF GetMUncached, GetMShared, GetMModified, Takes
      <4> QED
        BY <4>1, <4>2, <4>3, <4>4 DEF TakeRequest
    <3>2. CASE WritebackStep
      BY <3>2 DEF WritebackStep, PutMFromOwner, PutMFromNonOwner, PutS
    <3>3. CASE DirResponseStep
      BY <3>3 DEF DirResponseStep, ReceiveDataResp, ReceiveRespOk, ReceiveInvAck
    <3> QED
      BY <1>6, <3>1, <3>2, <3>3 DEF DirectoryStep
  <2>2. pr' = pr
    BY <1>6 DEF cacheVars
  <2> QED
    BY <2>1, <2>2 DEF UpgradesInv
<1>7. CASE UNCHANGED vars
  BY <1>7 DEF vars, networks, cacheVars, UpgradesInv
<1> QED
  BY <1>3, <1>4, <1>5, <1>6, <1>7 DEF Next, CacheStep, ForwardStep, ResponseStep

\* A request that the LLC may read finds an entry or a vacant way, or comes before
\* the write-back that its core sent with it: the directory has the ways that the
\* caches have together.
THEOREM CapacitySuffices ==
  ASSUME TimelyForwards, DirWays >= Ways * Cardinality(Cores)
  PROVE  Spec => []FullOnlyBeforeWriteback
<1>1. Init => UpgradesInv
  BY DEF Init, InterconnectInit, UpgradesInv
<1>2. CoherenceInv /\ UpgradesInv /\ [Next]_vars => UpgradesInv'
  BY UpgradesKept DEF CoherenceInv
<1>3. CoherenceInv /\ UpgradesInv => FullOnlyBeforeWriteback
  BY VacantWay
<1> QED
  BY <1>1, <1>2, <1>3, CoherenceInvariant, PTL DEF Spec

-----------------------------------------------------------------------------
(* The queues.                                                             *)

\* A set of which every element has a mark of its own.
LEMMA OneEach ==
  ASSUME NEW S, NEW T, IsFiniteSet(T), NEW f \in [S -> T],
         \A x, y \in S : f[x] = f[y] => x = y
  PROVE  IsFiniteSet(S) /\ Cardinality(S) <= Cardinality(T)
<1>1. f \in Injection(S, T)
  BY DEF Injection, IsInjective
<1> QED
  BY <1>1, FS_Injection

\* A core has one write-back of a line on its way at most.
LEMMA OneWriteback ==
  ASSUME CoherenceInv, NEW w \in wb, NEW v \in wb, w.src = v.src, w.addr = v.addr
  PROVE  w = v
<1>1. PICK c \in Cores, a \in Lines : c = w.src /\ a = w.addr
  BY DEF CoherenceInv, Inv, InterconnectTypeOK, Writeback
<1>2. w \in Wbs(c, a) /\ v \in Wbs(c, a)
  BY <1>1 DEF Wbs
<1>3. Inv /\ HoldersInv(a)
  BY DEF CoherenceInv, LineInv
<1>4. Wbs(c, a) = {} \/ \E x \in Wbs(c, a) : Wbs(c, a) = {x}
  BY <1>3, SomeRole DEF Absent, Sharing, Owning, Leaving, OwningFor, Collecting,
     Expecting, Receiving, Served
<1> QED
  BY <1>2, <1>4

\* The request that the LLC takes leaves behind what it carried, and nothing was
\* left behind before.
LEMMA OneDueKept ==
  ASSUME CoherenceInv, OneDue, [Next]_vars
  PROVE  OneDue'
<1>1. ASSUME wb' \subseteq wb, req \subseteq req'
      PROVE  OneDue'
  BY <1>1 DEF OneDue, WritebackDue
<1>2. ASSUME NEW r, Takes(r), wb' = wb
      PROVE  OneDue'
  <2>1. \A w \in wb : ~WritebackDue(w)
    BY <1>2 DEF Takes, MayTake
  <2>2. \A w \in wb : WritebackDue(w)' => w.src = r.src /\ w.addr = r.victim
    BY <1>2, <2>1 DEF Takes, WritebackDue
  <2> QED
    BY <1>2, <2>2, OneWriteback DEF OneDue
<1>3. ASSUME NEW c, NEW a, NEW op, NEW d, NEW st, NEW type, NEW v,
             Issue(c, a, op, d, st, type, v),
             \/ wb' = wb
             \/ Evict(c, v)
      PROVE  OneDue'
  <2> DEFINE r == [type |-> type, addr |-> a, src |-> c, victim |-> v]
             w0 == [type |-> VictimPut(c, v), addr |-> v, src |-> c, data |-> data[c][v]]
  <2>1. req' = req \cup {r} /\ r.src = c /\ r.victim = v
    BY <1>3 DEF Issue
  <2>2. wb' \in {wb, wb \cup {w0}} /\ w0.src = c /\ w0.addr = v
    BY <1>3 DEF Evict
  <2> HIDE DEF r, w0
  <2>3. \A w \in wb' : WritebackDue(w)' => w \in wb /\ WritebackDue(w)
    BY <2>1, <2>2 DEF WritebackDue
  <2> QED
    BY <2>3 DEF OneDue
<1>4. ASSUME NEW c \in Cores, CoreStep(c)
      PROVE  OneDue'
  <2>1. PICK a \in Lines : \/ LoadMiss(c, a)
                          \/ LoadHit(c, a)
                          \/ \E d \in Values : \/ StoreMiss(c, a, d)
                                                \/ StoreShared(c, a, d)
                                                \/ StoreHit(c, a, d)
    BY <1>4 DEF CoreStep
  <2>2. ASSUME NEW op, NEW d, NEW st, NEW type, Miss(c, a, op, d, st, type)
        PROVE  OneDue'
    BY <1>3, <2>2 DEF Miss
  <2>3. CASE LoadMiss(c, a) \/ \E d \in Values : StoreMiss(c, a, d)
    BY <2>2, <2>3 DEF LoadMiss, StoreMiss
  <2>4. CASE LoadHit(c, a) \/ \E d \in Values : StoreHit(c, a, d)
    BY <1>1, <2>4 DEF LoadHit, StoreHit, networks
  <2>5. CASE \E d \in Values : StoreShared(c, a, d)
    BY <1>3, <2>5 DEF StoreShared
  <2> QED
    BY <2>1, <2>3, <2>4, <2>5
<1>5. ASSUME NEW c \in Cores, ForwardStep(c) \/ ResponseStep(c)
      PROVE  OneDue'
  BY <1>1, <1>5 DEF ForwardStep, ResponseStep, ReceiveFwdGet, ReceiveInv, ReceiveData,
     ReceiveAck
<1>6. CASE \E c \in Cores : RequestStep(c)
  <2>1. PICK r : TakeRequest(r)
    BY <1>6 DEF RequestStep
  <2>2. CASE \E v \in Lines : \/ ReplaceValid(r, v)
                              \/ ReplaceShared(r, v)
                              \/ ReplaceModified(r, v)
    BY <1>2, <2>2 DEF ReplaceValid, ReplaceShared, ReplaceModified, Replaces
  <2>3. CASE GetSInvalid(r) \/ GetSValid(r) \/ GetSShared(r) \/ GetSModified(r)
    BY <1>2, <2>3 DEF GetSInvalid, GetSValid, GetSShared, GetSModified
  <2>4. CASE GetMUncached(r) \/ GetMShared(r) \/ GetMModified(r)
    BY <1>2, <2>4 DEF GetMUncached, GetMShared, GetMModified
  <2> QED
    BY <2>1, <2>2, <2>3, <2>4 DEF TakeRequest
<1>7. CASE WritebackStep \/ DirResponseStep
  BY <1>1, <1>7 DEF WritebackStep, PutMFromOwner, PutMFromNonOwner, PutS,
     DirResponseStep, ReceiveDataResp, ReceiveRespOk, ReceiveInvAck
<1>8. CASE UNCHANGED vars
  BY <1>1, <1>8 DEF vars, networks
<1> QED
  BY <1>4, <1>5, <1>6, <1>7, <1>8 DEF Next, CacheStep, DirectoryStep

\* The write-backs that go with a request are as many as the requests at most,
\* and those as many as the cores.
LEMMA RequestsCounted ==
  ASSUME CoherenceInv, OneDue
  PROVE  RequestsFit
<1>1. /\ IsFiniteSet(Cores)
      /\ \A r \in req : r.src \in Cores
      /\ \A w \in wb : w.src \in Cores
  BY ConstantsAssumption DEF CoherenceInv, Inv, InterconnectTypeOK, Request, Writeback
<1>2. \A r, s \in req : r.src = s.src => r = s
  BY DEF CoherenceInv, RequestsInv, Unserved
<1>3. Cardinality(req) <= Cardinality(Cores)
  <2> DEFINE f == [r \in req |-> r.src]
  <2>1. f \in [req -> Cores] /\ \A r, s \in req : f[r] = f[s] => r = s
    BY <1>1, <1>2
  <2> HIDE DEF f
  <2> QED
    BY <1>1, <2>1, OneEach
<1> DEFINE carried == {w \in wb : ~WritebackDue(w)}
           f == [w \in carried |-> w.src]
<1>4. \A w, v \in carried : w.src = v.src => w = v
  <2> SUFFICES ASSUME NEW w \in carried, NEW v \in carried, w.src = v.src
               PROVE  w = v
    OBVIOUS
  <2>1. w.addr = v.addr
    BY <1>2 DEF WritebackDue
  <2> QED
    BY <2>1, OneWriteback
<1>5. f \in [carried -> Cores] /\ \A w, v \in carried : f[w] = f[v] => w = v
  BY <1>1, <1>4
<1>6. wb = carried \/ \E x : wb \in SUBSET (carried \cup {x})
  BY DEF OneDue
<1> HIDE DEF carried, f
<1>7. IsFiniteSet(carried) /\ Cardinality(carried) <= Cardinality(Cores)
  BY <1>1, <1>5, OneEach
<1>8. \E x : wb \in SUBSET (carried \cup {x})
  BY <1>6
<1>9. IsFiniteSet(wb) /\ Cardinality(wb) <= Cardinality(carried) + 1
  BY <1>7, <1>8, OneMore
<1>10. /\ Cardinality(carried) \in Nat /\ Cardinality(wb) \in Nat
       /\ Cardinality(Cores) \in Nat
  BY <1>1, <1>7, <1>9, FS_CardinalityType
<1> QED
  BY <1>3, <1>7, <1>9, <1>10 DEF RequestsFit

\* The request network never has more to hold than a request and a write-back
\* for each core, and one write-back more: with 16 cores the requests fit req_in
\* of LLC.scala, and the write-backs wb_in with the queue before it.
THEOREM RequestsBounded ==
  ASSUME TimelyForwards
  PROVE  Spec => []RequestsFit
<1>1. Init => OneDue
  BY DEF Init, InterconnectInit, OneDue
<1>2. CoherenceInv /\ OneDue /\ [Next]_vars => OneDue'
  BY OneDueKept
<1>3. CoherenceInv /\ OneDue => RequestsFit
  BY RequestsCounted
<1> QED
  BY <1>1, <1>2, <1>3, CoherenceInvariant, PTL DEF Spec

\* The holders of a line without a transaction have read every forward for it.
LEMMA NoForwardYet ==
  ASSUME CoherenceInv, NEW a \in Lines, dir[a].st \in {"S", "M"},
         NEW m \in fwd, m.addr = a
  PROVE  m.dst \notin dir[a].sharers /\ (dir[a].st = "M" => m.dst # dir[a].owner)
<1>1. m.dst \notin Recipients(a)
  BY DEF CoherenceInv, LineInv, ForwardsInv, Fwds
<1>2. m.dst \notin dir[a].sharers
  BY <1>1 DEF Recipients
<1>3. dir[a].st = "M" => dir[a].owner \in dir[a].sharers
  BY DEF CoherenceInv, LineInv, HoldersInv, ModifiedLine
<1> QED
  BY <1>2, <1>3

\* A forward is sent where none is under way.
LEMMA ForwardsFitKept ==
  ASSUME CoherenceInv, ForwardsFit, [Next]_vars
  PROVE  ForwardsFit'
<1>1. ASSUME fwd' \subseteq fwd
      PROVE  ForwardsFit'
  BY <1>1 DEF ForwardsFit
<1>2. ASSUME NEW type, NEW a, NEW dests, NEW n, Sends(type, a, dests, n),
             \A m \in fwd : m.addr = a => m.dst \notin dests
      PROVE  ForwardsFit'
  <2> DEFINE new == {ForwardMessage(type, a, c, n) : c \in dests}
  <2>1. fwd' = fwd \cup new
    BY <1>2 DEF Sends
  <2>2. \A m \in new : m.addr = a /\ m.dst \in dests /\ m = ForwardMessage(type, a, m.dst, n)
    BY DEF ForwardMessage
  <2> HIDE DEF new
  <2> QED
    BY <1>2, <2>1, <2>2 DEF ForwardsFit
<1>3. ASSUME NEW c \in Cores, CacheStep(c)
      PROVE  ForwardsFit'
  <2>1. CASE CoreStep(c)
    BY <1>1, <2>1 DEF CoreStep, LoadMiss, StoreMiss, Miss, LoadHit, StoreHit, StoreShared,
       networks
  <2>2. CASE ForwardStep(c) \/ ResponseStep(c)
    BY <1>1, <2>2 DEF ForwardStep, ResponseStep, ReceiveFwdGet, ReceiveInv, ReceiveData,
       ReceiveAck
  <2> QED
    BY <1>3, <2>1, <2>2 DEF CacheStep
<1>4. ASSUME NEW r, TakeRequest(r)
      PROVE  ForwardsFit'
  <2>1. ASSUME GetSModified(r) \/ GetMShared(r) \/ GetMModified(r)
        PROVE  ForwardsFit'
    <3>1. Takes(r)
      BY <2>1 DEF GetSModified, GetMShared, GetMModified
    <3>2. r.addr \in Lines
      BY <3>1, TakenRequest DEF CoherenceInv
    <3>3. CASE GetSModified(r)
      BY <1>2, <3>2, <3>3, NoForwardYet DEF GetSModified
    <3>4. CASE GetMShared(r)
      BY <1>2, <3>2, <3>4, NoForwardYet DEF GetMShared
    <3>5. CASE GetMModified(r)
      BY <1>2, <3>2, <3>5, NoForwardYet DEF GetMModified
    <3> QED
      BY <2>1, <3>3, <3>4, <3>5
  <2>2. CASE GetSInvalid(r) \/ GetSValid(r) \/ GetSShared(r) \/ GetMUncached(r)
    BY <1>1, <2>2 DEF GetSInvalid, GetSValid, GetSShared, GetMUncached
  <2>3. ASSUME NEW v \in Lines,
               ReplaceValid(r, v) \/ ReplaceShared(r, v) \/ ReplaceModified(r, v)
        PROVE  ForwardsFit'
    <3>1. CASE ReplaceValid(r, v)
      BY <1>1, <3>1 DEF ReplaceValid
    <3>2. CASE ReplaceShared(r, v)
      BY <1>2, <3>2, NoForwardYet DEF ReplaceShared
    <3>3. CASE ReplaceModified(r, v)
      BY <1>2, <3>3, NoForwardYet DEF ReplaceModified
    <3> QED
      BY <2>3, <3>1, <3>2, <3>3
  <2> QED
    BY <1>4, <2>1, <2>2, <2>3 DEF TakeRequest
<1>5. CASE WritebackStep \/ DirResponseStep
  BY <1>1, <1>5 DEF WritebackStep, PutMFromOwner, PutMFromNonOwner, PutS,
     DirResponseStep, ReceiveDataResp, ReceiveRespOk, ReceiveInvAck
<1>6. CASE UNCHANGED vars
  BY <1>1, <1>6 DEF vars, networks
<1> QED
  BY <1>3, <1>4, <1>5, <1>6 DEF Next, DirectoryStep, RequestStep

\* If forwards come before a core asks for a line again, none follows another to
\* the same core for the same line.
THEOREM ForwardsBounded ==
  ASSUME TimelyForwards
  PROVE  Spec => []ForwardsFit
<1>1. Init => ForwardsFit
  BY DEF Init, InterconnectInit, ForwardsFit
<1>2. CoherenceInv /\ ForwardsFit /\ [Next]_vars => ForwardsFit'
  BY ForwardsFitKept
<1> QED
  BY <1>1, <1>2, CoherenceInvariant, PTL DEF Spec

\* Responses on their way to one destination.
Responses(n) == {m \in rsp : m.dst = n}

\* To a core: one datum, and one acknowledgement from each other core.
LEMMA ResponsesToCore ==
  ASSUME CoherenceInv, RespOkToDirectory, NEW c \in Cores
  PROVE  Cardinality(Responses(c)) <= Cardinality(Cores)
<1> DEFINE mark(m) == IF m.type = "Data" THEN c ELSE m.sharer
           f == [m \in Responses(c) |-> mark(m)]
           a == pr[c].line
<1>1. Inv /\ (\A b \in Lines : HoldersInv(b)) /\ Directory \notin Cores /\ IsFiniteSet(Cores)
  BY ConstantsAssumption DEF CoherenceInv, LineInv
<1>2. \A m \in Responses(c) :
        /\ m \in rsp /\ m.dst = c /\ m.type \in {"Data", "Ack"} /\ m.addr \in Lines
        /\ HitPr(c, m.addr)
  <2> SUFFICES ASSUME NEW m \in Responses(c)
               PROVE  /\ m \in rsp /\ m.dst = c /\ m.type \in {"Data", "Ack"}
                      /\ m.addr \in Lines /\ HitPr(c, m.addr)
    OBVIOUS
  <2>1. m \in rsp /\ m.dst = c /\ m.type # "RespOk" /\ m.dst # Directory
    BY <1>1 DEF Responses, RespOkToDirectory
  <2>2. m.type \in {"Data", "Ack"} /\ m.addr \in Lines
    BY <1>1, <2>1 DEF Inv, InterconnectTypeOK, Response
  <2> QED
    BY <2>1, <2>2, ResponseMet DEF ResponseSpecified
<1>3. \A m \in Responses(c) : m.addr = a /\ a \in Lines /\ Pend(c, a) # None
  BY <1>2 DEF HitPr, Pend
<1> HIDE DEF a
<1>4. \A m \in Responses(c) : m.type = "Data" => Datas(c, a) = {m}
  <2> SUFFICES ASSUME NEW m \in Responses(c), m.type = "Data"
               PROVE  Datas(c, a) = {m}
    OBVIOUS
  <2>1. m \in Datas(c, a)
    BY <1>2, <1>3 DEF Datas
  <2> QED
    BY <1>1, <1>3, <2>1, DataRole
<1>5. \A m \in Responses(c) : m.type = "Ack" =>
        /\ m \in Acks(a) /\ AcksTo(c, a)
        /\ m.sharer \in Cores /\ m.sharer # c
  <2> SUFFICES ASSUME NEW m \in Responses(c), m.type = "Ack"
               PROVE  /\ m \in Acks(a) /\ AcksTo(c, a)
                      /\ m.sharer \in Cores /\ m.sharer # c
    OBVIOUS
  <2>1. m \in Acks(a) /\ m.dst = c /\ a \in Lines
    BY <1>2, <1>3 DEF Acks
  <2>2. /\ dir[a].st = "SM" /\ dir[a].owner = c
        /\ ~Owning(c, a) /\ ~Leaving(c, a, "PutM")
    BY <1>1, <2>1, AckRole
  <2>3. AcksTo(c, a) /\ m.sharer \in Debtors(c, a)
    BY <1>1, <2>1, <2>2, CollectingLine
  <2> QED
    BY <2>1, <2>3 DEF Debtors
<1>6. \A m \in Responses(c) : mark(m) \in Cores
  BY <1>2, <1>5
<1>7. \A m, k \in Responses(c) : mark(m) = mark(k) => m = k
  <2> SUFFICES ASSUME NEW m \in Responses(c), NEW k \in Responses(c), mark(m) = mark(k)
               PROVE  m = k
    OBVIOUS
  <2>1. CASE m.type = "Data" \/ k.type = "Data"
    <3>1. m.type = "Data" /\ k.type = "Data"
      BY <1>2, <1>5, <2>1
    <3>2. Datas(c, a) = {m} /\ Datas(c, a) = {k}
      BY <1>4, <3>1
    <3> QED
      BY <3>2
  <2>2. CASE m.type = "Ack" /\ k.type = "Ack"
    BY <1>5, <2>2 DEF AcksTo
  <2> QED
    BY <1>2, <2>1, <2>2
<1>8. f \in [Responses(c) -> Cores] /\ \A m, k \in Responses(c) : f[m] = f[k] => m = k
  BY <1>6, <1>7
<1> HIDE DEF f
<1> QED
  BY <1>1, <1>8, OneEach

\* What is on its way to the LLC about a line.
LEMMA AnswersOf ==
  ASSUME CoherenceInv, NEW a \in Lines, NEW x \in rsp, x.dst = Directory, x.addr = a
  PROVE  /\ dir[a].st \in DirBusy
         /\ \A m, k \in Datas(Directory, a) : m = k
         /\ \A m, k \in RespOks(a) : m = k
         /\ \/ dir[a].st \in {"MS_AD", "MI_AD"}
            \/ Datas(Directory, a) = {} \/ RespOks(a) = {}
         /\ \A m \in Acks(a) : m.dst = Directory =>
              AcksTo(Directory, a) /\ Datas(Directory, a) = {} /\ RespOks(a) = {}
<1>1. /\ HoldersInv(a) /\ Directory \notin Cores /\ dir[a].st \in DirStates
      /\ x.type \in {"Data", "Ack", "RespOk"}
  BY ConstantsAssumption DEF CoherenceInv, LineInv, Inv, LLCInv, LLCTypeOK, Entry,
     InterconnectTypeOK, Response
<1>2. x \in Datas(Directory, a) \/ x \in RespOks(a) \/ x \in Acks(a)
  BY <1>1 DEF Datas, RespOks, Acks
<1>3. \A n : HandedOver(n, a) => \A m, k \in Datas(n, a) : m = k
  BY DEF HandedOver
<1>4. RespOkDue(a) => \A m, k \in RespOks(a) : m = k
  BY DEF RespOkDue
<1>5. CASE dir[a].st \in {"I", "S", "M"}
  <2>1. Quiet(a)
    BY <1>1, <1>5 DEF HoldersInv, InvalidLine, SharedLine, ModifiedLine
  <2> QED
    BY <1>2, <2>1 DEF Quiet
<1>6. CASE dir[a].st = "SM"
  BY <1>1, <1>4, <1>6 DEF HoldersInv, UpgradedLine, Finished, AcksTo, DirBusy
<1>7. CASE dir[a].st = "MM"
  BY <1>1, <1>4, <1>7 DEF HoldersInv, HandedOverLine, Finished, DirBusy
<1>8. CASE dir[a].st \in {"MS_AD", "MS_A", "MS_D"}
  <2>1. PICK q \in Cores :
          \/ dir[a].st = "MS_AD" /\ Downgrading(a, q)
          \/ dir[a].st = "MS_AD" /\ Downgraded(a, q) /\ HandedOver(Directory, a)
          \/ dir[a].st = "MS_A" /\ Downgraded(a, q) /\ Datas(Directory, a) = {}
          \/ /\ dir[a].st = "MS_D" /\ Acks(a) = {} /\ RespOks(a) = {}
             /\ HandedOver(Directory, a)
    BY <1>1, <1>8 DEF HoldersInv, DowngradedLine
  <2>2. Downgrading(a, q) => Acks(a) = {} /\ RespOks(a) = {} /\ Datas(Directory, a) = {}
    BY DEF Downgrading, Quiet
  <2>3. Downgraded(a, q) => Acks(a) = {} /\ \A m, k \in RespOks(a) : m = k
    BY <1>4 DEF Downgraded
  <2> QED
    BY <1>3, <1>8, <2>1, <2>2, <2>3 DEF DirBusy
<1>9. CASE dir[a].st \in {"MI_AD", "MI_A", "MI_D", "MI_RespOk"}
  BY <1>1, <1>3, <1>4, <1>9 DEF HoldersInv, AbandonedLine, DirBusy
<1>10. CASE dir[a].st = "SI"
  BY <1>1, <1>10 DEF HoldersInv, RecalledLine, DirBusy
<1>11. CASE dir[a].st = "MI"
  BY <1>1, <1>3, <1>11 DEF HoldersInv, RecalledFromOwner, DirBusy
<1> QED
  BY <1>1, <1>5, <1>6, <1>7, <1>8, <1>9, <1>10, <1>11 DEF DirStates, DirStable, DirBusy

\* To the LLC: an acknowledgement from each sharer, or a datum and a RespOk, for
\* which there are two cores.
LEMMA ResponsesToDirectory ==
  ASSUME CoherenceInv, TwoCores
  PROVE  Cardinality(Responses(Directory)) <= Cardinality(Cores)
<1> DEFINE R == Responses(Directory)
<1>1. /\ Inv /\ IsFiniteSet(Cores) /\ Cardinality(Cores) \in Nat
      /\ \A m \in R : /\ m \in rsp /\ m.dst = Directory /\ m.addr \in Lines
                      /\ m.type \in {"Data", "Ack", "RespOk"}
  BY ConstantsAssumption, FS_CardinalityType
     DEF CoherenceInv, Inv, InterconnectTypeOK, Response, Responses
<1>2. CASE R = {}
  BY <1>1, <1>2, FS_EmptySet
<1>3. ASSUME NEW x \in R
      PROVE  Cardinality(R) <= Cardinality(Cores)
  <2> DEFINE a == x.addr
  <2>1. a \in Lines /\ \A m \in R : m.addr = a
    BY <1>1, AnswersOf DEF Inv, LLCInv, BlockingDiscipline
  <2> HIDE DEF a
  <2>2. \A m \in R : \/ m.type = "Data" /\ m \in Datas(Directory, a)
                     \/ m.type = "RespOk" /\ m \in RespOks(a)
                     \/ m.type = "Ack" /\ m \in Acks(a)
    BY <1>1, <2>1 DEF Datas, RespOks, Acks
  <2>3. /\ dir[a].st \in DirBusy
        /\ \A m, k \in Datas(Directory, a) : m = k
        /\ \A m, k \in RespOks(a) : m = k
        /\ \/ dir[a].st \in {"MS_AD", "MI_AD"}
           \/ Datas(Directory, a) = {} \/ RespOks(a) = {}
        /\ \A m \in Acks(a) : m.dst = Directory =>
             AcksTo(Directory, a) /\ Datas(Directory, a) = {} /\ RespOks(a) = {}
    BY <1>1, <1>3, <2>1, AnswersOf
  <2>4. ASSUME NEW f \in [R -> Cores], \A m, k \in R : f[m] = f[k] => m = k
        PROVE  Cardinality(R) <= Cardinality(Cores)
    BY <1>1, <2>4, OneEach
  <2>5. CASE \E y \in R : y.type = "Ack"
    <3> DEFINE f == [m \in R |-> m.sharer]
    <3>1. AcksTo(Directory, a) /\ \A m \in R : m \in Acks(a)
      BY <1>1, <2>2, <2>3, <2>5
    <3>2. f \in [R -> Cores] /\ \A m, k \in R : f[m] = f[k] => m = k
      BY <3>1 DEF AcksTo
    <3> HIDE DEF f
    <3> QED
      BY <2>4, <3>2
  <2>6. CASE \A y \in R : y.type # "Ack"
    <3>1. PICK c, d \in Cores : dir[a].st \in {"MS_AD", "MI_AD"} => c # d
      <4>1. pending # <<>>
        BY <1>1, <2>1, <2>3 DEF Inv, LLCInv, BlockingDiscipline
      <4>2. Head(pending).src \in Cores
        BY <1>1, <4>1, UnservedTypes DEF Request
      <4> QED
        BY <2>1, <4>2 DEF TwoCores
    <3> DEFINE mark(m) == IF m.type = "Data" THEN c ELSE d
               f == [m \in R |-> mark(m)]
    <3>2. \A m, k \in R : mark(m) = mark(k) => m = k
      BY <2>2, <2>3, <2>6, <3>1
    <3>3. f \in [R -> Cores] /\ \A m, k \in R : f[m] = f[k] => m = k
      BY <3>2
    <3> HIDE DEF f
    <3> QED
      BY <2>4, <3>3
  <2> QED
    BY <2>5, <2>6
<1> QED
  BY <1>2, <1>3

\* No more responses are on their way to a core or to the LLC than there are cores.
THEOREM ResponsesBounded ==
  ASSUME TimelyForwards
  PROVE  Spec => []ResponsesFit
<1>1. Init => RespOkToDirectory /\ TwoCores
  BY DEF Init, InterconnectInit, LLCInit, NoEntry, RespOkToDirectory, TwoCores
<1>2. RespOkToDirectory /\ [Next]_vars => RespOkToDirectory'
  BY NextRespOks
<1>3. CoherenceInv /\ TwoCores /\ [Next]_vars => TwoCores'
  BY NextTwoCores DEF CoherenceInv, Coherent
<1>4. CoherenceInv /\ RespOkToDirectory /\ TwoCores => ResponsesFit
  BY ResponsesToCore, ResponsesToDirectory DEF ResponsesFit, Responses, Nodes
<1> QED
  BY <1>1, <1>2, <1>3, <1>4, CoherenceInvariant, PTL DEF Spec
=============================================================================
