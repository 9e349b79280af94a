------------------------ MODULE CacheCoherenceProofs ------------------------
(***************************************************************************)
(* CoherenceInv through the steps of the caches.  A step that keeps the    *)
(* role of every core to a line, the directory's entry for it and the      *)
(* messages to the LLC keeps LineInv of the line, whatever else it does;   *)
(* roles are kept where the projections of the state on the core and the   *)
(* line are.  Each handler of a cache changes the role of its core to one  *)
(* line, as the entry of that line allows.                                 *)
(***************************************************************************)
EXTENDS Transactions, DittyProofs, FiniteSetTheorems

-----------------------------------------------------------------------------
(* Roles.                                                                  *)

\* What core d holds of line b, waits for and has sent about it stays.
SameCore(d, b) ==
  /\ tag'[d][b] = tag[d][b]
  /\ Pend(d, b)' = Pend(d, b)
  /\ Waiting(d, b)' <=> Waiting(d, b)
  /\ Wbs(d, b)' = Wbs(d, b)
  /\ Datas(d, b)' = Datas(d, b)

\* Core d is to line b what it was, or it evicted its copy.
Kept(d, b) ==
  /\ Absent(d, b)' <=> Absent(d, b)
  /\ Sharing(d, b) => Sharing(d, b)' \/ (Leaving(d, b, "PutS")' /\ Gone(d, b)')
  /\ Owning(d, b) => Owning(d, b)' \/ (Leaving(d, b, "PutM")' /\ Gone(d, b)')
  /\ \A type : Leaving(d, b, type) => Leaving(d, b, type)'
  /\ \A type, dest : OwningFor(d, b, type, dest) => OwningFor(d, b, type, dest)'
  /\ \A st : Expecting(d, b, st) => Expecting(d, b, st)'
  /\ \A st : Receiving(d, b, st) => Receiving(d, b, st)'
  /\ \A owed : Collecting(d, b, owed) => Collecting(d, b, owed)'

\* A core of which nothing changes for a line keeps its role.
LEMMA SameCoreKept ==
  ASSUME NEW d, NEW b, SameCore(d, b)
  PROVE  Kept(d, b)
<1>1. /\ Apart(d, b)' <=> Apart(d, b)
      /\ Granted(d, b)' <=> Granted(d, b)
      /\ HandedOver(d, b)' <=> HandedOver(d, b)
  BY DEF SameCore, Apart, Granted, HandedOver
<1>2. \A states : /\ Served(d, b, states)' <=> Served(d, b, states)
                  /\ Asking(d, b, states)' <=> Asking(d, b, states)
                  /\ PendingIn(d, b, states)' <=> PendingIn(d, b, states)
  BY DEF SameCore, Served, Asking, PendingIn
<1>3. Absent(d, b)' <=> Absent(d, b)
  BY <1>1, <1>2 DEF SameCore, Absent
<1>4. Sharing(d, b)' <=> Sharing(d, b)
  BY <1>1, <1>2 DEF SameCore, Sharing
<1>5. Owning(d, b)' <=> Owning(d, b)
  BY <1>1, <1>2 DEF SameCore, Owning
<1>6. \A type : Leaving(d, b, type)' <=> Leaving(d, b, type)
  BY <1>1, <1>2 DEF SameCore, Leaving
<1>7. \A type, dest : OwningFor(d, b, type, dest)' <=> OwningFor(d, b, type, dest)
  BY <1>1, <1>2 DEF SameCore, OwningFor
<1>8. \A owed : Collecting(d, b, owed)' <=> Collecting(d, b, owed)
  BY <1>1, <1>2 DEF SameCore, Collecting
<1>9. \A st : /\ Expecting(d, b, st)' <=> Expecting(d, b, st)
              /\ Receiving(d, b, st)' <=> Receiving(d, b, st)
  BY <1>1, <1>2 DEF SameCore, Expecting, Receiving
<1> QED
  BY <1>3, <1>4, <1>5, <1>6, <1>7, <1>8, <1>9 DEF Kept

\* A core that holds the line, is to get it, or gave it up is not absent; one
\* that holds it is not gone.
LEMMA RolesExclude ==
  ASSUME NEW d, NEW b
  PROVE  /\ Sharing(d, b) => ~Absent(d, b) /\ ~Gone(d, b)
         /\ Owning(d, b) => ~Absent(d, b) /\ ~Gone(d, b)
         /\ \A type : Leaving(d, b, type) => ~Absent(d, b)
         /\ \A owed : Collecting(d, b, owed) => ~Absent(d, b)
<1>1. Sharing(d, b) => ~Absent(d, b) /\ ~Gone(d, b)
  BY DEF Sharing, Absent, Gone, Apart, Asking, Served, PendingIn, Granted
<1>2. Owning(d, b) => ~Absent(d, b) /\ ~Gone(d, b)
  BY DEF Owning, Absent, Gone, Apart, Asking, Served, PendingIn, Granted
<1>3. \A type : Leaving(d, b, type) => ~Absent(d, b)
  BY DEF Leaving, Absent
<1>4. \A owed : Collecting(d, b, owed) => ~Absent(d, b)
  BY DEF Collecting, Absent, Apart, Asking, PendingIn, AwaitingData, AwaitingAcks
<1> QED
  BY <1>1, <1>2, <1>3, <1>4

-----------------------------------------------------------------------------
(* Lines.                                                                  *)

\* The directory's entry, what is on its way to the LLC and the
\* acknowledgements stay.
LineSteady(b) ==
  /\ dir'[b] = dir[b]
  /\ Acks(b)' = Acks(b)
  /\ RespOks(b)' = RespOks(b)
  /\ Datas(Directory, b)' = Datas(Directory, b)
  /\ dir[b].st \in DirBusy => pending' = pending

\* Of the forwards only those may go that found their core gone.
ForwardsStay(b) ==
  \A m \in Fwds(b) : m \in Fwds(b)' \/ Gone(m.dst, b)

\* The parts of LineInv that speak of sharers and owners.
LEMMA PartsKept ==
  ASSUME NEW b \in Lines, LineSteady(b), ForwardsStay(b),
         \A d \in Cores : Kept(d, b)
  PROVE  /\ \A d \in Cores : Keeping(d, b) => Keeping(d, b)'
         /\ \A d \in Cores : Possessing(d, b) => Possessing(d, b)'
         /\ \A d \in Cores : \A n : Owing(d, b, n) => Owing(d, b, n)'
         /\ \A d \in Cores : \A type, n : Giving(d, b, type, n) => Giving(d, b, type, n)'
         /\ \A holders : OthersAbsent(b, holders) => OthersAbsent(b, holders)'
         /\ Quiet(b) => Quiet(b)'
         /\ \A d \in Cores : Finished(b, d) => Finished(b, d)'
         /\ \A n : AcksTo(n, b) => AcksTo(n, b)'
         /\ \A d : Debtors(d, b)' = Debtors(d, b)
<1>1. /\ \A d \in Cores : Keeping(d, b) => Keeping(d, b)'
      /\ \A d \in Cores : Possessing(d, b) => Possessing(d, b)'
  BY DEF Kept, Keeping, Possessing
<1>2. \A d \in Cores : \A n : Owing(d, b, n) => Owing(d, b, n)'
  <2> SUFFICES ASSUME NEW d \in Cores, NEW n, Owing(d, b, n)
               PROVE  Owing(d, b, n)'
    OBVIOUS
  <2>1. CASE Leaving(d, b, "PutS")
    BY <2>1 DEF Kept, Owing
  <2>2. CASE Sharing(d, b) /\ ForwardMessage("Inv", b, d, n) \in Fwds(b)
    <3>1. ForwardMessage("Inv", b, d, n).dst = d
      BY DEF ForwardMessage
    <3>2. ForwardMessage("Inv", b, d, n) \in Fwds(b)'
      BY <2>2, <3>1, RolesExclude DEF ForwardsStay
    <3> QED
      BY <2>2, <3>2 DEF Kept, Owing
  <2> QED
    BY <2>1, <2>2 DEF Owing
<1>3. \A d \in Cores : \A type, n : Giving(d, b, type, n) => Giving(d, b, type, n)'
  <2> SUFFICES ASSUME NEW d \in Cores, NEW type, NEW n, Giving(d, b, type, n)
               PROVE  Giving(d, b, type, n)'
    OBVIOUS
  <2>1. CASE Leaving(d, b, "PutM") \/ OwningFor(d, b, type, n)
    BY <2>1 DEF Kept, Giving
  <2>2. CASE Owning(d, b) /\ ForwardMessage(type, b, d, n) \in Fwds(b)
    <3>1. ForwardMessage(type, b, d, n).dst = d
      BY DEF ForwardMessage
    <3>2. ForwardMessage(type, b, d, n) \in Fwds(b)'
      BY <2>2, <3>1, RolesExclude DEF ForwardsStay
    <3> QED
      BY <2>2, <3>2 DEF Kept, Giving
  <2> QED
    BY <2>1, <2>2 DEF Giving
<1>4. \A holders : OthersAbsent(b, holders) => OthersAbsent(b, holders)'
  BY DEF OthersAbsent, Kept
<1>5. Quiet(b) => Quiet(b)'
  BY DEF Quiet, LineSteady
<1>6. \A d \in Cores : Finished(b, d) => Finished(b, d)'
  BY <1>1, <1>4 DEF Finished, RespOkDue, LineSteady
<1>7. \A n : AcksTo(n, b) => AcksTo(n, b)'
  BY DEF AcksTo, LineSteady, Kept
<1>8. \A d : Debtors(d, b)' = Debtors(d, b)
  BY DEF Debtors, LineSteady, Kept
<1> QED
  BY <1>1, <1>2, <1>3, <1>4, <1>5, <1>6, <1>7, <1>8

\* If every core keeps its role, the line keeps its holders.
LEMMA HoldersKept ==
  ASSUME Inv, NEW b \in Lines, LineSteady(b), ForwardsStay(b),
         \A d \in Cores : Kept(d, b), HoldersInv(b)
  PROVE  HoldersInv(b)'
<1> DEFINE st == dir[b].st
<1>1. /\ dir[b] \in Entry
      /\ dir'[b] = dir[b]
      /\ st \in {"M", "MM", "SM", "MI"} => dir[b].owner \in Cores
      /\ \A c \in dir[b].sharers : c \in Cores
  BY DEF Inv, LLCInv, LLCTypeOK, OwnerKnown, LineSteady, Entry
<1>2. /\ st \in DirBusy => pending' = pending
      /\ RespOkDue(b)' <=> RespOkDue(b)
      /\ HandedOver(Directory, b)' <=> HandedOver(Directory, b)
      /\ st \in DirBusy => (MakingRoom(b)' <=> MakingRoom(b))
      /\ \A c, type : st \in DirBusy => (InService(b, c, type)' <=> InService(b, c, type))
  BY DEF LineSteady, RespOkDue, HandedOver, MakingRoom, InService
<1>3. CASE st = "I"
  <2>1. InvalidLine(b)'
    BY <1>3, PartsKept DEF HoldersInv, InvalidLine
  <2> QED
    BY <1>1, <1>3, <2>1 DEF HoldersInv
<1>4. CASE st = "S"
  <2>1. SharedLine(b)'
    BY <1>1, <1>4, PartsKept DEF HoldersInv, SharedLine
  <2> QED
    BY <1>1, <1>4, <2>1 DEF HoldersInv
<1>5. CASE st = "M"
  <2>1. ModifiedLine(b)'
    BY <1>1, <1>5, PartsKept DEF HoldersInv, ModifiedLine
  <2> QED
    BY <1>1, <1>5, <2>1 DEF HoldersInv
<1>6. CASE st = "SM"
  <2> SUFFICES UpgradedLine(b)'
    BY <1>1, <1>6 DEF HoldersInv
  <2>1. PICK q \in Cores :
          /\ InService(b, q, "GetM")
          /\ dir[b].owner = q
          /\ dir[b].sharers = {q}
          /\ \/ /\ RespOks(b) = {}
                /\ Collecting(q, b, Cardinality(Debtors(q, b)))
                /\ AcksTo(q, b)
                /\ \A c \in Cores \ {q} : Absent(c, b) \/ Owing(c, b, q)
             \/ Finished(b, q)
    BY <1>6 DEF HoldersInv, UpgradedLine
  <2>2. /\ InService(b, q, "GetM")'
        /\ dir'[b].owner = q
        /\ dir'[b].sharers = {q}
        /\ Datas(Directory, b)' = {}
    BY <1>1, <1>2, <1>6, <2>1 DEF HoldersInv, UpgradedLine, LineSteady, DirBusy
  <2>3. CASE Finished(b, q)
    BY <2>2, <2>3, PartsKept DEF UpgradedLine
  <2>4. CASE /\ RespOks(b) = {}
             /\ Collecting(q, b, Cardinality(Debtors(q, b)))
             /\ AcksTo(q, b)
             /\ \A c \in Cores \ {q} : Absent(c, b) \/ Owing(c, b, q)
    <3>1. Debtors(q, b)' = Debtors(q, b)
      BY PartsKept
    <3>2. Collecting(q, b, Cardinality(Debtors(q, b)))'
      BY <2>4, <3>1 DEF Kept
    <3>3. AcksTo(q, b)' /\ RespOks(b)' = {}
      BY <2>4, PartsKept DEF LineSteady
    <3>4. \A c \in Cores \ {q} : Absent(c, b)' \/ Owing(c, b, q)'
      BY <2>4, PartsKept DEF Kept
    <3> QED
      BY <2>2, <3>2, <3>3, <3>4 DEF UpgradedLine
  <2> QED
    BY <2>1, <2>3, <2>4
<1>7. CASE st = "MM"
  <2> SUFFICES HandedOverLine(b)'
    BY <1>1, <1>7 DEF HoldersInv
  <2>1. PICK q \in Cores :
          /\ InService(b, q, "GetM")
          /\ dir[b].owner = q
          /\ dir[b].sharers = {q}
          /\ \/ /\ Acks(b) = {}
                /\ RespOks(b) = {}
                /\ \E o \in Cores \ {q} :
                     /\ OthersAbsent(b, {q, o})
                     /\ \/ Expecting(q, b, "IM_AD") /\ Giving(o, b, "GetM", q)
                        \/ Receiving(q, b, "IM_AD") /\ Absent(o, b)
             \/ Finished(b, q)
    BY <1>7 DEF HoldersInv, HandedOverLine
  <2>2. /\ InService(b, q, "GetM")'
        /\ dir'[b].owner = q
        /\ dir'[b].sharers = {q}
        /\ Datas(Directory, b)' = {}
    BY <1>1, <1>2, <1>7, <2>1 DEF HoldersInv, HandedOverLine, LineSteady, DirBusy
  <2>3. CASE Finished(b, q)
    BY <2>2, <2>3, PartsKept DEF HandedOverLine
  <2>4. ASSUME Acks(b) = {}, RespOks(b) = {}, NEW o \in Cores \ {q},
               OthersAbsent(b, {q, o}),
               \/ Expecting(q, b, "IM_AD") /\ Giving(o, b, "GetM", q)
               \/ Receiving(q, b, "IM_AD") /\ Absent(o, b)
        PROVE  HandedOverLine(b)'
    <3>1. Acks(b)' = {} /\ RespOks(b)' = {}
      BY <2>4 DEF LineSteady
    <3>2. OthersAbsent(b, {q, o})'
      BY <2>4, PartsKept
    <3>3. \/ Expecting(q, b, "IM_AD")' /\ Giving(o, b, "GetM", q)'
          \/ Receiving(q, b, "IM_AD")' /\ Absent(o, b)'
      BY <2>4, PartsKept DEF Kept
    <3> QED
      BY <2>2, <3>1, <3>2, <3>3 DEF HandedOverLine
  <2> QED
    BY <2>1, <2>3, <2>4
<1>8. CASE st \in {"MS_AD", "MS_A", "MS_D"}
  <2> SUFFICES DowngradedLine(b)'
    BY <1>1, <1>8 DEF HoldersInv
  <2>1. PICK q \in Cores :
          /\ InService(b, q, "GetS")
          /\ CASE st = "MS_AD" -> \/ Downgrading(b, q)
                                  \/ Downgraded(b, q) /\ HandedOver(Directory, b)
               [] st = "MS_A" -> Downgraded(b, q) /\ Datas(Directory, b) = {}
               [] st = "MS_D" -> /\ Acks(b) = {}
                                 /\ RespOks(b) = {}
                                 /\ HandedOver(Directory, b)
                                 /\ dir[b].sharers # {}
                                 /\ \A c \in dir[b].sharers : Keeping(c, b)
                                 /\ OthersAbsent(b, dir[b].sharers)
    BY <1>8 DEF HoldersInv, DowngradedLine
  <2>5. InService(b, q, "GetS")'
    BY <1>2, <1>8, <2>1 DEF DirBusy
  <2>2. Downgrading(b, q) => Downgrading(b, q)'
    <3> SUFFICES ASSUME Downgrading(b, q) PROVE Downgrading(b, q)'
      OBVIOUS
    <3>1. Quiet(b)' /\ dir'[b].owner = None /\ Expecting(q, b, "IS_D")'
      BY <1>1, PartsKept DEF Downgrading, Kept
    <3>2. PICK o \in Cores \ {q} : /\ dir[b].sharers = {o, q}
                                   /\ Giving(o, b, "GetS", q)
                                   /\ OthersAbsent(b, {o, q})
      BY DEF Downgrading
    <3>3. dir'[b].sharers = {o, q} /\ Giving(o, b, "GetS", q)' /\ OthersAbsent(b, {o, q})'
      BY <1>1, <3>2, PartsKept
    <3> QED
      BY <3>1, <3>3 DEF Downgrading
  <2>3. Downgraded(b, q) => Downgraded(b, q)'
    <3> SUFFICES ASSUME Downgraded(b, q) PROVE Downgraded(b, q)'
      OBVIOUS
    <3>1. /\ Acks(b)' = {}
          /\ dir'[b].sharers # {}
          /\ OthersAbsent(b, dir[b].sharers)'
      BY <1>1, PartsKept DEF Downgraded, LineSteady
    <3>2. CASE /\ RespOks(b) = {}
               /\ Receiving(q, b, "IS_D")
               /\ q \in dir[b].sharers
               /\ \A c \in dir[b].sharers \ {q} : Keeping(c, b)
      <4>1. /\ RespOks(b)' = {}
            /\ Receiving(q, b, "IS_D")'
            /\ \A c \in dir'[b].sharers \ {q} : Keeping(c, b)'
        BY <1>1, <2>1, <3>2, PartsKept DEF LineSteady, Kept
      <4> QED
        BY <1>1, <2>1, <3>1, <3>2, <4>1 DEF Downgraded
    <3>3. CASE RespOkDue(b) /\ \A c \in dir[b].sharers : Keeping(c, b)
      <4>1. RespOkDue(b)' /\ \A c \in dir'[b].sharers : Keeping(c, b)'
        BY <1>1, <1>2, <3>3, PartsKept
      <4> QED
        BY <1>1, <2>1, <3>1, <4>1 DEF Downgraded
    <3> QED
      BY <3>2, <3>3 DEF Downgraded
  <2>6. CASE st = "MS_AD"
    BY <1>1, <1>2, <2>1, <2>5, <2>2, <2>3, <2>6 DEF DowngradedLine
  <2>7. CASE st = "MS_A"
    <3>1. Datas(Directory, b)' = {} /\ Downgraded(b, q)'
      BY <2>1, <2>3, <2>7 DEF LineSteady
    <3> QED
      BY <1>1, <2>5, <2>7, <3>1 DEF DowngradedLine
  <2>8. CASE st = "MS_D"
    <3>1. /\ Acks(b)' = {}
          /\ RespOks(b)' = {}
          /\ HandedOver(Directory, b)'
          /\ dir'[b].sharers # {}
          /\ \A c \in dir'[b].sharers : Keeping(c, b)'
          /\ OthersAbsent(b, dir[b].sharers)'
      BY <1>1, <1>2, <2>1, <2>8, PartsKept DEF LineSteady
    <3> QED
      BY <1>1, <2>5, <2>8, <3>1 DEF DowngradedLine
  <2> QED
    BY <1>8, <2>6, <2>7, <2>8
<1>9. CASE st \in {"MI_AD", "MI_A", "MI_D", "MI_RespOk"}
  <2>1. AbandonedLine(b)'
    BY <1>1, <1>2, <1>9, PartsKept DEF HoldersInv, AbandonedLine, LineSteady, DirBusy
  <2> QED
    BY <1>1, <1>9, <2>1 DEF HoldersInv
<1>10. CASE st = "SI"
  <2>1. RecalledLine(b)
    BY <1>10 DEF HoldersInv
  <2>2. /\ MakingRoom(b)' /\ RespOks(b)' = {} /\ Datas(Directory, b)' = {}
        /\ dir'[b].sharers # {} /\ AcksTo(Directory, b)'
        /\ \A m \in Acks(b)' : m.src = m.sharer /\ m.sharer \in dir'[b].sharers
        /\ OthersAbsent(b, dir[b].sharers)'
    BY <1>1, <1>2, <1>10, <2>1, PartsKept DEF RecalledLine, LineSteady, DirBusy
  <2>3. \A c \in dir'[b].sharers : \/ Owing(c, b, Directory)'
                                   \/ \E m \in Acks(b)' : m.sharer = c
    BY <1>1, <2>1, PartsKept DEF RecalledLine, LineSteady
  <2>4. RecalledLine(b)'
    BY <1>1, <2>2, <2>3 DEF RecalledLine
  <2> QED
    BY <1>1, <1>10, <2>4 DEF HoldersInv
<1>11. CASE st = "MI"
  <2>1. RecalledFromOwner(b) /\ dir[b].owner \in Cores
    BY <1>1, <1>11 DEF HoldersInv
  <2>2. RecalledFromOwner(b)'
    BY <1>1, <1>2, <1>11, <2>1, PartsKept DEF RecalledFromOwner, LineSteady, DirBusy, Kept
  <2> QED
    BY <1>1, <1>11, <2>2 DEF HoldersInv
<1> QED
  BY <1>1, <1>3, <1>4, <1>5, <1>6, <1>7, <1>8, <1>9, <1>10, <1>11
     DEF Entry, DirStates, DirStable, DirBusy

\* If the forwards that found their core gone still do, and none is new, the
\* others are still those of the transaction in progress.
LEMMA ForwardsKept ==
  ASSUME Inv, NEW b \in Lines, LineSteady(b), Fwds(b)' \subseteq Fwds(b),
         \A d \in Cores : Kept(d, b),
         \A d \in Cores : Gone(d, b) /\ (\E m \in Fwds(b) : m.dst = d) => Gone(d, b)',
         ForwardsInv(b)
  PROVE  ForwardsInv(b)'
<1>1. \A m \in Fwds(b) : m \in Forward /\ m.dst \in Cores
  BY DEF Inv, InterconnectTypeOK, Fwds, Forward
<1>2. /\ dir'[b] = dir[b]
      /\ dir[b].st \in DirBusy => pending' = pending
      /\ Recipients(b)' = Recipients(b)
  BY DEF LineSteady, Recipients, DirBusy
<1> SUFFICES ASSUME NEW m \in Fwds(b)'
             PROVE  (Stale(m, b)' \/ Live(m, b)') /\ m.dst \notin Recipients(b)'
  BY DEF ForwardsInv
<1>3. m \in Fwds(b) /\ m.dst \in Cores
  BY <1>1
<1>4. (Stale(m, b) \/ Live(m, b)) /\ m.dst \notin Recipients(b)
  BY <1>3 DEF ForwardsInv
<1>5. Stale(m, b) => Stale(m, b)'
  BY <1>3 DEF Stale
<1>6. Live(m, b) => Live(m, b)' \/ Stale(m, b)'
  BY <1>2, <1>3 DEF Live, Stale, Kept, DirBusy
<1> QED
  BY <1>2, <1>4, <1>5, <1>6

\* Together: what a step may do without disturbing a line.
LEMMA LineKept ==
  ASSUME Inv, NEW b \in Lines, LineSteady(b), ForwardsStay(b),
         Fwds(b)' \subseteq Fwds(b),
         \A d \in Cores : Kept(d, b),
         \A d \in Cores : Gone(d, b) /\ (\E m \in Fwds(b) : m.dst = d) => Gone(d, b)',
         LineInv(b)
  PROVE  LineInv(b)'
BY HoldersKept, ForwardsKept DEF LineInv

\* A line of which nothing changes.
SameLine(b) ==
  /\ LineSteady(b)
  /\ Fwds(b)' = Fwds(b)
  /\ \A d \in Cores : SameCore(d, b)

\* A line of which nothing changes keeps LineInv.
LEMMA SameLineKept ==
  ASSUME Inv, NEW b \in Lines, SameLine(b), LineInv(b)
  PROVE  LineInv(b)'
<1>1. \A d \in Cores : Kept(d, b)
  BY SameCoreKept DEF SameLine
<1>2. \A d \in Cores : Gone(d, b) => Gone(d, b)'
  BY DEF SameLine, SameCore, Gone
<1>3. LineSteady(b) /\ ForwardsStay(b) /\ Fwds(b)' \subseteq Fwds(b)
  BY DEF SameLine, ForwardsStay
<1> QED
  BY <1>1, <1>2, <1>3, LineKept

-----------------------------------------------------------------------------
(* Messages.                                                               *)

\* Nothing about line b on the response network changes.
SameResponses(b) ==
  /\ \A n : Datas(n, b)' = Datas(n, b)
  /\ Acks(b)' = Acks(b)
  /\ RespOks(b)' = RespOks(b)

\* Without a message sent or received every line has the responses it had.
LEMMA ResponsesUnchanged ==
  ASSUME NEW b, UNCHANGED rsp
  PROVE  SameResponses(b)
BY DEF SameResponses, Datas, Acks, RespOks

\* Responses about line a taken and sent do not concern another line.
LEMMA ResponsesElsewhere ==
  ASSUME NEW a, NEW taken, NEW sent, rsp' = (rsp \ taken) \cup sent,
         \A m \in taken \cup sent : m.addr = a, NEW b, b # a
  PROVE  SameResponses(b)
BY DEF SameResponses, Datas, Acks, RespOks

\* Nor do forwards.
LEMMA ForwardsElsewhere ==
  ASSUME NEW a, NEW taken, NEW sent, fwd' = (fwd \ taken) \cup sent,
         \A m \in taken \cup sent : m.addr = a, NEW b, b # a
  PROVE  Fwds(b)' = Fwds(b)
BY DEF Fwds

\* The messages about a line by kind, when one is taken and others sent.
LEMMA ResponsesByKind ==
  ASSUME NEW a, NEW taken, NEW sent, rsp' = (rsp \ taken) \cup sent
  PROVE  /\ \A n : Datas(n, a)' = (Datas(n, a) \ taken) \cup
                {m \in sent : m.type = "Data" /\ m.dst = n /\ m.addr = a}
         /\ Acks(a)' = (Acks(a) \ taken) \cup
                {m \in sent : m.type = "Ack" /\ m.addr = a}
         /\ RespOks(a)' = (RespOks(a) \ taken) \cup
                {m \in sent : /\ m.type = "RespOk"
                              /\ m.dst = Directory
                              /\ m.addr = a}
BY DEF Datas, Acks, RespOks

\* The pending-request register of c is for line a, before and after.
LEMMA PendWritten ==
  ASSUME CacheInv, NEW c \in Cores, NEW a \in Lines, NEW p,
         pr' = [pr EXCEPT ![c] = p],
         pr[c] # None => pr[c].line = a,
         p # None => p.line = a
  PROVE  /\ Pend(c, a) = pr[c]
         /\ Pend(c, a)' = p
         /\ \A d \in Cores : \A b : d # c \/ b # a => Pend(d, b)' = Pend(d, b)
BY DEF CacheInv, CacheTypeOK, Pend, HitPr

\* A line is not in the tag array and pending at once; a line that a pending
\* request is for has a state among the transient ones.
LEMMA LineFacts ==
  ASSUME Inv, NEW c \in Cores, NEW a \in Lines
  PROVE  /\ tag[c][a] \in {"I", "S", "M"}
         /\ tag[c][a] # "I" => Pend(c, a) = None
         /\ Pend(c, a) # None =>
              /\ pr[c] # None /\ pr[c].line = a /\ Pend(c, a) = pr[c]
              /\ Pend(c, a) \in PendingRequest
         /\ State(c, a) = IF tag[c][a] # "I" THEN tag[c][a]
                          ELSE IF Pend(c, a) # None THEN Pend(c, a).st ELSE "I"
BY DEF Inv, CacheInv, CacheTypeOK, HitExclusive, Hit, HitPr, Pend, State,
       StableStates

-----------------------------------------------------------------------------
(* Roles, continued.                                                       *)

\* The roles of a core that has a copy, or is to have one, exclude each other.
LEMMA HoldersExclude ==
  ASSUME NEW d, NEW b
  PROVE  /\ Owning(d, b) => ~Sharing(d, b)
         /\ \A st : Expecting(d, b, st) \/ Receiving(d, b, st) =>
              ~Sharing(d, b) /\ ~Owning(d, b) /\ ~Absent(d, b)
         /\ \A type : Leaving(d, b, type) => ~Sharing(d, b) /\ ~Owning(d, b)
         /\ \A owed : Collecting(d, b, owed) => ~Sharing(d, b) /\ ~Owning(d, b)
         /\ \A type, dest : OwningFor(d, b, type, dest) =>
              /\ ~Absent(d, b) /\ ~Sharing(d, b) /\ ~Owning(d, b)
              /\ \A t : ~Leaving(d, b, t)
              /\ \A owed : ~Collecting(d, b, owed)
              /\ \A st \in {"IS_D", "IM_AD"} :
                   ~Expecting(d, b, st) /\ ~Receiving(d, b, st)
              /\ \A n : OwningFor(d, b, type, n) => n = dest
              /\ type = "GetS" => \A n : ~OwningFor(d, b, "GetM", n)
              /\ type = "GetM" => \A n : ~OwningFor(d, b, "GetS", n)
<1>1. Owning(d, b) => ~Sharing(d, b)
  BY DEF Owning, Sharing, Served, PendingIn, Asking
<1>2. \A type : Leaving(d, b, type) => ~Sharing(d, b) /\ ~Owning(d, b)
  BY DEF Leaving, Owning, Sharing, Served
<1>3. \A owed : Collecting(d, b, owed) => ~Sharing(d, b) /\ ~Owning(d, b)
  <2> SUFFICES ASSUME NEW owed, Collecting(d, b, owed)
               PROVE  ~Sharing(d, b) /\ ~Owning(d, b)
    OBVIOUS
  <2>1. ~Sharing(d, b)
    BY DEF Collecting, Sharing, Served, PendingIn, Asking, Apart
  <2>2. ~Owning(d, b)
    BY DEF Collecting, Owning, Served, PendingIn, Granted
  <2> QED
    BY <2>1, <2>2
<1>4. \A st : Expecting(d, b, st) \/ Receiving(d, b, st) =>
        ~Sharing(d, b) /\ ~Owning(d, b) /\ ~Absent(d, b)
  BY DEF Expecting, Receiving, Absent, HandedOver, Owning, Sharing, Served, PendingIn,
         Asking, Granted, Apart
<1>5. \A type, dest : OwningFor(d, b, type, dest) =>
        /\ ~Absent(d, b) /\ ~Sharing(d, b) /\ ~Owning(d, b)
        /\ \A t : ~Leaving(d, b, t)
  BY DEF OwningFor, Absent, Sharing, Owning, Leaving, Served, PendingIn, Asking,
         Apart
<1>6. \A type, dest : OwningFor(d, b, type, dest) =>
        /\ \A owed : ~Collecting(d, b, owed)
        /\ \A st \in {"IS_D", "IM_AD"} :
             ~Expecting(d, b, st) /\ ~Receiving(d, b, st)
  BY DEF OwningFor, Collecting, Expecting, Receiving, Served, PendingIn
<1>7. \A type, dest : OwningFor(d, b, type, dest) =>
        /\ \A n : OwningFor(d, b, type, n) => n = dest
        /\ type = "GetS" => \A n : ~OwningFor(d, b, "GetM", n)
        /\ type = "GetM" => \A n : ~OwningFor(d, b, "GetS", n)
  BY DEF OwningFor, Served, PendingIn
<1> QED
  BY <1>1, <1>2, <1>3, <1>4, <1>5, <1>6, <1>7

\* What a core can be to a line, wherever the line is.
LEMMA SomeRole ==
  ASSUME Inv, NEW a \in Lines, HoldersInv(a), NEW c \in Cores
  PROVE  \/ Absent(c, a) \/ Sharing(c, a) \/ Owning(c, a)
         \/ Leaving(c, a, "PutS") \/ Leaving(c, a, "PutM")
         \/ \E type \in {"GetS", "GetM"}, n \in Nodes : OwningFor(c, a, type, n)
         \/ /\ dir[a].st = "SM"
            /\ dir[a].owner = c
            /\ Collecting(c, a, Cardinality(Debtors(c, a)))
         \/ /\ dir[a].st = "MM"
            /\ dir[a].owner = c
            /\ Expecting(c, a, "IM_AD") \/ Receiving(c, a, "IM_AD")
         \/ /\ dir[a].st \in {"MS_AD", "MS_A"}
            /\ InService(a, c, "GetS")
            /\ Expecting(c, a, "IS_D") \/ Receiving(c, a, "IS_D")
<1> DEFINE st == dir[a].st
<1>1. dir[a] \in Entry /\ Directory \in Nodes /\ Cores \subseteq Nodes
  BY DEF Inv, LLCInv, LLCTypeOK, Nodes
<1>2. CASE st \in {"I", "S", "M", "MI_AD", "MI_A", "MI_D", "MI_RespOk"}
  BY <1>1, <1>2
     DEF HoldersInv, InvalidLine, SharedLine, ModifiedLine, AbandonedLine,
         OthersAbsent, Keeping, Possessing
<1>3. CASE st = "SM"
  BY <1>1, <1>3
     DEF HoldersInv, UpgradedLine, Finished, OthersAbsent, Possessing, Owing
<1>4. CASE st = "MM"
  BY <1>1, <1>4
     DEF HoldersInv, HandedOverLine, Finished, OthersAbsent, Possessing, Giving
<1>5. CASE st \in {"MS_AD", "MS_A", "MS_D"}
  <2>1. PICK q \in Cores :
          /\ InService(a, q, "GetS")
          /\ st = "MS_AD" => Downgrading(a, q) \/ Downgraded(a, q)
          /\ st = "MS_A" => Downgraded(a, q)
          /\ st = "MS_D" => /\ \A d \in dir[a].sharers : Keeping(d, a)
                            /\ OthersAbsent(a, dir[a].sharers)
    BY <1>5 DEF HoldersInv, DowngradedLine
  <2>2. CASE st = "MS_D"
    BY <2>1, <2>2 DEF Keeping, OthersAbsent
  <2>3. CASE st \in {"MS_AD", "MS_A"} /\ Downgraded(a, q)
    BY <2>1, <2>3 DEF Downgraded, Keeping, OthersAbsent
  <2>4. CASE st = "MS_AD" /\ Downgrading(a, q)
    BY <1>1, <2>1, <2>4 DEF Downgrading, Giving, OthersAbsent
  <2> QED
    BY <1>5, <2>1, <2>2, <2>3, <2>4
<1>6. CASE st = "SI"
  BY <1>1, <1>6
     DEF HoldersInv, RecalledLine, OthersAbsent, Owing, AcksTo
<1>7. CASE st = "MI"
  BY <1>1, <1>7 DEF HoldersInv, RecalledFromOwner, OthersAbsent, Giving
<1> QED
  BY <1>1, <1>2, <1>3, <1>4, <1>5, <1>6, <1>7
     DEF Entry, DirStates, DirStable, DirBusy

\* A held line is shared or owned, and nothing about it is on its way to or
\* from the core but forwards.
LEMMA HeldRole ==
  ASSUME Inv, NEW a \in Lines, HoldersInv(a), NEW c \in Cores, tag[c][a] # "I"
  PROVE  /\ Wbs(c, a) = {} /\ Apart(c, a)
         /\ tag[c][a] = "S" => Sharing(c, a)
         /\ tag[c][a] = "M" => Owning(c, a)
BY SomeRole, LineFacts
   DEF Absent, Sharing, Owning, Leaving, OwningFor, Collecting, Expecting,
       Receiving, Served

-----------------------------------------------------------------------------
(* Core requests.                                                          *)

\* The requests not served yet are requests of known cores for known lines.
LEMMA UnservedTypes ==
  ASSUME Inv
  PROVE  /\ \A r \in Unserved : r \in Request /\ r.src \in Cores /\ r.addr \in Lines
         /\ pending # <<>> => Head(pending) \in Request
<1>1. pending # <<>> => Head(pending) \in Request
  BY PendingStream DEF Inv, LLCInv, LLCTypeOK, BlockingDiscipline
<1> QED
  BY <1>1 DEF Inv, InterconnectTypeOK, Unserved, SetAside, Request

\* A core without a pending request has none that is not served.
LEMMA IdleAsksNothing ==
  ASSUME Inv, RequestsInv, NEW c \in Cores, pr[c] = None
  PROVE  /\ \A b : Pend(c, b) = None /\ ~Waiting(c, b)
         /\ \A r \in Unserved : r.src # c
<1>1. \A b : Pend(c, b) = None
  BY DEF Pend, HitPr
<1> QED
  BY <1>1 DEF RequestsInv, Waiting

\* A new request of an idle core.
LEMMA RequestIssued ==
  ASSUME Inv, RequestsInv, NEW c \in Cores, NEW a \in Lines, Idle(c),
         NEW op, NEW d, NEW st \in {"IS_D", "IM_AD", "SM_AD"},
         NEW type \in {"GetS", "GetM"}, (type = "GetS") <=> (st = "IS_D"),
         NEW victim, victim # a,
         Issue(c, a, op, d, st, type, victim),
         UNCHANGED llcVars
  PROVE  /\ pr[c] = None
         /\ Gone(c, a) <=> tag[c][a] = "I"
         /\ ~Waiting(c, a) /\ Waiting(c, a)'
         /\ \A states : st \in states /\ Datas(c, a)' = {} => Asking(c, a, states)'
         /\ \A e \in Cores : \A b : e # c \/ b # a =>
              /\ Pend(e, b)' = Pend(e, b)
              /\ Waiting(e, b)' <=> Waiting(e, b)
         /\ RequestsInv'
<1> DEFINE p == [line |-> a, st |-> st, acks |-> 0, total |-> 0,
                 dataValid |-> FALSE, fwdDest |-> None]
           r == [type |-> type, addr |-> a, src |-> c, victim |-> victim]
<1>1. pr[c] = None
  BY DEF Inv, CacheInv, MshrMatchesPr, Idle
<1>2. p \in PendingRequest /\ p # None /\ p.line = a
  <2>1. p \in PendingRequest
    BY DEF PendingRequest, TransientStates, AwaitingData
  <2> QED
    BY <2>1, NotNone
<1>3. pr' = [pr EXCEPT ![c] = p] /\ req' = req \cup {r}
  BY DEF Issue
<1>4. /\ Pend(c, a)' = p
      /\ \A e \in Cores : \A b : e # c \/ b # a => Pend(e, b)' = Pend(e, b)
  <2> HIDE DEF p
  <2> QED
    BY <1>1, <1>2, <1>3, PendWritten DEF Inv
<1>5. SetAside' = SetAside /\ Unserved' = Unserved \cup {r}
  <2> HIDE DEF r
  <2>1. SetAside' = SetAside
    BY DEF SetAside, llcVars
  <2> QED
    BY <1>3, <2>1 DEF Unserved
<1>6. \A s \in Unserved : s.src # c
  BY <1>1, IdleAsksNothing
<1>7. /\ Waiting(c, a)' /\ ~Waiting(c, a)
      /\ \A e, b : e # c \/ b # a => (Waiting(e, b)' <=> Waiting(e, b))
  <2>1. r.src = c /\ r.addr = a
    OBVIOUS
  <2> HIDE DEF r
  <2> QED
    BY <1>5, <1>6, <2>1 DEF Waiting
<1>8. \A states : st \in states /\ Datas(c, a)' = {} => Asking(c, a, states)'
  BY <1>2, <1>4, <1>7 DEF Asking, PendingIn
<1>9. Gone(c, a) <=> tag[c][a] = "I"
  BY <1>1, IdleAsksNothing DEF Gone
<1>10. RequestsInv'
  <2>1. /\ SetAside' \cap req' = {}
        /\ pending' # <<>> => Head(pending)'.victim # Head(pending)'.addr
    BY <1>3, <1>5, <1>6 DEF RequestsInv, Unserved, llcVars
  <2> SUFFICES ASSUME NEW s \in Unserved'
               PROVE  /\ Pend(s.src, s.addr)' # None
                      /\ (s.type = "GetS") <=> (Pend(s.src, s.addr)'.st = "IS_D")
                      /\ s.victim # s.addr
                      /\ \A t \in Unserved' : t.src = s.src => t = s
    BY <2>1 DEF RequestsInv
  <2>2. CASE s = r
    <3>1. s.src = c /\ s.addr = a /\ s.victim # s.addr /\ s.type = type
      BY <2>2
    <3>2. Pend(s.src, s.addr)' = p
      BY <1>4, <3>1
    <3>3. \A t \in Unserved' : t.src = s.src => t = s
      BY <1>5, <1>6, <2>2, <3>1
    <3> QED
      BY <1>2, <3>1, <3>2, <3>3
  <2>3. CASE s \in Unserved
    BY <1>4, <1>5, <1>6, <2>3, UnservedTypes DEF RequestsInv
  <2> QED
    BY <1>5, <2>2, <2>3
<1> QED
  BY <1>1, <1>4, <1>7, <1>8, <1>9, <1>10

\* A core that has gone and asks for the line keeps its role.
LEMMA MissKept ==
  ASSUME NEW c, NEW a, Gone(c, a), ~Waiting(c, a),
         NEW st \in {"IS_D", "IM_AD"}, Datas(c, a) = {} => Asking(c, a, {st})',
         tag'[c][a] = tag[c][a], Wbs(c, a)' = Wbs(c, a),
         Datas(c, a)' = Datas(c, a), Waiting(c, a)'
  PROVE  Kept(c, a)
<1>1. Apart(c, a) => Asking(c, a, {"IS_D", "IM_AD"})'
  BY DEF Apart, Asking, PendingIn
<1>2. Pend(c, a) = None /\ tag[c][a] = "I"
  BY DEF Gone
<1>3. ~Sharing(c, a) /\ ~Owning(c, a)
  BY RolesExclude
<1>4. Absent(c, a)' <=> Absent(c, a)
  BY <1>1, <1>2 DEF Absent, Asking, Apart, PendingIn
<1>5. \A type : Leaving(c, a, type) => Leaving(c, a, type)'
  BY <1>1, <1>2 DEF Leaving, Asking, PendingIn
<1>6. \A st1, type, dest, owed : /\ ~OwningFor(c, a, type, dest)
                                 /\ ~Expecting(c, a, st1)
                                 /\ ~Receiving(c, a, st1)
                                 /\ ~Collecting(c, a, owed)
  BY <1>2 DEF OwningFor, Expecting, Receiving, Collecting, Served, PendingIn
<1> QED
  BY <1>3, <1>4, <1>5, <1>6 DEF Kept

\* A core that writes its copy back is still the one the directory knows.
LEMMA EvictKept ==
  ASSUME Inv, NEW c \in Cores, NEW v \in Lines, HoldersInv(v),
         tag[c][v] # "I", tag'[c][v] = "I",
         NEW w, w.src = c, w.addr = v,
         w.type = IF tag[c][v] = "M" THEN "PutM" ELSE "PutS",
         wb' = wb \cup {w},
         Datas(c, v)' = Datas(c, v), Pend(c, v)' = Pend(c, v),
         Waiting(c, v)' <=> Waiting(c, v)
  PROVE  Kept(c, v)
<1>1. /\ Wbs(c, v) = {} /\ Apart(c, v)
      /\ tag[c][v] = "S" => Sharing(c, v)
      /\ tag[c][v] = "M" => Owning(c, v)
  BY HeldRole
<1>2. Wbs(c, v)' = {w}
  BY <1>1 DEF Wbs
<1>3. Leaving(c, v, w.type)' /\ Gone(c, v)'
  BY <1>1, <1>2 DEF Leaving, Apart, Gone
<1>4. tag[c][v] \in {"S", "M"}
  BY LineFacts
<1>5. ~Absent(c, v) /\ ~Absent(c, v)'
  BY <1>2 DEF Absent
<1>6. \A type : ~Leaving(c, v, type)
  BY DEF Leaving
<1>7. \A st, type, dest, owed : /\ ~OwningFor(c, v, type, dest)
                                /\ ~Expecting(c, v, st)
                                /\ ~Receiving(c, v, st)
                                /\ ~Collecting(c, v, owed)
  BY DEF OwningFor, Expecting, Receiving, Collecting, Served
<1>8. Sharing(c, v) => tag[c][v] = "S"
  BY <1>4 DEF Sharing, Served
<1>9. Owning(c, v) => tag[c][v] = "M"
  BY <1>4 DEF Owning, Served
<1> QED
  BY <1>3, <1>5, <1>6, <1>7, <1>8, <1>9 DEF Kept

\* A store to a shared line leaves the core a sharer.
LEMMA UpgradeKept ==
  ASSUME Inv, NEW c \in Cores, NEW a \in Lines, HoldersInv(a),
         tag[c][a] = "S", tag'[c][a] = "I",
         Wbs(c, a)' = Wbs(c, a), Datas(c, a)' = Datas(c, a),
         Datas(c, a) = {} => Asking(c, a, {"SM_AD"})'
  PROVE  Kept(c, a)
<1>1. Wbs(c, a) = {} /\ Apart(c, a)
  BY HeldRole
<1>2. Asking(c, a, {"SM_AD"})'
  BY <1>1 DEF Apart
<1>3. Sharing(c, a)'
  BY <1>1, <1>2 DEF Sharing
<1>4. ~Absent(c, a)' /\ ~Absent(c, a)
  BY <1>2 DEF Absent, Apart, Asking, PendingIn
<1>5. ~Owning(c, a) /\ \A type : ~Leaving(c, a, type)
  BY DEF Owning, Leaving, Served
<1>6. \A st, type, dest, owed : /\ ~OwningFor(c, a, type, dest)
                                /\ ~Expecting(c, a, st)
                                /\ ~Receiving(c, a, st)
                                /\ ~Collecting(c, a, owed)
  BY DEF OwningFor, Expecting, Receiving, Collecting, Served
<1> QED
  BY <1>3, <1>4, <1>5, <1>6 DEF Kept

\* What a core step leaves alone.
LEMMA CoreStepSteady ==
  ASSUME UNCHANGED llcVars, UNCHANGED <<fwd, rsp>>, NEW b
  PROVE  /\ LineSteady(b) /\ ForwardsStay(b) /\ Fwds(b)' = Fwds(b)
         /\ \A n : Datas(n, b)' = Datas(n, b)
BY DEF llcVars, LineSteady, ForwardsStay, Fwds, Acks, RespOks, Datas

\* A line on which every core keeps its role and no forward is on its way to
\* a core that starts to ask for it.
LEMMA CoreStepLine ==
  ASSUME Inv, NEW b \in Lines, LineInv(b), UNCHANGED llcVars, UNCHANGED <<fwd, rsp>>,
         \A d \in Cores : Kept(d, b),
         \A d \in Cores : Gone(d, b) /\ ForwardInFlight(d, b) => Gone(d, b)'
  PROVE  LineInv(b)'
<1>1. \A d \in Cores : Gone(d, b) /\ (\E m \in Fwds(b) : m.dst = d) => Gone(d, b)'
  BY DEF Fwds, ForwardInFlight
<1> QED
  BY <1>1, CoreStepSteady, LineKept

\* CoherenceInv without Inv, which DittyProofs preserves.
Coherent == SharerCount /\ RequestsInv /\ \A a \in Lines : LineInv(a)

\* A miss, with or without a victim.
LEMMA MissCoherent ==
  ASSUME Inv, Coherent, TimelyForwards, NEW c \in Cores, NEW a \in Lines,
         NEW op, NEW d, NEW st \in {"IS_D", "IM_AD"},
         NEW type \in {"GetS", "GetM"}, (type = "GetS") <=> (st = "IS_D"),
         Miss(c, a, op, d, st, type), UNCHANGED llcVars
  PROVE  Coherent'
<1>1. /\ Idle(c) /\ tag[c][a] = "I" /\ ~ForwardInFlight(c, a)
      /\ UNCHANGED <<fwd, rsp>>
  BY DEF Miss, ForwardsSettled, Hit
<1>2. PICK victim : /\ Issue(c, a, op, d, st, type, victim)
                    /\ \/ victim = None /\ UNCHANGED <<wb, tag>>
                       \/ victim \in Held(c) /\ Evict(c, victim)
  BY DEF Miss
<1>3. victim # a
  BY <1>1, <1>2, ConstantsAssumption DEF Held, Hit
<1>4. /\ pr[c] = None /\ Gone(c, a)
      /\ ~Waiting(c, a) /\ Waiting(c, a)'
      /\ \A states : st \in states /\ Datas(c, a)' = {} => Asking(c, a, states)'
      /\ \A e \in Cores : \A b : e # c \/ b # a =>
           /\ Pend(e, b)' = Pend(e, b)
           /\ Waiting(e, b)' <=> Waiting(e, b)
      /\ RequestsInv'
  <2>1. RequestsInv
    BY DEF Coherent
  <2>2. st \in {"IS_D", "IM_AD", "SM_AD"}
    OBVIOUS
  <2> QED
    <3>1. Issue(c, a, op, d, st, type, victim) /\ Idle(c) /\ tag[c][a] = "I"
      BY <1>1, <1>2
    <3>2. /\ pr[c] = None
          /\ Gone(c, a) <=> tag[c][a] = "I"
          /\ ~Waiting(c, a) /\ Waiting(c, a)'
          /\ \A states : st \in states /\ Datas(c, a)' = {} => Asking(c, a, states)'
          /\ \A e \in Cores : \A b : e # c \/ b # a =>
               /\ Pend(e, b)' = Pend(e, b)
               /\ Waiting(e, b)' <=> Waiting(e, b)
          /\ RequestsInv'
      BY <1>3, <2>1, <2>2, <3>1, RequestIssued
    <3> QED
      BY <3>1, <3>2
<1>5. \A b, n : Datas(n, b)' = Datas(n, b)
  BY <1>1, CoreStepSteady
<1>6. \A e \in Cores, b \in Lines : e # c \/ b # victim =>
        tag'[e][b] = tag[e][b] /\ Wbs(e, b)' = Wbs(e, b)
  <2>1. CASE UNCHANGED <<wb, tag>>
    BY <2>1 DEF Wbs
  <2>2. CASE victim \in Held(c) /\ Evict(c, victim)
    BY <2>2 DEF Evict, Wbs, Inv, CacheInv, CacheTypeOK, Held
  <2> QED
    BY <1>2, <2>1, <2>2
<1>7. \A e \in Cores, b \in Lines : Kept(e, b)
  <2> SUFFICES ASSUME NEW e \in Cores, NEW b \in Lines PROVE Kept(e, b)
    OBVIOUS
  <2>1. CASE e = c /\ b = a
    BY <1>3, <1>4, <1>5, <1>6, <2>1, MissKept
  <2>2. CASE e = c /\ b = victim /\ b # a
    <3>1. victim \in Held(c) /\ Evict(c, victim)
      BY <1>2, <2>2, ConstantsAssumption
    <3> DEFINE w == [type |-> VictimPut(c, b), addr |-> b, src |-> c,
                     data |-> data[c][b]]
    <3>2. /\ tag[c][b] # "I" /\ tag'[c][b] = "I"
          /\ w.src = c /\ w.addr = b
          /\ w.type = IF tag[c][b] = "M" THEN "PutM" ELSE "PutS"
          /\ wb' = wb \cup {w}
      BY <2>2, <3>1 DEF Evict, Held, Hit, VictimPut, Inv, CacheInv, CacheTypeOK
    <3>3. HoldersInv(b)
      BY DEF Coherent, LineInv
    <3> HIDE DEF w
    <3> QED
      BY <1>4, <1>5, <2>2, <3>2, <3>3, EvictKept
  <2>3. CASE (e # c \/ b # victim) /\ (e # c \/ b # a)
    BY <1>4, <1>5, <1>6, <2>3, SameCoreKept DEF SameCore
  <2> QED
    BY <2>1, <2>2, <2>3
<1>8. \A e \in Cores, b \in Lines : Gone(e, b) /\ ForwardInFlight(e, b) => Gone(e, b)'
  <2> SUFFICES ASSUME NEW e \in Cores, NEW b \in Lines,
                      Gone(e, b), ForwardInFlight(e, b)
               PROVE  Gone(e, b)'
    OBVIOUS
  <2>1. e # c \/ b # a
    BY <1>1
  <2>2. e # c \/ b # victim
    BY <1>2, <1>6, ConstantsAssumption DEF Held, Hit, Gone
  <2> QED
    BY <1>4, <1>6, <2>1, <2>2 DEF Gone
<1>9. \A b \in Lines : LineInv(b)'
  BY <1>1, <1>7, <1>8, CoreStepLine DEF Coherent
<1> QED
  BY <1>4, <1>9 DEF Coherent, SharerCount, llcVars

\* A store to a shared line.
LEMMA StoreSharedCoherent ==
  ASSUME Inv, Coherent, NEW c \in Cores, NEW a \in Lines, NEW d,
         StoreShared(c, a, d), UNCHANGED llcVars
  PROVE  Coherent'
<1>1. /\ Idle(c) /\ tag[c][a] = "S"
      /\ Issue(c, a, "ST", d, "SM_AD", "GetM", None)
      /\ UNCHANGED <<wb, fwd, rsp>>
      /\ tag' = [tag EXCEPT ![c][a] = "I"]
  BY DEF StoreShared, Migrate
<1>2. /\ Datas(c, a)' = {} => Asking(c, a, {"SM_AD"})'
      /\ \A e \in Cores : \A b : e # c \/ b # a =>
           /\ Pend(e, b)' = Pend(e, b)
           /\ Waiting(e, b)' <=> Waiting(e, b)
      /\ RequestsInv'
  BY <1>1, RequestIssued, ConstantsAssumption DEF Coherent
<1>3. /\ \A b, n : Datas(n, b)' = Datas(n, b)
      /\ \A b, n : Wbs(n, b)' = Wbs(n, b)
  BY <1>1, CoreStepSteady DEF Wbs
<1>4. /\ \A e \in Cores, b \in Lines : e # c \/ b # a => tag'[e][b] = tag[e][b]
      /\ tag'[c][a] = "I"
  BY <1>1 DEF Inv, CacheInv, CacheTypeOK
<1>5. \A e \in Cores, b \in Lines : Kept(e, b)
  <2> SUFFICES ASSUME NEW e \in Cores, NEW b \in Lines PROVE Kept(e, b)
    OBVIOUS
  <2>1. CASE e = c /\ b = a
    BY <1>1, <1>2, <1>3, <1>4, <2>1, UpgradeKept DEF Coherent, LineInv
  <2>2. CASE e # c \/ b # a
    BY <1>2, <1>3, <1>4, <2>2, SameCoreKept DEF SameCore
  <2> QED
    BY <2>1, <2>2
<1>6. \A e \in Cores, b \in Lines : Gone(e, b) => Gone(e, b)'
  BY <1>1, <1>2, <1>4 DEF Gone
<1>7. \A b \in Lines : LineInv(b)'
  BY <1>1, <1>5, <1>6, CoreStepLine DEF Coherent
<1> QED
  BY <1>2, <1>7 DEF Coherent, SharerCount, llcVars

\* Coherent speaks of nothing else.
LEMMA SameCoherent ==
  ASSUME Inv, Coherent, UNCHANGED <<networks, tag, pr, llcVars>>
  PROVE  Coherent'
<1>1. UNCHANGED <<req, wb, fwd, rsp, tag, pr, dir, pending>>
  BY DEF networks, llcVars
<1>2. /\ Unserved' = Unserved /\ SetAside' = SetAside
      /\ \A c, a : Pend(c, a)' = Pend(c, a)
  BY <1>1 DEF Unserved, SetAside, Pend, HitPr
<1>3. RequestsInv'
  BY <1>1, <1>2 DEF Coherent, RequestsInv
<1>4. \A b \in Lines : SameLine(b)
  BY <1>1, <1>2 DEF SameLine, LineSteady, SameCore, Waiting, Wbs, Datas, Acks,
                    RespOks, Fwds
<1> QED
  BY <1>1, <1>3, <1>4, SameLineKept DEF Coherent, SharerCount

\* Core requests.
LEMMA CoreStepCoherent ==
  ASSUME Inv, Coherent, TimelyForwards, NEW c \in Cores, CoreStep(c),
         UNCHANGED llcVars
  PROVE  Coherent'
<1>1. ASSUME NEW a \in Lines, LoadMiss(c, a)
      PROVE  Coherent'
  BY <1>1, MissCoherent DEF LoadMiss
<1>2. ASSUME NEW a \in Lines, NEW d \in Values, StoreMiss(c, a, d)
      PROVE  Coherent'
  BY <1>2, MissCoherent DEF StoreMiss
<1>3. ASSUME NEW a \in Lines, NEW d \in Values, StoreShared(c, a, d)
      PROVE  Coherent'
  BY <1>3, StoreSharedCoherent
<1>4. ASSUME NEW a \in Lines,
             LoadHit(c, a) \/ \E d \in Values : StoreHit(c, a, d)
      PROVE  Coherent'
  BY <1>4, SameCoherent DEF LoadHit, StoreHit
<1> QED
  BY <1>1, <1>2, <1>3, <1>4 DEF CoreStep

-----------------------------------------------------------------------------
(* Messages to a cache.                                                    *)

\* A step of core c that is about line a only.
StepAt(c, a) ==
  /\ UNCHANGED <<req, wb>> /\ UNCHANGED llcVars
  /\ \A d \in Cores, b \in Lines : d # c \/ b # a =>
       tag'[d][b] = tag[d][b] /\ Pend(d, b)' = Pend(d, b)
  /\ \A b \in Lines : b # a => SameResponses(b) /\ Fwds(b)' = Fwds(b)

\* Requests and write-backs stay, and other cores and lines.
LEMMA StepAtFrame ==
  ASSUME NEW c, NEW a, StepAt(c, a)
  PROVE  /\ Unserved' = Unserved /\ SetAside' = SetAside
         /\ \A d, b : Waiting(d, b)' <=> Waiting(d, b)
         /\ \A d, b : Wbs(d, b)' = Wbs(d, b)
         /\ \A b \in Lines : b # a => SameLine(b)
         /\ a \in Lines => \A d \in Cores : d # c /\ Datas(d, a)' = Datas(d, a) =>
              SameCore(d, a)
<1>1. UNCHANGED <<req, wb, dir, pending>>
  BY DEF StepAt, llcVars
<1>2. Unserved' = Unserved /\ SetAside' = SetAside
  BY <1>1 DEF Unserved, SetAside
<1>3. /\ \A d, b : Waiting(d, b)' <=> Waiting(d, b)
      /\ \A d, b : Wbs(d, b)' = Wbs(d, b)
  BY <1>1, <1>2 DEF Waiting, Wbs
<1>4. \A b \in Lines : b # a => SameLine(b)
  BY <1>1, <1>3 DEF StepAt, SameLine, SameResponses, LineSteady, SameCore
<1>5. a \in Lines => \A d \in Cores : d # c /\ Datas(d, a)' = Datas(d, a) =>
        SameCore(d, a)
  BY <1>3 DEF StepAt, SameCore
<1> QED
  BY <1>2, <1>3, <1>4, <1>5

\* It is enough to look at the line, and at the request if it is not served.
LEMMA StepAtCoherent ==
  ASSUME Inv, Coherent, NEW c \in Cores, NEW a \in Lines, StepAt(c, a),
         Waiting(c, a) => /\ Pend(c, a)' # None
                          /\ Pend(c, a)'.st = "IS_D" <=> Pend(c, a).st = "IS_D",
         LineInv(a)'
  PROVE  Coherent'
<1>1. /\ Unserved' = Unserved /\ SetAside' = SetAside /\ req' = req
      /\ \A b \in Lines : b # a => SameLine(b)
  BY StepAtFrame DEF StepAt
<1>2. \A b \in Lines : LineInv(b)'
  BY <1>1, SameLineKept DEF Coherent
<1>3. RequestsInv'
  <2> SUFFICES ASSUME NEW r \in Unserved
               PROVE  /\ Pend(r.src, r.addr)' # None
                      /\ (r.type = "GetS") <=> (Pend(r.src, r.addr)'.st = "IS_D")
    BY <1>1 DEF Coherent, RequestsInv, StepAt, llcVars
  <2>1. /\ Pend(r.src, r.addr) # None
        /\ (r.type = "GetS") <=> (Pend(r.src, r.addr).st = "IS_D")
    BY DEF Coherent, RequestsInv
  <2>2. r.src \in Cores /\ r.addr \in Lines
    BY UnservedTypes
  <2>3. CASE r.src = c /\ r.addr = a
    BY <2>1, <2>3 DEF Waiting
  <2>4. CASE r.src # c \/ r.addr # a
    <3>1. Pend(r.src, r.addr)' = Pend(r.src, r.addr)
      BY <2>2, <2>4 DEF StepAt
    <3> QED
      BY <2>1, <3>1
  <2> QED
    BY <2>3, <2>4
<1>4. dir' = dir
  BY DEF StepAt, llcVars
<1> QED
  BY <1>2, <1>3, <1>4 DEF Coherent, SharerCount

\* A forward to a core that has gone is dropped.
LEMMA StaleForwardCoherent ==
  ASSUME Inv, Coherent, NEW m \in fwd, State(m.dst, m.addr) = "I",
         fwd' = fwd \ {m}, UNCHANGED <<req, wb, rsp, tag, pr, llcVars>>
  PROVE  Coherent'
<1> DEFINE a == m.addr
           c == m.dst
<1>1. c \in Cores /\ a \in Lines
  BY DEF Inv, InterconnectTypeOK, Forward
<1>2. /\ \A d, b : Pend(d, b)' = Pend(d, b)
      /\ \A b : SameResponses(b)
      /\ \A b : b # a => Fwds(b)' = Fwds(b)
      /\ Fwds(a)' = Fwds(a) \ {m}
  BY ResponsesUnchanged DEF Pend, HitPr, Fwds
<1>3. StepAt(c, a)
  BY <1>2 DEF StepAt
<1>4. Gone(c, a)
  <2>1. tag[c][a] = "I"
    BY <1>1, LineFacts
  <2>2. Pend(c, a) # None => Pend(c, a).st # "I"
    BY <1>1, LineFacts DEF PendingRequest, TransientStates, AwaitingData,
                           AwaitingAcks
  <2> QED
    BY <1>1, <2>1, <2>2, LineFacts DEF Gone
<1>5. \A d \in Cores : SameCore(d, a)
  BY <1>1, <1>2, <1>3, StepAtFrame DEF SameCore, SameResponses
<1>6. /\ \A d \in Cores : Kept(d, a)
      /\ \A d \in Cores : Gone(d, a) => Gone(d, a)'
  BY <1>5, SameCoreKept DEF SameCore, Gone
<1>7. /\ LineSteady(a)
      /\ ForwardsStay(a)
      /\ Fwds(a)' \subseteq Fwds(a)
  BY <1>2, <1>4 DEF LineSteady, ForwardsStay, SameResponses, llcVars
<1>8. LineInv(a)'
  BY <1>1, <1>6, <1>7, LineKept DEF Coherent
<1>9. Waiting(c, a) => Pend(c, a) # None
  BY UnservedTypes DEF Coherent, RequestsInv, Waiting
<1> QED
  BY <1>1, <1>2, <1>3, <1>8, <1>9, StepAtCoherent

\* A forward for a core that has the line is the transaction's, and that is the
\* only one for the core.
LEMMA LiveForward ==
  ASSUME Inv, NEW a \in Lines, LineInv(a), NEW m \in Fwds(a), ~Gone(m.dst, a)
  PROVE  /\ Live(m, a)
         /\ m.dst \in Cores /\ m.respondTo \in Nodes /\ m.addr = a
         /\ m.dst \notin Recipients(a)
         /\ m = ForwardMessage(m.type, a, m.dst, m.respondTo)
         /\ \A k \in Fwds(a) : k.dst = m.dst => k = m
<1>1. \A k \in Fwds(a) : k \in Forward /\ k.addr = a
  BY DEF Fwds, Inv, InterconnectTypeOK
<1>2. \A k \in Fwds(a) : /\ k.dst = m.dst => Live(k, a)
                         /\ k.dst \notin Recipients(a)
  BY DEF LineInv, ForwardsInv, Stale
<1>3. \A k \in Fwds(a) : k = ForwardMessage(k.type, a, k.dst, k.respondTo)
  BY <1>1 DEF Forward, ForwardMessage
<1>4. \A k \in Fwds(a) : k.dst = m.dst => k.type = m.type /\ k.respondTo = m.respondTo
  BY <1>2, HoldersExclude DEF Live
<1> QED
  BY <1>1, <1>2, <1>3, <1>4 DEF Forward

\* The former owner o has to hand the line to dest; all but that.
HandoverDue(a, o, type, dest) ==
  \/ /\ dir[a].st = "MM" /\ type = "GetM" /\ dest \in Cores \ {o}
     /\ Datas(Directory, a) = {}
     /\ InService(a, dest, "GetM")
     /\ dir[a].owner = dest
     /\ dir[a].sharers = {dest}
     /\ Acks(a) = {}
     /\ RespOks(a) = {}
     /\ \A d \in Cores : d # o /\ d # dest => Absent(d, a)
     /\ Expecting(dest, a, "IM_AD")
  \/ /\ dir[a].st = "MS_AD" /\ type = "GetS" /\ dest \in Cores \ {o}
     /\ Quiet(a)
     /\ InService(a, dest, "GetS")
     /\ dir[a].owner = None
     /\ dir[a].sharers = {o, dest}
     /\ \A d \in Cores : d # o /\ d # dest => Absent(d, a)
     /\ Expecting(dest, a, "IS_D")
  \/ /\ dir[a].st = "MI" /\ type = "GetM" /\ dest = Directory
     /\ Quiet(a)
     /\ MakingRoom(a)
     /\ dir[a].owner = o
     /\ dir[a].sharers = {o}
     /\ \A d \in Cores : d # o => Absent(d, a)

\* An owner with a forward, or that knows whom to pass the line on to.
LEMMA HandoverIsDue ==
  ASSUME Inv, NEW a \in Lines, LineInv(a), NEW c \in Cores,
         NEW type \in {"GetS", "GetM"}, NEW dest,
         \/ OwningFor(c, a, type, dest)
         \/ Owning(c, a) /\ \E m \in Fwds(a) : /\ m.dst = c /\ m.type = type
                                               /\ m.respondTo = dest
  PROVE  HandoverDue(a, c, type, dest)
<1> DEFINE st == dir[a].st
<1>1. dir[a] \in Entry /\ HoldersInv(a)
  BY DEF Inv, LLCInv, LLCTypeOK, LineInv
<1>2. /\ ~Absent(c, a) /\ ~Sharing(c, a) /\ ~Leaving(c, a, "PutS")
      /\ ~Leaving(c, a, "PutM") /\ \A owed : ~Collecting(c, a, owed)
      /\ \A x \in {"IS_D", "IM_AD"} : ~Expecting(c, a, x) /\ ~Receiving(c, a, x)
  BY HoldersExclude, RolesExclude
<1>3. Owning(c, a) =>
        /\ \A t, n : ~OwningFor(c, a, t, n)
        /\ c \notin Recipients(a)
        /\ \/ type = "GetM" /\ st = "MM" /\ dest = dir[a].owner
           \/ type = "GetM" /\ st = "MI" /\ dest = Directory
           \/ type = "GetS" /\ st = "MS_AD" /\ dest = Head(pending).src
  BY HoldersExclude, RolesExclude, LiveForward DEF Live
<1>4. OwningFor(c, a, type, dest) =>
        /\ ~Owning(c, a)
        /\ \A t \in {"GetS", "GetM"} : \A n : OwningFor(c, a, t, n) => t = type /\ n = dest
  BY HoldersExclude
<1>5. st \notin {"I", "S", "M", "MI_AD", "MI_A", "MI_D", "MI_RespOk", "SI",
                "SM", "MS_A", "MS_D"}
  <2>1. CASE Owning(c, a)
    BY <1>3, <2>1
  <2>2. CASE OwningFor(c, a, type, dest)
    <3>1. st \notin {"I", "S", "M", "MI_AD", "MI_A", "MI_D", "MI_RespOk"}
      BY <1>1, <1>2, <1>4, <2>2
         DEF HoldersInv, InvalidLine, SharedLine, ModifiedLine, AbandonedLine,
             OthersAbsent, Keeping, Possessing
    <3>2. st # "SM"
      BY <1>1, <1>2, <1>4, <2>2
         DEF HoldersInv, UpgradedLine, Finished, OthersAbsent, Possessing, Owing
    <3>3. st # "SI"
      BY <1>1, <1>2, <1>4, <2>2
         DEF HoldersInv, RecalledLine, OthersAbsent, Owing, AcksTo
    <3>4. st \notin {"MS_A", "MS_D"}
      BY <1>1, <1>2, <1>4, <2>2
         DEF HoldersInv, DowngradedLine, Downgraded, OthersAbsent, Keeping
    <3> QED
      BY <3>1, <3>2, <3>3, <3>4
  <2> QED
    BY <2>1, <2>2
<1>6. CASE st = "MM"
  <2>1. PICK q \in Cores :
          /\ Datas(Directory, a) = {}
          /\ InService(a, q, "GetM")
          /\ dir[a].owner = q
          /\ dir[a].sharers = {q}
          /\ \/ /\ Acks(a) = {}
                /\ RespOks(a) = {}
                /\ \E o \in Cores \ {q} :
                     /\ OthersAbsent(a, {q, o})
                     /\ \/ Expecting(q, a, "IM_AD") /\ Giving(o, a, "GetM", q)
                        \/ Receiving(q, a, "IM_AD") /\ Absent(o, a)
             \/ Finished(a, q)
    BY <1>1, <1>6 DEF HoldersInv, HandedOverLine
  <2>2. Recipients(a) = {q}
    BY <1>6, <2>1 DEF Recipients
  <2>3. ~Finished(a, q)
    BY <1>2, <1>3, <1>4, <2>2 DEF Finished, OthersAbsent, Possessing
  <2>4. PICK o \in Cores \ {q} :
          /\ Acks(a) = {}
          /\ RespOks(a) = {}
          /\ OthersAbsent(a, {q, o})
          /\ \/ Expecting(q, a, "IM_AD") /\ Giving(o, a, "GetM", q)
             \/ Receiving(q, a, "IM_AD") /\ Absent(o, a)
    BY <2>1, <2>3
  <2>5. c = o
    BY <1>2, <2>4 DEF OthersAbsent
  <2>6. Expecting(q, a, "IM_AD") /\ Giving(o, a, "GetM", q)
    BY <1>2, <2>4, <2>5
  <2>7. type = "GetM" /\ dest = q
    BY <1>2, <1>3, <1>4, <1>6, <2>1, <2>5, <2>6 DEF Giving
  <2> QED
    BY <1>6, <2>1, <2>4, <2>5, <2>6, <2>7 DEF HandoverDue, OthersAbsent
<1>7. CASE st = "MS_AD"
  <2>1. PICK q \in Cores :
          /\ InService(a, q, "GetS")
          /\ Downgrading(a, q) \/ Downgraded(a, q)
    BY <1>1, <1>7 DEF HoldersInv, DowngradedLine
  <2>2. ~Downgraded(a, q)
    BY <1>2, <1>3, <1>4, HoldersExclude DEF Downgraded, OthersAbsent, Keeping
  <2>3. PICK o \in Cores \ {q} :
          /\ Quiet(a)
          /\ dir[a].owner = None
          /\ Expecting(q, a, "IS_D")
          /\ dir[a].sharers = {o, q}
          /\ Giving(o, a, "GetS", q)
          /\ OthersAbsent(a, {o, q})
    BY <2>1, <2>2 DEF Downgrading
  <2>4. c = o
    BY <1>2, <2>3 DEF OthersAbsent
  <2>5. q = Head(pending).src
    BY <2>1 DEF InService
  <2>6. type = "GetS" /\ dest = q
    BY <1>2, <1>3, <1>4, <1>7, <2>3, <2>4, <2>5 DEF Giving
  <2> QED
    BY <1>7, <2>1, <2>3, <2>4, <2>6 DEF HandoverDue, OthersAbsent
<1>8. CASE st = "MI"
  <2>1. PICK o \in Cores :
          /\ MakingRoom(a)
          /\ Acks(a) = {}
          /\ RespOks(a) = {}
          /\ dir[a].owner = o
          /\ dir[a].sharers = {o}
          /\ OthersAbsent(a, {o})
          /\ \/ Giving(o, a, "GetM", Directory) /\ Datas(Directory, a) = {}
             \/ Absent(o, a) /\ HandedOver(Directory, a)
    BY <1>1, <1>8 DEF HoldersInv, RecalledFromOwner
  <2>2. c = o
    BY <1>2, <2>1 DEF OthersAbsent
  <2>3. Giving(o, a, "GetM", Directory) /\ Datas(Directory, a) = {}
    BY <1>2, <2>1, <2>2
  <2>4. type = "GetM" /\ dest = Directory
    BY <1>2, <1>3, <1>4, <1>8, <2>2, <2>3 DEF Giving
  <2> QED
    BY <1>8, <2>1, <2>2, <2>3, <2>4 DEF HandoverDue, OthersAbsent, Quiet
<1> QED
  BY <1>1, <1>5, <1>6, <1>7, <1>8 DEF Entry, DirStates, DirStable, DirBusy

\* A core that waits for data has no forward on its way.
LEMMA NoForwardsTo ==
  ASSUME Inv, NEW a \in Lines, LineInv(a), NEW d \in Cores,
         ~Gone(d, a), ~Sharing(d, a), ~Owning(d, a)
  PROVE  \A m \in Fwds(a) : m.dst # d
BY LiveForward DEF Live

\* The forwards of a line when one core changes its role.
LEMMA ForwardsMoved ==
  ASSUME Inv, NEW a \in Lines, LineInv(a), NEW c \in Cores,
         dir'[a] = dir[a], pending' = pending,
         Fwds(a)' \subseteq Fwds(a),
         \A m \in Fwds(a)' : m.dst # c /\ m.dst \notin Recipients(a)',
         \A d \in Cores : d # c =>
           /\ Gone(d, a) => Gone(d, a)'
           /\ Sharing(d, a) => Sharing(d, a)' \/ Gone(d, a)'
           /\ Owning(d, a) => Owning(d, a)' \/ Gone(d, a)'
  PROVE  ForwardsInv(a)'
<1> SUFFICES ASSUME NEW m \in Fwds(a)'
             PROVE  Stale(m, a)' \/ Live(m, a)'
  BY DEF ForwardsInv
<1>1. m \in Fwds(a) /\ m.dst \in Cores /\ m.dst # c
  BY DEF Fwds, Inv, InterconnectTypeOK, Forward
<1>2. Stale(m, a) \/ Live(m, a)
  BY <1>1 DEF LineInv, ForwardsInv
<1> QED
  BY <1>1, <1>2 DEF Stale, Live

\* The former owner has sent the line to dest, and for a GetS to the LLC.
LEMMA HandoverHolders ==
  ASSUME Inv, NEW a \in Lines, NEW c \in Cores, NEW type, NEW dest,
         HandoverDue(a, c, type, dest),
         dir'[a] = dir[a], pending' = pending,
         Acks(a)' = Acks(a), RespOks(a)' = RespOks(a),
         \A d \in Cores : d # c /\ d # dest => Kept(d, a),
         type = "GetM" => Absent(c, a)',
         type = "GetS" => Sharing(c, a)',
         dest \in Cores =>
           \A st : Expecting(dest, a, st) => Receiving(dest, a, st)',
         type = "GetS" \/ dest = Directory => HandedOver(Directory, a)',
         type = "GetM" /\ dest # Directory =>
           Datas(Directory, a)' = Datas(Directory, a)
  PROVE  HoldersInv(a)'
<1>1. /\ \A q, t : InService(a, q, t)' <=> InService(a, q, t)
      /\ MakingRoom(a)' <=> MakingRoom(a)
      /\ Directory \notin Cores
  BY ConstantsAssumption DEF InService, MakingRoom
<1>2. \A d \in Cores : d # c /\ d # dest => (Absent(d, a)' <=> Absent(d, a))
  BY DEF Kept
<1>3. CASE dir[a].st = "MM"
  <2>1. /\ type = "GetM" /\ dest \in Cores \ {c}
        /\ Datas(Directory, a) = {}
        /\ InService(a, dest, "GetM")
        /\ dir[a].owner = dest
        /\ dir[a].sharers = {dest}
        /\ Acks(a) = {}
        /\ RespOks(a) = {}
        /\ \A d \in Cores : d # c /\ d # dest => Absent(d, a)
        /\ Expecting(dest, a, "IM_AD")
    BY <1>3 DEF HandoverDue
  <2>2. /\ InService(a, dest, "GetM")'
        /\ dir'[a].owner = dest
        /\ dir'[a].sharers = {dest}
        /\ Datas(Directory, a)' = {}
        /\ Acks(a)' = {} /\ RespOks(a)' = {}
        /\ Receiving(dest, a, "IM_AD")'
        /\ Absent(c, a)'
        /\ c \in Cores \ {dest} /\ dest \in Cores
    BY <1>1, <2>1
  <2>3. OthersAbsent(a, {dest, c})'
    BY <1>2, <2>1 DEF OthersAbsent
  <2>4. HandedOverLine(a)'
    BY <2>2, <2>3 DEF HandedOverLine
  <2> QED
    BY <1>3, <2>4 DEF HoldersInv
<1>4. CASE dir[a].st = "MS_AD"
  <2>1. /\ type = "GetS" /\ dest \in Cores \ {c}
        /\ Quiet(a)
        /\ InService(a, dest, "GetS")
        /\ dir[a].sharers = {c, dest}
        /\ \A d \in Cores : d # c /\ d # dest => Absent(d, a)
        /\ Expecting(dest, a, "IS_D")
    BY <1>4 DEF HandoverDue
  <2>2. /\ InService(a, dest, "GetS")'
        /\ Acks(a)' = {} /\ RespOks(a)' = {}
        /\ Receiving(dest, a, "IS_D")'
        /\ dir'[a].sharers # {} /\ dest \in dir'[a].sharers
    BY <1>1, <2>1 DEF Quiet
  <2>3. \A d \in dir'[a].sharers \ {dest} : Keeping(d, a)'
    BY <2>1 DEF Keeping
  <2>4. OthersAbsent(a, dir[a].sharers)'
    BY <1>2, <2>1 DEF OthersAbsent
  <2>5. Downgraded(a, dest)'
    BY <2>2, <2>3, <2>4 DEF Downgraded
  <2>6. DowngradedLine(a)'
    BY <1>4, <2>1, <2>2, <2>5 DEF DowngradedLine
  <2> QED
    BY <1>4, <2>6 DEF HoldersInv
<1>5. CASE dir[a].st = "MI"
  <2>1. /\ type = "GetM" /\ dest = Directory
        /\ Quiet(a)
        /\ MakingRoom(a)
        /\ dir[a].owner = c
        /\ dir[a].sharers = {c}
        /\ \A d \in Cores : d # c => Absent(d, a)
    BY <1>5 DEF HandoverDue
  <2>2. /\ MakingRoom(a)'
        /\ Acks(a)' = {} /\ RespOks(a)' = {}
        /\ Absent(c, a)' /\ HandedOver(Directory, a)'
    BY <1>1, <2>1 DEF Quiet
  <2>3. OthersAbsent(a, {c})'
    BY <1>1, <1>2, <2>1 DEF OthersAbsent
  <2>4. RecalledFromOwner(a)'
    BY <2>1, <2>2, <2>3 DEF RecalledFromOwner
  <2> QED
    BY <1>5, <2>4 DEF HoldersInv
<1> QED
  BY <1>3, <1>4, <1>5 DEF HandoverDue

\* Core c, having taken the data it waited for, sends one datum to dest, and for
\* a GetS one to the LLC.
SendsLine(c, a, type, dest, taken, sent) ==
  /\ \A k \in taken : k.type = "Data" /\ k.dst = c
  /\ Datas(c, a) \subseteq taken
  /\ rsp' = (rsp \ taken) \cup sent
  /\ \A k \in sent : /\ k.type = "Data" /\ k.addr = a /\ k.src = c
                     /\ k.dst = dest \/ (type = "GetS" /\ k.dst = Directory)
  /\ \E k \in sent : k.dst = dest /\ \A l \in sent : l.dst = dest => l = k
  /\ type = "GetS" => \E k \in sent : /\ k.dst = Directory
                                      /\ \A l \in sent : l.dst = Directory => l = k

\* The step of a former owner that sends the line.
LEMMA HandoverCoherent ==
  ASSUME Inv, Coherent, NEW c \in Cores, NEW a \in Lines,
         NEW type \in {"GetS", "GetM"}, NEW dest \in Nodes,
         \/ OwningFor(c, a, type, dest)
         \/ /\ tag[c][a] = "M"
            /\ \E m \in Fwds(a) : m.dst = c /\ m.type = type /\ m.respondTo = dest,
         StepAt(c, a),
         Fwds(a)' \subseteq Fwds(a), \A m \in Fwds(a)' : m.dst # c,
         NEW taken, NEW sent, SendsLine(c, a, type, dest, taken, sent),
         tag'[c][a] = IF type = "GetS" THEN "S" ELSE "I",
         Pend(c, a)' = None
  PROVE  Coherent'
<1>1. HoldersInv(a) /\ LineInv(a)
  BY DEF Coherent, LineInv
<1>2. /\ Wbs(c, a) = {} /\ ~Waiting(c, a)
      /\ tag[c][a] = "M" => Owning(c, a)
  BY <1>1, HeldRole DEF OwningFor, Served, Apart
<1>3. HandoverDue(a, c, type, dest)
  BY <1>1, <1>2, HandoverIsDue
<1>4. /\ dest # c
      /\ dest \in Cores => \E st \in {"IS_D", "IM_AD"} : Expecting(dest, a, st)
      /\ Datas(Directory, a) = {}
      /\ dest \in Cores \/ dest = Directory
      /\ Directory \notin Cores
      /\ type = "GetS" => dest \in Cores
  BY <1>3, ConstantsAssumption DEF HandoverDue, Quiet, Nodes
<1>5. /\ \A n : Datas(n, a)' = (Datas(n, a) \ taken) \cup
                {k \in sent : k.type = "Data" /\ k.dst = n /\ k.addr = a}
      /\ Acks(a)' = Acks(a) /\ RespOks(a)' = RespOks(a)
  BY ResponsesByKind DEF Acks, RespOks, SendsLine
<1>6. /\ \A d \in Cores : d # c /\ d # dest => Datas(d, a)' = Datas(d, a)
      /\ Datas(c, a)' = {}
  BY <1>4, <1>5 DEF Datas, SendsLine
<1>7. \A n : n = dest \/ (type = "GetS" /\ n = Directory) =>
        (Datas(n, a) = {} => HandedOver(n, a)')
  <2> SUFFICES ASSUME NEW n, n = dest \/ (type = "GetS" /\ n = Directory),
                      Datas(n, a) = {}
               PROVE  HandedOver(n, a)'
    OBVIOUS
  <2>1. PICK k \in sent : k.dst = n /\ \A l \in sent : l.dst = n => l = k
    BY DEF SendsLine
  <2>2. Datas(n, a)' = {k}
    BY <1>5, <2>1 DEF SendsLine
  <2>3. k.src # Directory
    BY <1>4 DEF SendsLine
  <2> QED
    BY <2>2, <2>3 DEF HandedOver
<1>8. type = "GetM" /\ dest # Directory => Datas(Directory, a)' = Datas(Directory, a)
  BY <1>4, <1>5 DEF SendsLine
<1>9. /\ \A d, b : Waiting(d, b)' <=> Waiting(d, b)
      /\ \A d, b : Wbs(d, b)' = Wbs(d, b)
      /\ \A d \in Cores : d # c /\ d # dest => SameCore(d, a)
      /\ \A d \in Cores : d # c => tag'[d][a] = tag[d][a] /\ Pend(d, a)' = Pend(d, a)
      /\ dir' = dir /\ pending' = pending
  BY <1>6, StepAtFrame DEF StepAt, llcVars
<1>10. dest \in Cores => \A st : Expecting(dest, a, st) => Receiving(dest, a, st)'
  BY <1>4, <1>7, <1>9 DEF Expecting, Receiving, Served, PendingIn
<1>11. type = "GetM" => Absent(c, a)'
  BY <1>2, <1>6, <1>9 DEF Absent, Apart
<1>12. type = "GetS" => Sharing(c, a)'
  BY <1>2, <1>6, <1>9 DEF Sharing, Apart
<1>13. HoldersInv(a)'
  <2>1. \A d \in Cores : d # c /\ d # dest => Kept(d, a)
    BY <1>9, SameCoreKept
  <2>2. type = "GetS" \/ dest = Directory => HandedOver(Directory, a)'
    BY <1>4, <1>7
  <2>3. /\ dir'[a] = dir[a] /\ pending' = pending
        /\ Acks(a)' = Acks(a) /\ RespOks(a)' = RespOks(a)
    BY <1>5, <1>9
  <2> QED
    BY <1>3, <1>8, <1>10, <1>11, <1>12, <2>1, <2>2, <2>3, HandoverHolders
<1>14. ForwardsInv(a)'
  <2>1. \A m \in Fwds(a)' : m.dst # dest
    <3>1. CASE dest \in Cores
      <4>1. PICK st \in {"IS_D", "IM_AD"} : Expecting(dest, a, st)
        BY <1>4, <3>1
      <4>2. ~Gone(dest, a)
        BY <4>1 DEF Expecting, Served, PendingIn, Gone
      <4>3. ~Sharing(dest, a) /\ ~Owning(dest, a)
        BY <4>1, HoldersExclude
      <4> QED
        BY <1>1, <3>1, <4>2, <4>3, NoForwardsTo
    <3>2. CASE dest = Directory
      <4>1. \A m \in Fwds(a) : m.dst \in Cores
        BY DEF Fwds, Inv, InterconnectTypeOK, Forward
      <4> QED
        BY <1>4, <3>2, <4>1
    <3> QED
      BY <1>4, <3>1, <3>2
  <2>2. \A d \in Cores : d # c =>
           /\ Gone(d, a) => Gone(d, a)'
           /\ Sharing(d, a) => Sharing(d, a)' \/ Gone(d, a)'
           /\ Owning(d, a) => Owning(d, a)' \/ Gone(d, a)'
    <3>1. \A d \in Cores : d # c => (Gone(d, a) => Gone(d, a)')
      BY <1>9 DEF Gone
    <3>2. dest \in Cores => ~Sharing(dest, a) /\ ~Owning(dest, a)
      BY <1>4, HoldersExclude
    <3> QED
      BY <1>9, <3>1, <3>2, SameCoreKept DEF Kept
  <2>3. \A m \in Fwds(a)' : m.dst \notin Recipients(a)'
    <3>1. CASE dir[a].st = "MM" \/ dir[a].st = "MI"
      BY <1>3, <1>9, <2>1, <3>1 DEF HandoverDue, Recipients
    <3>2. CASE dir[a].st = "MS_AD"
      <4>1. Datas(Directory, a)' # {}
        BY <1>3, <1>4, <1>7, <3>2 DEF HandoverDue, HandedOver
      <4> QED
        BY <1>3, <1>9, <2>1, <3>2, <4>1 DEF HandoverDue, Recipients
    <3> QED
      BY <1>3, <3>1, <3>2 DEF HandoverDue
  <2> QED
    BY <1>1, <1>9, <2>2, <2>3, ForwardsMoved
<1>15. LineInv(a)'
  BY <1>13, <1>14 DEF LineInv
<1> QED
  BY <1>2, <1>15, StepAtCoherent

\* The new owner learns whom to pass the line on to.
LEMMA GivingHolders ==
  ASSUME Inv, NEW a \in Lines, NEW c \in Cores, NEW type, NEW dest,
         HandoverDue(a, c, type, dest),
         LineSteady(a), pending' = pending,
         \A d \in Cores : d # c => Kept(d, a),
         Giving(c, a, type, dest)'
  PROVE  HoldersInv(a)'
<1>1. /\ \A q, t : InService(a, q, t)' <=> InService(a, q, t)
      /\ MakingRoom(a)' <=> MakingRoom(a)
      /\ Directory \notin Cores
      /\ dir'[a] = dir[a]
      /\ Quiet(a)' <=> Quiet(a)
  BY ConstantsAssumption DEF InService, MakingRoom, LineSteady, Quiet
<1>2. /\ \A d \in Cores : d # c => (Absent(d, a)' <=> Absent(d, a))
      /\ dest \in Cores /\ dest # c =>
           \A st : Expecting(dest, a, st) => Expecting(dest, a, st)'
  BY DEF Kept
<1>3. CASE dir[a].st = "MM"
  <2>1. /\ type = "GetM" /\ dest \in Cores \ {c}
        /\ dir[a].owner = dest /\ dir[a].sharers = {dest}
        /\ \A d \in Cores : d # c /\ d # dest => Absent(d, a)
    BY <1>3 DEF HandoverDue
  <2>2. /\ InService(a, dest, "GetM")'
        /\ Datas(Directory, a)' = {}
        /\ Acks(a)' = {} /\ RespOks(a)' = {}
        /\ Expecting(dest, a, "IM_AD")'
    BY <1>1, <1>2, <1>3 DEF HandoverDue, LineSteady
  <2>3. OthersAbsent(a, {dest, c})'
    BY <1>2, <2>1 DEF OthersAbsent
  <2>4. HandedOverLine(a)'
    BY <1>1, <2>1, <2>2, <2>3 DEF HandedOverLine
  <2> QED
    BY <1>1, <1>3, <2>4 DEF HoldersInv
<1>4. CASE dir[a].st = "MS_AD"
  <2>1. /\ type = "GetS" /\ dest \in Cores \ {c}
        /\ dir[a].owner = None /\ dir[a].sharers = {c, dest}
        /\ \A d \in Cores : d # c /\ d # dest => Absent(d, a)
    BY <1>4 DEF HandoverDue
  <2>2. /\ InService(a, dest, "GetS")'
        /\ Quiet(a)'
        /\ Expecting(dest, a, "IS_D")'
    BY <1>1, <1>2, <1>4 DEF HandoverDue
  <2>3. OthersAbsent(a, {c, dest})'
    BY <1>2, <2>1 DEF OthersAbsent
  <2>4. Downgrading(a, dest)'
    BY <1>1, <2>1, <2>2, <2>3 DEF Downgrading
  <2>5. DowngradedLine(a)'
    BY <1>1, <1>4, <2>1, <2>2, <2>4 DEF DowngradedLine
  <2> QED
    BY <1>1, <1>4, <2>5 DEF HoldersInv
<1>5. CASE dir[a].st = "MI"
  <2>1. /\ type = "GetM" /\ dest = Directory
        /\ dir[a].owner = c /\ dir[a].sharers = {c}
        /\ \A d \in Cores : d # c => Absent(d, a)
    BY <1>5 DEF HandoverDue
  <2>2. /\ MakingRoom(a)'
        /\ Acks(a)' = {} /\ RespOks(a)' = {} /\ Datas(Directory, a)' = {}
    BY <1>1, <1>5 DEF HandoverDue, Quiet
  <2>3. OthersAbsent(a, {c})'
    BY <1>2, <2>1 DEF OthersAbsent
  <2>4. RecalledFromOwner(a)'
    BY <1>1, <2>1, <2>2, <2>3 DEF RecalledFromOwner
  <2> QED
    BY <1>1, <1>5, <2>4 DEF HoldersInv
<1> QED
  BY <1>3, <1>4, <1>5 DEF HandoverDue

\* What the rows for a forward to the holder of a line write.
LEMMA ForwardRow ==
  /\ NextOnFwdGetS["M"] = "S" /\ NextOnFwdGetM["M"] = "I"
  /\ NextOnFwdGetS["IM_AD"] = "IM_AD_S" /\ NextOnFwdGetM["IM_AD"] = "IM_AD_I"
  /\ NextOnInv["S"] = "I" /\ NextOnInv["IS_D"] = "IS_DI"
  /\ NextOnInv["SM_AD"] = "IM_AD"
BY DEF NextOnFwdGetS, NextOnFwdGetM, NextOnInv

\* FwdGetS and FwdGetM.
LEMMA FwdGetCoherent ==
  ASSUME Inv, Coherent, NEW c \in Cores, NEW m \in fwd, ReceiveFwdGet(c, m),
         UNCHANGED llcVars
  PROVE  Coherent'
<1> DEFINE a == m.addr
           s == State(c, a)
           next == IF m.type = "GetS" THEN NextOnFwdGetS ELSE NextOnFwdGetM
           dests == IF m.type = "GetS" THEN {m.respondTo, Directory}
                                       ELSE {m.respondTo}
<1>1. /\ m \in Forward /\ a \in Lines /\ m.respondTo \in Nodes /\ m \in Fwds(a)
      /\ m.dst = c /\ m.type \in {"GetS", "GetM"}
      /\ fwd' = fwd \ {m}
      /\ UNCHANGED <<req, wb>>
  BY DEF ReceiveFwdGet, Inv, InterconnectTypeOK, Forward, Fwds
<1>2. /\ LineInv(a) /\ HoldersInv(a)
      /\ \A b : b # a => Fwds(b)' = Fwds(b)
      /\ Fwds(a)' = Fwds(a) \ {m}
  BY <1>1 DEF Fwds, Coherent, LineInv
<1>3. CASE s = "I" /\ UNCHANGED <<tag, pr, rsp>>
  BY <1>1, <1>3, StaleForwardCoherent
<1>4. CASE /\ s = "M"
           /\ SetTag(c, a, next[s])
           /\ rsp' = rsp \cup {DataMessage(a, c, n, 0, data[c][a]) : n \in dests}
  <2>1. tag[c][a] = "M" /\ Pend(c, a) = None
    BY <1>1, <1>4, LineFacts DEF PendingRequest, TransientStates, AwaitingData,
                                 AwaitingAcks
  <2>2. /\ tag' = [tag EXCEPT ![c][a] = next[s]] /\ pr' = pr
        /\ next[s] = IF m.type = "GetS" THEN "S" ELSE "I"
    BY <1>1, <1>4, ForwardRow DEF SetTag
  <2>3. /\ tag'[c][a] = IF m.type = "GetS" THEN "S" ELSE "I"
        /\ \A d \in Cores, b \in Lines : d # c \/ b # a => tag'[d][b] = tag[d][b]
        /\ \A d, b : Pend(d, b)' = Pend(d, b)
    BY <1>1, <2>2 DEF Inv, CacheInv, CacheTypeOK, Pend, HitPr
  <2> DEFINE line(n) == DataMessage(a, c, n, 0, data[c][a])
             sent == {line(n) : n \in dests}
             taken == {}
  <2>4. \A k \in sent : /\ k.type = "Data" /\ k.addr = a /\ k.src = c
                        /\ \/ k.dst = m.respondTo
                           \/ m.type = "GetS" /\ k.dst = Directory
    BY DEF DataMessage
  <2>5. \A n \in dests : \E k \in sent : /\ k.dst = n
                                         /\ \A l \in sent : l.dst = n => l = k
    <3>1. \A n : line(n).dst = n
      BY DEF DataMessage
    <3> HIDE DEF line
    <3> QED
      BY <3>1
  <2>6. rsp' = (rsp \ taken) \cup sent
    BY <1>4
  <2> HIDE DEF sent
  <2>7. StepAt(c, a)
    <3>1. \A b : b # a => SameResponses(b)
      BY <2>4, <2>6, ResponsesElsewhere
    <3> QED
      BY <1>1, <1>2, <2>3, <3>1 DEF StepAt
  <2>8. Datas(c, a) = {}
    BY <1>1, <1>2, <2>1, HeldRole DEF Apart
  <2>9. \A k \in Fwds(a)' : k.dst # c
    BY <1>1, <1>2, <2>1, LiveForward DEF Gone
  <2>10. SendsLine(c, a, m.type, m.respondTo, taken, sent)
    BY <2>4, <2>5, <2>6, <2>8 DEF SendsLine
  <2>11. /\ \E k \in Fwds(a) : k.dst = c /\ k.type = m.type /\ k.respondTo = m.respondTo
         /\ Fwds(a)' \subseteq Fwds(a)
         /\ Pend(c, a)' = None
    BY <1>1, <1>2, <2>1, <2>3
  <2> HIDE DEF a, taken
  <2> QED
    BY <1>1, <2>1, <2>3, <2>7, <2>9, <2>10, <2>11, HandoverCoherent
<1>5. CASE s \in TransientStates /\ SetPending(c, next[s], m.respondTo) /\ rsp' = rsp
  <2> DEFINE p == [pr[c] EXCEPT !.st = next[s], !.fwdDest = m.respondTo]
  <2>1. /\ tag[c][a] = "I" /\ Pend(c, a) = pr[c] /\ pr[c] # None
        /\ pr[c].line = a /\ pr[c] \in PendingRequest /\ s = pr[c].st
    BY <1>1, <1>5, LineFacts, StateCases DEF TransientStates, AwaitingData, AwaitingAcks,
       Inv
  <2>2. ~Gone(c, a)
    BY <2>1 DEF Gone
  <2>3. Live(m, a) /\ \A k \in Fwds(a)' : k.dst # c
    BY <1>1, <1>2, <2>2, LiveForward
  <2>4. Owning(c, a)
    BY <1>1, <2>3 DEF Live
  <2>5. /\ Served(c, a, {"IM_AD"}) /\ Granted(c, a) /\ s = "IM_AD"
    BY <2>1, <2>4 DEF Owning, Served, PendingIn
  <2>6. /\ p.st = IF m.type = "GetS" THEN "IM_AD_S" ELSE "IM_AD_I"
        /\ p.fwdDest = m.respondTo /\ p.acks = pr[c].acks /\ p.total = pr[c].total
        /\ p.line = a /\ p \in PendingRequest
    <3>1. p.st = next["IM_AD"] /\ p.fwdDest = m.respondTo /\ p.acks = pr[c].acks
          /\ p.total = pr[c].total /\ p.line = a
      BY <2>1, <2>5 DEF PendingRequest
    <3>2. next["IM_AD"] = IF m.type = "GetS" THEN "IM_AD_S" ELSE "IM_AD_I"
      BY <1>1, ForwardRow
    <3>3. /\ next["IM_AD"] \in TransientStates
          /\ next["IM_AD"] \in AwaitingData
      BY <3>2 DEF TransientStates, AwaitingData
    <3>4. m.respondTo \in Nodes
      BY DEF Inv, InterconnectTypeOK, Forward
    <3>5. p \in PendingRequest
      BY <2>1, <2>5, <3>3, <3>4 DEF PendingRequest
    <3> QED
      BY <3>1, <3>2, <3>5
  <2>7. /\ pr' = [pr EXCEPT ![c] = p] /\ tag' = tag /\ p # None
    BY <1>5, <2>6, NotNone DEF SetPending
  <2> HIDE DEF p
  <2>8. /\ Pend(c, a)' = p
        /\ \A d \in Cores : \A b : d # c \/ b # a => Pend(d, b)' = Pend(d, b)
    BY <1>1, <2>1, <2>6, <2>7, PendWritten DEF Inv
  <2>9. StepAt(c, a)
    BY <1>1, <1>2, <1>5, <2>7, <2>8, ResponsesUnchanged DEF StepAt
  <2>10. /\ \A d, b : (Waiting(d, b)' <=> Waiting(d, b)) /\ Wbs(d, b)' = Wbs(d, b)
         /\ SameResponses(a)
    BY <1>5, <2>9, StepAtFrame, ResponsesUnchanged
  <2>11. OwningFor(c, a, m.type, m.respondTo)'
    BY <2>1, <2>5, <2>6, <2>7, <2>8, <2>10
       DEF OwningFor, Served, PendingIn, Granted, SameResponses
  <2>12. HandoverDue(a, c, m.type, m.respondTo)
    BY <1>1, <1>2, <2>4, HandoverIsDue
  <2>13. \A d \in Cores : d # c => SameCore(d, a) /\ Kept(d, a)
    BY <1>1, <2>9, <2>10, StepAtFrame, SameCoreKept DEF SameResponses
  <2>14. LineSteady(a) /\ pending' = pending /\ dir' = dir
    BY <2>10 DEF LineSteady, SameResponses, llcVars
  <2>15. HoldersInv(a)'
    BY <1>1, <2>11, <2>12, <2>13, <2>14, GivingHolders DEF Giving
  <2>16. ForwardsInv(a)'
    <3>1. Recipients(a)' = Recipients(a)
      BY <2>14 DEF Recipients, LineSteady
    <3>2. \A k \in Fwds(a)' : k.dst \notin Recipients(a)'
      BY <1>2, <3>1 DEF LineInv, ForwardsInv
    <3>3. \A d \in Cores : d # c =>
           /\ Gone(d, a) => Gone(d, a)'
           /\ Sharing(d, a) => Sharing(d, a)' \/ Gone(d, a)'
           /\ Owning(d, a) => Owning(d, a)' \/ Gone(d, a)'
      BY <2>13 DEF SameCore, Gone, Kept
    <3> QED
      BY <1>1, <1>2, <2>3, <2>14, <3>2, <3>3, ForwardsMoved
  <2>17. ~Waiting(c, a) /\ LineInv(a)'
    BY <2>5, <2>15, <2>16 DEF Served, LineInv
  <2> QED
    BY <1>1, <2>9, <2>17, StepAtCoherent
<1> QED
  BY <1>3, <1>4, <1>5 DEF ReceiveFwdGet

\* A sharer that loses the line is absent.
LEMMA InvalidatedAbsent ==
  ASSUME NEW c, NEW a, Sharing(c, a), tag'[c][a] = "I",
         Wbs(c, a)' = Wbs(c, a), Datas(c, a)' = Datas(c, a),
         Waiting(c, a)' <=> Waiting(c, a),
         Pend(c, a) = None => Pend(c, a)' = None,
         Pend(c, a) # None =>
           /\ Pend(c, a)' # None
           /\ Pend(c, a)'.acks = Pend(c, a).acks
           /\ Pend(c, a)'.total = Pend(c, a).total
           /\ Pend(c, a).st = "IS_D" => Pend(c, a)'.st = "IS_DI"
           /\ Pend(c, a).st = "SM_AD" => Pend(c, a)'.st = "IM_AD"
  PROVE  Absent(c, a)'
<1>1. CASE Wbs(c, a) = {} /\ Apart(c, a)
  BY <1>1 DEF Absent, Apart
<1>2. CASE Wbs(c, a) = {} /\ Asking(c, a, {"SM_AD"})
  <2>1. Asking(c, a, {"IS_D", "IM_AD"})'
    BY <1>2 DEF Asking, PendingIn
  <2> QED
    BY <1>2, <2>1 DEF Absent
<1>3. CASE Served(c, a, {"IS_D"}) /\ Granted(c, a)
  <2>1. PendingIn(c, a, {"IS_DI"})' /\ Granted(c, a)'
    BY <1>3 DEF Served, PendingIn, Granted
  <2> QED
    BY <1>3, <2>1 DEF Absent, Served
<1> QED
  BY <1>1, <1>2, <1>3 DEF Sharing

\* A former sharer acknowledges: it is owing until then, its acknowledgement is
\* under way afterwards.
LEMMA AckHolders ==
  ASSUME Inv, NEW a \in Lines, NEW c \in Cores, HoldersInv(a), Sharing(c, a),
         NEW m \in Fwds(a), m.type = "Inv", m.dst = c, Live(m, a),
         dir'[a] = dir[a], pending' = pending,
         \A d \in Cores : d # c => Kept(d, a),
         Absent(c, a)',
         NEW k, k.dst = m.respondTo, k.src = c, k.sharer = c,
         \A l : l \in Acks(a)' <=> (l \in Acks(a) \/ l = k),
         RespOks(a)' = RespOks(a),
         Datas(Directory, a)' = Datas(Directory, a),
         Fwds(a)' = Fwds(a) \ {m}
  PROVE  HoldersInv(a)'
<1>1. /\ \A q, t : InService(a, q, t)' <=> InService(a, q, t)
      /\ MakingRoom(a)' <=> MakingRoom(a)
      /\ \A d \in Cores : d # c => (Absent(d, a)' <=> Absent(d, a))
      /\ ~Absent(c, a) /\ ~Owning(c, a)
      /\ \A t : ~Leaving(c, a, t)
  BY HoldersExclude, RolesExclude DEF InService, MakingRoom, Kept
<1>2. \A d \in Cores : \A n : d # c /\ Owing(d, a, n) => Owing(d, a, n)'
  <2> SUFFICES ASSUME NEW d \in Cores, NEW n, d # c, Owing(d, a, n)
               PROVE  Owing(d, a, n)'
    OBVIOUS
  <2>1. CASE Leaving(d, a, "PutS")
    BY <2>1 DEF Kept, Owing
  <2>2. CASE Sharing(d, a) /\ ForwardMessage("Inv", a, d, n) \in Fwds(a)
    <3>1. ForwardMessage("Inv", a, d, n).dst = d
      BY DEF ForwardMessage
    <3> QED
      BY <2>2, <3>1 DEF Kept, Owing
  <2> QED
    BY <2>1, <2>2 DEF Owing
<1>3. \A n : AcksTo(n, a) /\ m.respondTo = n => AcksTo(n, a)'
  <2> SUFFICES ASSUME NEW n, AcksTo(n, a), m.respondTo = n
               PROVE  AcksTo(n, a)'
    OBVIOUS
  <2>1. \A l \in Acks(a) : l.sharer # c
    BY <1>1 DEF AcksTo
  <2>2. \A l \in Acks(a)' : l.dst = n /\ l.sharer \in Cores /\ Absent(l.sharer, a)'
    BY <1>1, <2>1 DEF AcksTo
  <2>3. \A l, j \in Acks(a)' : l.sharer = j.sharer => l = j
    BY <2>1 DEF AcksTo
  <2> QED
    BY <2>2, <2>3 DEF AcksTo
<1>4. CASE dir[a].st = "SM" /\ m.respondTo = dir[a].owner
  <2>1. PICK q \in Cores :
          /\ Datas(Directory, a) = {}
          /\ InService(a, q, "GetM")
          /\ dir[a].owner = q
          /\ dir[a].sharers = {q}
          /\ \/ /\ RespOks(a) = {}
                /\ Collecting(q, a, Cardinality(Debtors(q, a)))
                /\ AcksTo(q, a)
                /\ \A d \in Cores \ {q} : Absent(d, a) \/ Owing(d, a, q)
             \/ Finished(a, q)
    BY <1>4 DEF HoldersInv, UpgradedLine
  <2>2. ~Finished(a, q)
    BY <1>1 DEF Finished, OthersAbsent, Possessing
  <2>3. /\ RespOks(a) = {}
        /\ Collecting(q, a, Cardinality(Debtors(q, a)))
        /\ AcksTo(q, a)
        /\ \A d \in Cores \ {q} : Absent(d, a) \/ Owing(d, a, q)
    BY <2>1, <2>2
  <2>4. c # q
    BY <2>3, HoldersExclude
  <2>5. Debtors(q, a)' = Debtors(q, a)
    BY <1>1, <2>4 DEF Debtors
  <2>6. Collecting(q, a, Cardinality(Debtors(q, a)))'
    BY <2>3, <2>4, <2>5 DEF Kept
  <2>7. \A d \in Cores \ {q} : Absent(d, a)' \/ Owing(d, a, q)'
    BY <1>1, <1>2, <2>3
  <2>8. AcksTo(q, a)'
    BY <1>3, <1>4, <2>1, <2>3
  <2>9. UpgradedLine(a)'
    BY <1>1, <2>1, <2>3, <2>6, <2>7, <2>8 DEF UpgradedLine
  <2> QED
    BY <1>4, <2>9 DEF HoldersInv
<1>5. CASE dir[a].st = "SI" /\ m.respondTo = Directory
  <2>1. RecalledLine(a)
    BY <1>5 DEF HoldersInv
  <2>2. c \in dir[a].sharers
    BY <1>1, <2>1 DEF RecalledLine, OthersAbsent
  <2>3. AcksTo(Directory, a)'
    BY <1>3, <1>5, <2>1 DEF RecalledLine
  <2>4. \A l \in Acks(a)' : l.src = l.sharer /\ l.sharer \in dir'[a].sharers
    BY <2>1, <2>2 DEF RecalledLine
  <2>5. OthersAbsent(a, dir[a].sharers)'
    BY <1>1, <2>1 DEF RecalledLine, OthersAbsent
  <2>6. \A d \in dir'[a].sharers : \/ Owing(d, a, Directory)'
                                   \/ \E l \in Acks(a)' : l.sharer = d
    <3>1. dir[a].sharers \subseteq Cores
      BY DEF Inv, LLCInv, LLCTypeOK, Entry
    <3> QED
      BY <1>2, <2>1, <3>1 DEF RecalledLine
  <2>7. RecalledLine(a)'
    BY <1>1, <2>1, <2>3, <2>4, <2>5, <2>6 DEF RecalledLine
  <2> QED
    BY <1>5, <2>7 DEF HoldersInv
<1> QED
  BY <1>4, <1>5 DEF Live

\* Inv.
LEMMA InvCoherent ==
  ASSUME Inv, Coherent, NEW c \in Cores, NEW m \in fwd, ReceiveInv(c, m),
         UNCHANGED llcVars
  PROVE  Coherent'
<1> DEFINE a == m.addr
           s == State(c, a)
           k == AckMessage(a, c, m.respondTo, c)
<1>1. /\ m \in Forward /\ a \in Lines /\ m.respondTo \in Nodes /\ m \in Fwds(a)
      /\ m.dst = c /\ m.type = "Inv"
      /\ fwd' = fwd \ {m}
      /\ UNCHANGED <<req, wb>>
  BY DEF ReceiveInv, Inv, InterconnectTypeOK, Forward, Fwds
<1>2. /\ LineInv(a) /\ HoldersInv(a)
      /\ \A b : b # a => Fwds(b)' = Fwds(b)
      /\ Fwds(a)' = Fwds(a) \ {m}
  BY <1>1 DEF Fwds, Coherent, LineInv
<1>3. CASE s = "I" /\ UNCHANGED <<tag, pr, rsp>>
  BY <1>1, <1>3, StaleForwardCoherent
<1>4. CASE /\ s # "I"
           /\ rsp' = rsp \cup {k}
           /\ \/ s = "S" /\ SetTag(c, a, NextOnInv[s])
              \/ s \in TransientStates /\ SetPending(c, NextOnInv[s], pr[c].fwdDest)
  <2>1. /\ k.type = "Ack" /\ k.addr = a /\ k.dst = m.respondTo
        /\ k.src = c /\ k.sharer = c
    BY DEF AckMessage
  <2> HIDE DEF k
  <2>2. ~Gone(c, a)
    BY <1>1, <1>4, LineFacts DEF Gone
  <2>3. Live(m, a) /\ \A f \in Fwds(a)' : f.dst # c
    BY <1>1, <1>2, <2>2, LiveForward
  <2>4. Sharing(c, a)
    BY <1>1, <2>3 DEF Live
  <2>5. /\ \A d \in Cores, b \in Lines : d # c \/ b # a =>
             tag'[d][b] = tag[d][b] /\ Pend(d, b)' = Pend(d, b)
        /\ tag'[c][a] = "I"
        /\ Pend(c, a) = None => Pend(c, a)' = None
        /\ Pend(c, a) # None =>
             /\ Pend(c, a)' # None
             /\ Pend(c, a)'.acks = Pend(c, a).acks
             /\ Pend(c, a)'.total = Pend(c, a).total
             /\ Pend(c, a).st = "IS_D" => Pend(c, a)'.st = "IS_DI"
             /\ Pend(c, a).st = "SM_AD" => Pend(c, a)'.st = "IM_AD"
    <3>1. CASE s = "S" /\ SetTag(c, a, NextOnInv[s])
      <4>1. tag[c][a] = "S" /\ Pend(c, a) = None
        BY <1>1, <3>1, LineFacts DEF PendingRequest, TransientStates, AwaitingData,
                                     AwaitingAcks
      <4>2. tag' = [tag EXCEPT ![c][a] = "I"] /\ pr' = pr
        BY <3>1, ForwardRow DEF SetTag
      <4> QED
        BY <1>1, <4>1, <4>2 DEF Inv, CacheInv, CacheTypeOK, Pend, HitPr
    <3>2. CASE s \in TransientStates /\ SetPending(c, NextOnInv[s], pr[c].fwdDest)
      <4> DEFINE p == [pr[c] EXCEPT !.st = NextOnInv[s], !.fwdDest = pr[c].fwdDest]
      <4>1. /\ tag[c][a] = "I" /\ Pend(c, a) = pr[c] /\ pr[c] # None
            /\ pr[c].line = a /\ pr[c] \in PendingRequest /\ s = pr[c].st
        BY <1>1, <3>2, LineFacts, StateCases
           DEF TransientStates, AwaitingData, AwaitingAcks, Inv
      <4>2. /\ p.st = NextOnInv[s] /\ p.line = a
            /\ p.acks = pr[c].acks /\ p.total = pr[c].total
        BY <4>1 DEF PendingRequest
      <4>3. p # None
        <5>1. s \in {"IS_D", "SM_AD", "I", "S", "SM_AD_S", "SM_A_S"}
          BY DEF ReceiveInv, NextOnInv
        <5>2. NextOnInv[s] \in TransientStates
          BY <3>2, <5>1 DEF NextOnInv, TransientStates, AwaitingData, AwaitingAcks
        <5>3. p \in PendingRequest
          BY <4>1, <5>2 DEF PendingRequest
        <5> QED
          BY <5>3, NotNone
      <4>4. pr' = [pr EXCEPT ![c] = p] /\ tag' = tag
        BY <3>2 DEF SetPending
      <4> HIDE DEF p
      <4>5. /\ Pend(c, a)' = p
            /\ \A d \in Cores : \A b : d # c \/ b # a => Pend(d, b)' = Pend(d, b)
        BY <1>1, <4>1, <4>2, <4>3, <4>4, PendWritten DEF Inv
      <4> QED
        BY <4>1, <4>2, <4>3, <4>4, <4>5, ForwardRow
    <3> QED
      BY <1>4, <3>1, <3>2
  <2>6. /\ \A n : Datas(n, a)' = Datas(n, a)
        /\ RespOks(a)' = RespOks(a)
        /\ \A l : l \in Acks(a)' <=> (l \in Acks(a) \/ l = k)
        /\ \A b : b # a => SameResponses(b)
    BY <1>4, <2>1 DEF SameResponses, Datas, Acks, RespOks
  <2>7. StepAt(c, a)
    BY <1>1, <1>2, <2>5, <2>6 DEF StepAt
  <2>8. /\ \A d, b : Waiting(d, b)' <=> Waiting(d, b)
        /\ \A d, b : Wbs(d, b)' = Wbs(d, b)
        /\ \A d \in Cores : d # c => SameCore(d, a) /\ Kept(d, a)
        /\ dir' = dir /\ pending' = pending
    BY <1>1, <2>6, <2>7, StepAtFrame, SameCoreKept DEF StepAt, llcVars
  <2>9. Absent(c, a)'
    BY <2>4, <2>5, <2>6, <2>8, InvalidatedAbsent
  <2>10. HoldersInv(a)'
    BY <1>1, <1>2, <2>1, <2>3, <2>4, <2>6, <2>8, <2>9, AckHolders
  <2>11. ForwardsInv(a)'
    <3>1. Recipients(a)' = Recipients(a)
      BY <2>6, <2>8 DEF Recipients
    <3>2. \A f \in Fwds(a)' : f.dst \notin Recipients(a)'
      BY <1>2, <3>1 DEF LineInv, ForwardsInv
    <3>3. \A d \in Cores : d # c =>
           /\ Gone(d, a) => Gone(d, a)'
           /\ Sharing(d, a) => Sharing(d, a)' \/ Gone(d, a)'
           /\ Owning(d, a) => Owning(d, a)' \/ Gone(d, a)'
      BY <2>8 DEF SameCore, Gone, Kept
    <3> QED
      BY <1>1, <1>2, <2>3, <2>8, <3>2, <3>3, ForwardsMoved
  <2>12. Waiting(c, a) => /\ Pend(c, a)' # None
                          /\ Pend(c, a)'.st = "IS_D" <=> Pend(c, a).st = "IS_D"
    <3>1. Waiting(c, a) => Asking(c, a, {"SM_AD"})
      BY <2>4 DEF Sharing, Apart, Served
    <3> QED
      BY <2>5, <3>1 DEF Asking, PendingIn
  <2>13. LineInv(a)'
    BY <2>10, <2>11 DEF LineInv
  <2> QED
    BY <1>1, <2>7, <2>12, <2>13, StepAtCoherent
<1> QED
  <2>1. s \in DOMAIN NextOnInv => s \in {"I", "S"} \/ s # "I"
    OBVIOUS
  <2> QED
    BY <1>3, <1>4 DEF ReceiveInv, TransientStates, AwaitingData, AwaitingAcks

-----------------------------------------------------------------------------
(* Responses to a cache.                                                   *)

\* The core a datum is for, and why.
LEMMA DataRole ==
  ASSUME Inv, NEW a \in Lines, HoldersInv(a), NEW c \in Cores,
         NEW m \in Datas(c, a), Pend(c, a) # None
  PROVE  /\ Datas(c, a) = {m}
         /\ tag[c][a] = "I" /\ Wbs(c, a) = {} /\ ~Waiting(c, a)
         /\ \/ /\ Granted(c, a) /\ m.src = Directory /\ m.acks = 0
               /\ \/ Absent(c, a) /\ PendingIn(c, a, {"IS_DI"})
                  \/ Sharing(c, a) /\ PendingIn(c, a, {"IS_D"})
                  \/ Owning(c, a) /\ PendingIn(c, a, {"IM_AD"})
                  \/ \E type \in {"GetS", "GetM"}, n \in Nodes :
                       OwningFor(c, a, type, n)
            \/ /\ dir[a].st = "SM"
               /\ dir[a].owner = c
               /\ Collecting(c, a, Cardinality(Debtors(c, a)))
            \/ /\ dir[a].st = "MM"
               /\ dir[a].owner = c
               /\ Receiving(c, a, "IM_AD")
            \/ /\ dir[a].st \in {"MS_AD", "MS_A"}
               /\ InService(a, c, "GetS")
               /\ Receiving(c, a, "IS_D")
<1>1. ~Apart(c, a) /\ \A states : ~Asking(c, a, states)
  BY DEF Apart, Asking
<1>2. /\ \A type : ~Leaving(c, a, type)
      /\ \A st : ~Expecting(c, a, st)
  BY <1>1 DEF Leaving, Expecting
<1>3. Granted(c, a) => Datas(c, a) = {m} /\ m.src = Directory /\ m.acks = 0
  BY DEF Granted
<1>4. ASSUME Absent(c, a)
      PROVE  /\ Granted(c, a) /\ PendingIn(c, a, {"IS_DI"})
             /\ tag[c][a] = "I" /\ Wbs(c, a) = {} /\ ~Waiting(c, a)
  BY <1>1, <1>4 DEF Absent
<1>5. ASSUME Sharing(c, a)
      PROVE  /\ Granted(c, a) /\ PendingIn(c, a, {"IS_D"})
             /\ tag[c][a] = "I" /\ Wbs(c, a) = {} /\ ~Waiting(c, a)
  BY <1>1, <1>5 DEF Sharing, Served
<1>6. ASSUME Owning(c, a)
      PROVE  /\ Granted(c, a) /\ PendingIn(c, a, {"IM_AD"})
             /\ tag[c][a] = "I" /\ Wbs(c, a) = {} /\ ~Waiting(c, a)
  BY <1>1, <1>6 DEF Owning, Served
<1>7. ASSUME NEW type, NEW n, OwningFor(c, a, type, n)
      PROVE  /\ Granted(c, a)
             /\ tag[c][a] = "I" /\ Wbs(c, a) = {} /\ ~Waiting(c, a)
  BY <1>7 DEF OwningFor, Served
<1>8. ASSUME NEW owed, Collecting(c, a, owed)
      PROVE  /\ Datas(c, a) = {m}
             /\ tag[c][a] = "I" /\ Wbs(c, a) = {} /\ ~Waiting(c, a)
  BY <1>8 DEF Collecting
<1>9. ASSUME NEW st, Receiving(c, a, st)
      PROVE  /\ Datas(c, a) = {m}
             /\ tag[c][a] = "I" /\ Wbs(c, a) = {} /\ ~Waiting(c, a)
  BY <1>9 DEF Receiving, HandedOver, Served
<1> QED
  BY <1>2, <1>3, <1>4, <1>5, <1>6, <1>7, <1>8, <1>9, SomeRole

\* The state a completed request leaves behind.
LEMMA FinalStates ==
  /\ FinalState("IS_D") = "S" /\ FinalState("IS_DI") = "I"
  /\ FinalState("IM_AD") = "M" /\ FinalState("SM_AD") = "M"
  /\ FinalState("IM_A") = "M" /\ FinalState("SM_A") = "M"
  /\ FinalState("IM_AD_S") = "S" /\ FinalState("IM_AD_I") = "I"
BY DEF FinalState

\* What a completing request writes and sends.
LEMMA CompleteFrame ==
  ASSUME Inv, NEW c \in Cores, NEW a \in Lines, Pend(c, a) # None,
         NEW m \in rsp, m.addr = a, NEW cl, NEW ok \in BOOLEAN,
         Complete(c, cl, m, ok), UNCHANGED <<req, wb, fwd>>, UNCHANGED llcVars
  PROVE  /\ StepAt(c, a)
         /\ tag'[c][a] = FinalState(Pend(c, a).st) /\ Pend(c, a)' = None
         /\ Fwds(a)' = Fwds(a)
         /\ Acks(a)' = Acks(a) \ {m}
         /\ Pend(c, a).st \notin OwesForward =>
              /\ \A n : Datas(n, a)' = Datas(n, a) \ {m}
              /\ ~ok => RespOks(a)' = RespOks(a) \ {m}
              /\ ok => RespOks(a)' = (RespOks(a) \ {m})
                                       \cup {RespOkMessage(a, c, Directory)}
<1>1. /\ pr[c] # None /\ pr[c].line = a /\ Pend(c, a) = pr[c]
      /\ tag[c][a] = "I"
  BY LineFacts
<1>2. PICK d : rsp' = (rsp \ {m}) \cup CompletionMessages(c, pr[c].st, a, d, ok)
  BY <1>1 DEF Complete
<1>3. /\ tag' = [tag EXCEPT ![c][a] = FinalState(pr[c].st)]
      /\ pr' = [pr EXCEPT ![c] = None]
  BY <1>1 DEF Complete
<1>4. /\ Pend(c, a)' = None
      /\ \A d0 \in Cores : \A b : d0 # c \/ b # a => Pend(d0, b)' = Pend(d0, b)
  <2>1. CacheInv
    BY DEF Inv
  <2> QED
    BY <1>1, <1>3, <2>1, PendWritten
<1>5. /\ \A d0 \in Cores, b \in Lines : d0 # c \/ b # a => tag'[d0][b] = tag[d0][b]
      /\ tag'[c][a] = FinalState(pr[c].st)
  BY <1>3 DEF Inv, CacheInv, CacheTypeOK
<1> DEFINE sent == CompletionMessages(c, pr[c].st, a, d, ok)
<1>6. \A k \in sent : k.addr = a /\ k.type # "Ack"
  BY DEF CompletionMessages, RespOkMessage, DataMessage
<1>7. pr[c].st \notin OwesForward =>
        \A k : k \in sent <=> ok /\ k = RespOkMessage(a, c, Directory)
  BY DEF CompletionMessages, OwesForward, OwesDirectory
<1>8. \A n : /\ RespOkMessage(a, c, n).type = "RespOk"
             /\ RespOkMessage(a, c, n).dst = n
             /\ RespOkMessage(a, c, n).addr = a
  BY DEF RespOkMessage
<1>9. rsp' = (rsp \ {m}) \cup sent
  BY <1>2
<1> HIDE DEF sent
<1>10. /\ \A n : Datas(n, a)' = (Datas(n, a) \ {m}) \cup
                {k \in sent : k.type = "Data" /\ k.dst = n /\ k.addr = a}
       /\ Acks(a)' = (Acks(a) \ {m}) \cup
                {k \in sent : k.type = "Ack" /\ k.addr = a}
       /\ RespOks(a)' = (RespOks(a) \ {m}) \cup
                {k \in sent : k.type = "RespOk" /\ k.dst = Directory /\ k.addr = a}
  BY <1>9 DEF Datas, Acks, RespOks
<1>11. \A b : b # a => SameResponses(b) /\ Fwds(b)' = Fwds(b)
  <2>1. \A k \in {m} \cup sent : k.addr = a
    BY <1>6
  <2> QED
    BY <1>9, <2>1, ResponsesElsewhere DEF Fwds
<1>12. StepAt(c, a)
  BY <1>4, <1>5, <1>11 DEF StepAt
<1>13. Acks(a)' = Acks(a) \ {m}
  BY <1>6, <1>10
<1>14. ASSUME pr[c].st \notin OwesForward
       PROVE  \A n : Datas(n, a)' = Datas(n, a) \ {m}
  BY <1>7, <1>8, <1>10, <1>14
<1>15. ASSUME pr[c].st \notin OwesForward, ~ok
       PROVE  RespOks(a)' = RespOks(a) \ {m}
  BY <1>7, <1>8, <1>10, <1>15
<1>16. ASSUME pr[c].st \notin OwesForward, ok
       PROVE  RespOks(a)' = (RespOks(a) \ {m}) \cup {RespOkMessage(a, c, Directory)}
  BY <1>7, <1>8, <1>10, <1>16
<1> QED
  BY <1>1, <1>4, <1>5, <1>12, <1>13, <1>14, <1>15, <1>16 DEF Fwds

\* A core that was served by the LLC at once gets what it was granted.
LEMMA GrantedKept ==
  ASSUME NEW c, NEW a, Granted(c, a), ~Waiting(c, a)', Wbs(c, a)' = {},
         Pend(c, a)' = None, Datas(c, a)' = {}, tag[c][a] = "I", Wbs(c, a) = {},
         \/ Absent(c, a) /\ PendingIn(c, a, {"IS_DI"}) /\ tag'[c][a] = "I"
         \/ Sharing(c, a) /\ PendingIn(c, a, {"IS_D"}) /\ tag'[c][a] = "S"
         \/ Owning(c, a) /\ PendingIn(c, a, {"IM_AD"}) /\ tag'[c][a] = "M"
  PROVE  Kept(c, a)
<1>1. Apart(c, a)'
  BY DEF Apart
<1>2. Datas(c, a) # {}
  BY DEF Granted
<1>3. Absent(c, a)' <=> Absent(c, a)
  BY <1>1, RolesExclude DEF Absent
<1>4. Sharing(c, a) => Sharing(c, a)'
  BY <1>1, RolesExclude, HoldersExclude DEF Sharing
<1>5. Owning(c, a) => Owning(c, a)'
  BY <1>1, RolesExclude, HoldersExclude DEF Owning
<1>6. \A type : ~Leaving(c, a, type)
  BY DEF Leaving
<1>7. \A type, dest : ~OwningFor(c, a, type, dest)
  BY HoldersExclude
<1>8. \A st : ~Expecting(c, a, st) /\ ~Receiving(c, a, st)
  BY HoldersExclude
<1>9. \A owed : ~Collecting(c, a, owed)
  BY RolesExclude, HoldersExclude
<1> QED
  BY <1>3, <1>4, <1>5, <1>6, <1>7, <1>8, <1>9 DEF Kept

\* A step of a core that keeps its role, and is not gone before.
LEMMA StepAtKept ==
  ASSUME Inv, Coherent, NEW c \in Cores, NEW a \in Lines, StepAt(c, a),
         ~Gone(c, a), Kept(c, a), ~Waiting(c, a),
         Fwds(a)' = Fwds(a), Acks(a)' = Acks(a), RespOks(a)' = RespOks(a),
         \A n : n # c => Datas(n, a)' = Datas(n, a)
  PROVE  Coherent'
<1>1. Directory \notin Cores /\ UNCHANGED <<dir, pending>>
  BY ConstantsAssumption DEF StepAt, llcVars
<1>2. LineSteady(a) /\ ForwardsStay(a)
  BY <1>1 DEF LineSteady, ForwardsStay
<1>3. \A d \in Cores : d # c => SameCore(d, a)
  BY StepAtFrame
<1>4. \A d \in Cores : Kept(d, a)
  BY <1>3, SameCoreKept
<1>5. \A d \in Cores : Gone(d, a) => Gone(d, a)'
  BY <1>3 DEF SameCore, Gone
<1>6. LineInv(a)'
  BY <1>2, <1>4, <1>5, LineKept DEF Coherent
<1> QED
  BY <1>6, StepAtCoherent

\* The new owner has the line, and no other core.
LEMMA FinishedCoherent ==
  ASSUME Inv, Coherent, NEW c \in Cores, NEW a \in Lines, StepAt(c, a),
         dir[a].st \in {"SM", "MM"}, InService(a, c, "GetM"),
         dir[a].owner = c, dir[a].sharers = {c},
         Datas(Directory, a)' = {}, Acks(a)' = {}, RespOkDue(a)',
         \A d \in Cores : d # c => Absent(d, a) /\ Datas(d, a)' = Datas(d, a),
         ~Waiting(c, a), Wbs(c, a) = {}, Pend(c, a)' = None, Datas(c, a)' = {},
         tag'[c][a] = "M", Fwds(a)' = Fwds(a)
  PROVE  Coherent'
<1>1. /\ \A d \in Cores : d # c => SameCore(d, a) /\ Kept(d, a)
      /\ ~Waiting(c, a)' /\ Wbs(c, a)' = {}
      /\ dir' = dir /\ pending' = pending
  BY StepAtFrame, SameCoreKept DEF StepAt, llcVars
<1>2. Owning(c, a)'
  BY <1>1 DEF Owning, Apart
<1>3. OthersAbsent(a, {c})'
  BY <1>1 DEF OthersAbsent, Kept
<1>4. Finished(a, c)'
  BY <1>2, <1>3 DEF Finished, Possessing
<1>5. InService(a, c, "GetM")'
  BY <1>1 DEF InService
<1>6. dir[a].st = "SM" => UpgradedLine(a)'
  BY <1>1, <1>4, <1>5 DEF UpgradedLine
<1>7. dir[a].st = "MM" => HandedOverLine(a)'
  BY <1>1, <1>4, <1>5 DEF HandedOverLine
<1>8. HoldersInv(a)'
  BY <1>1, <1>6, <1>7 DEF HoldersInv
<1>9. ForwardsInv(a)'
  <2>1. Recipients(a) = {c} /\ Recipients(a)' = {c}
    BY <1>1 DEF Recipients
  <2>2. LineInv(a)
    BY DEF Coherent
  <2>3. \A m \in Fwds(a)' : m.dst # c /\ m.dst \notin Recipients(a)'
    BY <2>1, <2>2 DEF LineInv, ForwardsInv
  <2>4. \A d \in Cores : d # c =>
          /\ Gone(d, a) => Gone(d, a)'
          /\ Sharing(d, a) => Sharing(d, a)' \/ Gone(d, a)'
          /\ Owning(d, a) => Owning(d, a)' \/ Gone(d, a)'
    BY <1>1 DEF SameCore, Gone, Kept
  <2> QED
    BY <1>1, <2>2, <2>3, <2>4, ForwardsMoved
<1> QED
  BY <1>8, <1>9, StepAtCoherent DEF LineInv

\* A core that collects acknowledgements: nothing but they and the data is on
\* its way.
LEMMA CollectingLine ==
  ASSUME Inv, NEW a \in Lines, HoldersInv(a), NEW q \in Cores,
         dir[a].st = "SM", dir[a].owner = q, ~Owning(q, a),
         ~Leaving(q, a, "PutM")
  PROVE  /\ Datas(Directory, a) = {}
         /\ InService(a, q, "GetM")
         /\ dir[a].sharers = {q}
         /\ RespOks(a) = {}
         /\ Collecting(q, a, Cardinality(Debtors(q, a)))
         /\ AcksTo(q, a)
         /\ \A c \in Cores \ {q} : Absent(c, a) \/ Owing(c, a, q)
         /\ \A m \in Acks(a) : m.sharer \in Debtors(q, a)
         /\ IsFiniteSet(Debtors(q, a)) /\ Cardinality(Debtors(q, a)) \in Nat
<1>1. /\ Datas(Directory, a) = {}
      /\ InService(a, q, "GetM")
      /\ dir[a].sharers = {q}
      /\ RespOks(a) = {}
      /\ Collecting(q, a, Cardinality(Debtors(q, a)))
      /\ AcksTo(q, a)
      /\ \A c \in Cores \ {q} : Absent(c, a) \/ Owing(c, a, q)
  <2>1. ~Finished(a, q)
    BY DEF Finished, Possessing
  <2> QED
    BY <2>1 DEF HoldersInv, UpgradedLine
<1>2. \A m \in Acks(a) : m.sharer \in Debtors(q, a)
  BY <1>1, RolesExclude DEF AcksTo, Debtors
<1>3. IsFiniteSet(Debtors(q, a)) /\ Cardinality(Debtors(q, a)) \in Nat
  <2>1. Debtors(q, a) \subseteq Cores
    BY DEF Debtors
  <2>2. IsFiniteSet(Debtors(q, a))
    BY <2>1, ConstantsAssumption, FS_Subset
  <2> QED
    BY <2>2, FS_CardinalityType
<1> QED
  BY <1>1, <1>2, <1>3

\* The row for data of the directory while acknowledgements are missing.
LEMMA DataAckRow ==
  /\ NextOnDataAck["IM_AD"] = "IM_A" /\ NextOnDataAck["SM_AD"] = "SM_A"
  /\ "IM_AD" \notin OwesForward /\ "SM_AD" \notin OwesForward
  /\ "IS_D" \notin OwesForward /\ "IS_DI" \notin OwesForward
  /\ "IM_A" \notin OwesForward /\ "SM_A" \notin OwesForward
BY DEF NextOnDataAck, AwaitingData, OwesForward

\* DataFromDirAck.
LEMMA DataAckCoherent ==
  ASSUME Inv, Coherent, NEW c \in Cores, NEW a \in Lines, NEW m \in Datas(c, a),
         Pend(c, a) # None,
         dir[a].st = "SM", dir[a].owner = c,
         Collecting(c, a, Cardinality(Debtors(c, a))),
         DataAck(c, m), UNCHANGED <<req, wb, fwd>>, UNCHANGED llcVars
  PROVE  Coherent'
<1>1. /\ pr[c] # None /\ pr[c].line = a /\ Pend(c, a) = pr[c]
      /\ pr[c] \in PendingRequest
      /\ tag[c][a] = "I"
  BY LineFacts
<1>2. /\ m \in rsp /\ m.type = "Data" /\ m.dst = c /\ m.addr = a /\ m.acks \in Int
      /\ Datas(c, a) = {m} /\ Wbs(c, a) = {} /\ ~Waiting(c, a)
  BY DEF Datas, Inv, InterconnectTypeOK, Response, Collecting
<1>3. /\ pr[c].st \in {"IM_AD", "SM_AD"} /\ pr[c].total = 0
      /\ \A owed : Collecting(c, a, owed) => pr[c].acks + owed = m.acks
  BY <1>1, <1>2 DEF Collecting
<1> DEFINE p == [pr[c] EXCEPT !.st = NextOnDataAck[pr[c].st], !.total = m.acks,
                              !.dataValid = TRUE]
<1>4. /\ p.st \in {"IM_A", "SM_A"} /\ p.total = m.acks /\ p.acks = pr[c].acks
      /\ p.line = a /\ p # None
  <2>1. /\ p.st \in {"IM_A", "SM_A"} /\ p.total = m.acks /\ p.acks = pr[c].acks
        /\ p.line = a
    <3>1. p.st = NextOnDataAck[pr[c].st] /\ p.total = m.acks
          /\ p.acks = pr[c].acks /\ p.line = a
      BY <1>1 DEF PendingRequest
    <3> HIDE DEF p
    <3> QED
      BY <1>3, <3>1, DataAckRow
  <2>2. p \in PendingRequest
    <3>1. NextOnDataAck[pr[c].st] \in {"IM_A", "SM_A"}
      BY <1>3, DataAckRow
    <3>2. NextOnDataAck[pr[c].st] \in TransientStates
      BY <3>1 DEF TransientStates, AwaitingAcks
    <3> QED
      BY <1>1, <1>2, <3>2 DEF PendingRequest
  <2> QED
    BY <2>1, <2>2, NotNone
<1>5. pr' = [pr EXCEPT ![c] = p] /\ tag' = tag /\ rsp' = rsp \ {m}
  BY DEF DataAck
<1> HIDE DEF p
<1>6. /\ Pend(c, a)' = p
      /\ \A d \in Cores : \A b : d # c \/ b # a => Pend(d, b)' = Pend(d, b)
  <2>1. CacheInv
    BY DEF Inv
  <2>2. /\ pr' = [pr EXCEPT ![c] = p]
        /\ pr[c] # None => pr[c].line = a
        /\ p # None => p.line = a
    BY <1>1, <1>4, <1>5
  <2> QED
    BY <2>1, <2>2, PendWritten
<1>7. /\ \A n : Datas(n, a)' = Datas(n, a) \ {m}
      /\ Acks(a)' = Acks(a) /\ RespOks(a)' = RespOks(a)
      /\ \A b : b # a => SameResponses(b)
      /\ \A b : Fwds(b)' = Fwds(b)
  BY <1>2, <1>5 DEF Datas, Acks, RespOks, SameResponses, Fwds
<1>8. StepAt(c, a)
  BY <1>5, <1>6, <1>7 DEF StepAt
<1>9. ~Waiting(c, a)' /\ Wbs(c, a)' = {} /\ Datas(c, a)' = {}
  BY <1>2, <1>7, <1>8, StepAtFrame
<1>10. \A owed : Collecting(c, a, owed) => Collecting(c, a, owed)'
  BY <1>1, <1>3, <1>4, <1>5, <1>6, <1>9 DEF Collecting
<1>11. ~Absent(c, a)'
  BY <1>4, <1>6, <1>9 DEF Absent, Apart, Asking, PendingIn
<1>12. Kept(c, a)
  <2>1. ~Absent(c, a) /\ ~Sharing(c, a) /\ ~Owning(c, a)
    BY RolesExclude, HoldersExclude
  <2>2. /\ \A type : ~Leaving(c, a, type)
        /\ \A type, dest : ~OwningFor(c, a, type, dest)
    BY <1>2, HoldersExclude DEF Leaving
  <2>3. \A st : ~Expecting(c, a, st) /\ ~Receiving(c, a, st)
    <3>1. m.src = Directory
      BY <1>1, <1>2, <1>3 DEF Collecting
    <3> QED
      BY <1>2, <3>1 DEF Expecting, Receiving, HandedOver
  <2> QED
    BY <1>10, <1>11, <2>1, <2>2, <2>3 DEF Kept
<1>13. ~Gone(c, a)
  BY <1>1 DEF Gone
<1>14. \A n : n # c => Datas(n, a)' = Datas(n, a)
  BY <1>2, <1>7 DEF Datas
<1> QED
  BY <1>2, <1>7, <1>8, <1>12, <1>13, <1>14, StepAtKept

\* Data.
LEMMA DataCoherent ==
  ASSUME Inv, Coherent, NEW c \in Cores, NEW m \in rsp, ReceiveData(c, m),
         UNCHANGED llcVars
  PROVE  Coherent'
<1> DEFINE a == m.addr
           s == pr[c].st
<1>1. /\ m \in Response /\ a \in Lines /\ m \in Datas(c, a) /\ m.type = "Data"
      /\ m.dst = c /\ m \notin Acks(a) /\ m \notin RespOks(a)
      /\ UNCHANGED <<req, wb, fwd>>
      /\ Pend(c, a) = pr[c] /\ Pend(c, a) # None
  BY DEF ReceiveData, Inv, InterconnectTypeOK, Response, Datas, Pend, HitPr, Acks,
         RespOks
<1>2. HoldersInv(a) /\ LineInv(a) /\ Directory \notin Cores
  BY <1>1, ConstantsAssumption DEF Coherent, LineInv
<1>3. /\ Datas(c, a) = {m}
      /\ tag[c][a] = "I" /\ Wbs(c, a) = {} /\ ~Waiting(c, a) /\ ~Gone(c, a)
  BY <1>1, <1>2, DataRole DEF Gone
<1>4. \A ok \in BOOLEAN : Complete(c, m.data, m, ok) =>
        /\ StepAt(c, a)
        /\ tag'[c][a] = FinalState(s) /\ Pend(c, a)' = None
        /\ Fwds(a)' = Fwds(a)
        /\ Acks(a)' = Acks(a)
        /\ s \notin OwesForward =>
             /\ \A n : Datas(n, a)' = Datas(n, a) \ {m}
             /\ ~ok => RespOks(a)' = RespOks(a)
             /\ ok => RespOks(a)' = RespOks(a) \cup {RespOkMessage(a, c, Directory)}
  <2> SUFFICES ASSUME NEW ok \in BOOLEAN, Complete(c, m.data, m, ok)
               PROVE  /\ StepAt(c, a)
                      /\ tag'[c][a] = FinalState(s) /\ Pend(c, a)' = None
                      /\ Fwds(a)' = Fwds(a)
                      /\ Acks(a)' = Acks(a)
                      /\ s \notin OwesForward =>
                           /\ \A n : Datas(n, a)' = Datas(n, a) \ {m}
                           /\ ~ok => RespOks(a)' = RespOks(a)
                           /\ ok => RespOks(a)' =
                                RespOks(a) \cup {RespOkMessage(a, c, Directory)}
    OBVIOUS
  <2>1. m.addr = a /\ s = Pend(c, a).st
    BY <1>1
  <2> HIDE DEF a, s
  <2>2. /\ StepAt(c, a)
        /\ tag'[c][a] = FinalState(s) /\ Pend(c, a)' = None
        /\ Fwds(a)' = Fwds(a)
        /\ Acks(a)' = Acks(a) \ {m}
        /\ s \notin OwesForward =>
             /\ \A n : Datas(n, a)' = Datas(n, a) \ {m}
             /\ ~ok => RespOks(a)' = RespOks(a) \ {m}
             /\ ok => RespOks(a)' = (RespOks(a) \ {m})
                                       \cup {RespOkMessage(a, c, Directory)}
    BY <1>1, <2>1, CompleteFrame
  <2> QED
    BY <1>1, <2>2
<1>5. \A n : n # c => Datas(n, a) \ {m} = Datas(n, a)
  BY <1>1 DEF Datas
<1>6. ASSUME Granted(c, a), m.src = Directory, m.acks = 0,
             \/ Absent(c, a) /\ PendingIn(c, a, {"IS_DI"})
             \/ Sharing(c, a) /\ PendingIn(c, a, {"IS_D"})
             \/ Owning(c, a) /\ PendingIn(c, a, {"IM_AD"})
      PROVE  Coherent'
  <2>1. s \in {"IS_DI", "IS_D", "IM_AD"} /\ s \notin OwesForward
    BY <1>1, <1>6, DataAckRow DEF PendingIn
  <2>2. Complete(c, m.data, m, FALSE)
    <3>1. s # "SM_AD"
      BY <2>1
    <3>2. Complete(c, m.data, m, s = "SM_AD")
      BY <1>6 DEF ReceiveData
    <3>3. (s = "SM_AD") = FALSE
      BY <3>1
    <3> QED
      BY <3>2, <3>3
  <2>3. /\ StepAt(c, a)
        /\ tag'[c][a] = FinalState(s) /\ Pend(c, a)' = None
        /\ Fwds(a)' = Fwds(a)
        /\ Acks(a)' = Acks(a)
        /\ \A n : Datas(n, a)' = Datas(n, a) \ {m}
        /\ RespOks(a)' = RespOks(a)
    BY <1>4, <2>1, <2>2
  <2>4. /\ ~Waiting(c, a)' /\ Wbs(c, a)' = {} /\ Datas(c, a)' = {}
        /\ \A n : n # c => Datas(n, a)' = Datas(n, a)
    BY <1>3, <1>5, <2>3, StepAtFrame
  <2>5. \/ Absent(c, a) /\ PendingIn(c, a, {"IS_DI"}) /\ tag'[c][a] = "I"
        \/ Sharing(c, a) /\ PendingIn(c, a, {"IS_D"}) /\ tag'[c][a] = "S"
        \/ Owning(c, a) /\ PendingIn(c, a, {"IM_AD"}) /\ tag'[c][a] = "M"
    BY <1>1, <1>6, <2>3, FinalStates DEF PendingIn
  <2>6. Kept(c, a)
    BY <1>3, <1>6, <2>3, <2>4, <2>5, GrantedKept
  <2> QED
    BY <1>1, <1>3, <2>3, <2>4, <2>6, StepAtKept
<1>7. ASSUME NEW type \in {"GetS", "GetM"}, NEW n \in Nodes, OwningFor(c, a, type, n),
             m.src = Directory, m.acks = 0
      PROVE  Coherent'
  <2>1. /\ s = IF type = "GetS" THEN "IM_AD_S" ELSE "IM_AD_I"
        /\ pr[c].fwdDest = n
    BY <1>1, <1>7 DEF OwningFor, Served, PendingIn
  <2>2. Complete(c, m.data, m, FALSE)
    <3>1. Complete(c, m.data, m, s = "SM_AD")
      BY <1>7 DEF ReceiveData
    <3>2. (s = "SM_AD") = FALSE
      BY <2>1
    <3> QED
      BY <3>1, <3>2
  <2>3. /\ StepAt(c, a)
        /\ tag'[c][a] = IF type = "GetS" THEN "S" ELSE "I"
        /\ Pend(c, a)' = None
        /\ Fwds(a)' = Fwds(a)
    BY <1>4, <2>1, <2>2, FinalStates
  <2>4. pr[c].line = a
    BY <1>1, LineFacts
  <2>5. PICK d : rsp' = (rsp \ {m}) \cup CompletionMessages(c, s, a, d, FALSE)
    BY <2>2, <2>4 DEF Complete
  <2> DEFINE dests == IF type = "GetS" THEN {n, Directory} ELSE {n}
             line(x) == DataMessage(a, c, x, 0, d)
             sent == {line(x) : x \in dests}
             taken == {m}
  <2>6. CompletionMessages(c, s, a, d, FALSE) = sent
    BY <2>1 DEF CompletionMessages, OwesForward, OwesDirectory
  <2>7. \A k \in sent : /\ k.type = "Data" /\ k.addr = a /\ k.src = c
                        /\ k.dst = n \/ (type = "GetS" /\ k.dst = Directory)
    BY DEF DataMessage
  <2>8. \A x \in dests : \E k \in sent : /\ k.dst = x
                                         /\ \A l \in sent : l.dst = x => l = k
    <3>1. \A x : line(x).dst = x
      BY DEF DataMessage
    <3> HIDE DEF line
    <3> QED
      BY <3>1
  <2>9. rsp' = (rsp \ taken) \cup sent
    BY <2>5, <2>6
  <2> HIDE DEF sent
  <2>10. SendsLine(c, a, type, n, taken, sent)
    BY <1>1, <1>3, <2>7, <2>8, <2>9 DEF SendsLine
  <2>11. \A k \in Fwds(a)' : k.dst # c
    BY <1>1, <1>2, <1>3, <1>7, <2>3, HoldersExclude, NoForwardsTo
  <2> HIDE DEF a, taken
  <2> QED
    BY <1>1, <1>7, <2>3, <2>10, <2>11, HandoverCoherent
<1>8. ASSUME dir[a].st = "SM", dir[a].owner = c,
             Collecting(c, a, Cardinality(Debtors(c, a)))
      PROVE  Coherent'
  <2>1. /\ s \in {"IM_AD", "SM_AD"} /\ s \notin OwesForward
        /\ m.src = Directory
        /\ pr[c].acks + Cardinality(Debtors(c, a)) = m.acks
        /\ s = "IM_AD" => m.acks # 0
    BY <1>1, <1>3, <1>8, DataAckRow DEF Collecting
  <2>2. ~Owning(c, a) /\ ~Leaving(c, a, "PutM")
    BY <1>3, <1>8, HoldersExclude DEF Leaving
  <2>3. /\ Datas(Directory, a) = {}
        /\ InService(a, c, "GetM")
        /\ dir[a].sharers = {c}
        /\ RespOks(a) = {}
        /\ AcksTo(c, a)
        /\ \A k \in Acks(a) : k.sharer \in Debtors(c, a)
        /\ IsFiniteSet(Debtors(c, a)) /\ Cardinality(Debtors(c, a)) \in Nat
    BY <1>1, <1>2, <1>8, <2>2, CollectingLine
  <2>4. pr[c].acks \in Nat /\ m.acks \in Int
    BY <1>1, LineFacts DEF PendingRequest, Response
  <2>5. CASE DataAck(c, m)
    BY <1>1, <1>8, <2>5, DataAckCoherent
  <2>6. CASE ~DataAck(c, m)
    <3>1. Complete(c, m.data, m, TRUE)
      <4>1. \/ Complete(c, m.data, m, s = "SM_AD") /\ m.acks = 0
            \/ Complete(c, m.data, m, s \in {"IM_AD", "SM_AD"})
        BY <2>1, <2>6 DEF ReceiveData
      <4>2. (s \in {"IM_AD", "SM_AD"}) = TRUE
        BY <2>1
      <4>3. m.acks = 0 => (s = "SM_AD") = TRUE
        BY <2>1
      <4> QED
        BY <4>1, <4>2, <4>3
    <3>2. pr[c].acks = m.acks
      <4>1. m.acks = 0 => pr[c].acks = 0
        BY <2>1, <2>3, <2>4
      <4> QED
        BY <2>1, <2>6, <4>1 DEF ReceiveData
    <3>3. Debtors(c, a) = {}
      <4>1. Cardinality(Debtors(c, a)) = 0
        BY <2>1, <2>3, <2>4, <3>2
      <4> QED
        BY <2>3, <4>1, FS_EmptySet
    <3>4. /\ StepAt(c, a)
          /\ tag'[c][a] = "M" /\ Pend(c, a)' = None
          /\ Fwds(a)' = Fwds(a)
          /\ Acks(a)' = Acks(a)
          /\ \A x : Datas(x, a)' = Datas(x, a) \ {m}
          /\ RespOks(a)' = RespOks(a) \cup {RespOkMessage(a, c, Directory)}
      BY <1>4, <2>1, <3>1, FinalStates
    <3>5. RespOkDue(a)'
      BY <2>3, <3>4 DEF RespOkDue
    <3>6. Acks(a)' = {}
      BY <2>3, <3>3, <3>4
    <3>7. \A d \in Cores : d # c => Absent(d, a) /\ Datas(d, a)' = Datas(d, a)
      BY <1>5, <3>3, <3>4 DEF Debtors
    <3>8. Datas(c, a)' = {} /\ Datas(Directory, a)' = {}
      BY <1>3, <2>3, <3>4
    <3> QED
      BY <1>1, <1>3, <1>8, <2>3, <3>4, <3>5, <3>6, <3>7, <3>8, FinishedCoherent
  <2> QED
    BY <2>5, <2>6
<1>9. ASSUME Receiving(c, a, "IM_AD") \/ Receiving(c, a, "IS_D")
      PROVE  /\ StepAt(c, a)
             /\ tag'[c][a] = IF s = "IS_D" THEN "S" ELSE "M"
             /\ Pend(c, a)' = None
             /\ Fwds(a)' = Fwds(a)
             /\ Acks(a)' = Acks(a)
             /\ \A n : Datas(n, a)' = Datas(n, a) \ {m}
             /\ RespOks(a)' = RespOks(a) \cup {RespOkMessage(a, c, Directory)}
             /\ Receiving(c, a, "IM_AD") => s = "IM_AD"
             /\ Receiving(c, a, "IS_D") => s = "IS_D"
  <2>1. /\ s \in {"IM_AD", "IS_D"} /\ s \notin OwesForward
        /\ Receiving(c, a, "IM_AD") => s = "IM_AD"
        /\ Receiving(c, a, "IS_D") => s = "IS_D"
    BY <1>1, <1>9, DataAckRow DEF Receiving, Served, PendingIn
  <2>2. m.src # Directory
    BY <1>3, <1>9 DEF Receiving, HandedOver
  <2>3. Complete(c, m.data, m, TRUE)
    BY <2>2 DEF ReceiveData
  <2> QED
    BY <1>4, <2>1, <2>3, FinalStates
<1>10. ASSUME dir[a].st = "MM", dir[a].owner = c, Receiving(c, a, "IM_AD")
       PROVE  Coherent'
  <2>1. /\ ~Absent(c, a) /\ ~Owning(c, a) /\ ~Leaving(c, a, "PutM")
        /\ ~Expecting(c, a, "IM_AD")
    BY <1>1, <1>3, <1>10, HoldersExclude DEF Leaving, Expecting
  <2>2. /\ Datas(Directory, a) = {}
        /\ InService(a, c, "GetM")
        /\ dir[a].sharers = {c}
        /\ Acks(a) = {}
        /\ RespOks(a) = {}
        /\ \A d \in Cores : d # c => Absent(d, a)
    <3>1. ~Finished(a, c)
      BY <2>1 DEF Finished, Possessing
    <3> QED
      BY <1>2, <1>10, <2>1, <3>1 DEF HoldersInv, HandedOverLine, OthersAbsent
  <2>3. /\ StepAt(c, a)
        /\ tag'[c][a] = "M" /\ Pend(c, a)' = None
        /\ Fwds(a)' = Fwds(a)
        /\ Acks(a)' = Acks(a)
        /\ \A x : Datas(x, a)' = Datas(x, a) \ {m}
        /\ RespOks(a)' = RespOks(a) \cup {RespOkMessage(a, c, Directory)}
    BY <1>9, <1>10
  <2>4. RespOkDue(a)' /\ Datas(c, a)' = {} /\ Datas(Directory, a)' = {}
    BY <1>3, <2>2, <2>3 DEF RespOkDue
  <2>5. \A d \in Cores : d # c => Datas(d, a)' = Datas(d, a)
    BY <1>5, <2>3
  <2> QED
    BY <1>1, <1>3, <1>10, <2>2, <2>3, <2>4, <2>5, FinishedCoherent
<1>11. ASSUME dir[a].st \in {"MS_AD", "MS_A"}, InService(a, c, "GetS"),
              Receiving(c, a, "IS_D")
       PROVE  Coherent'
  <2>1. /\ ~Absent(c, a) /\ ~Sharing(c, a) /\ ~Leaving(c, a, "PutS")
        /\ ~Expecting(c, a, "IS_D")
    BY <1>1, <1>3, <1>11, HoldersExclude DEF Leaving, Expecting
  <2>2. /\ Acks(a) = {}
        /\ RespOks(a) = {}
        /\ c \in dir[a].sharers
        /\ OthersAbsent(a, dir[a].sharers)
        /\ \A d \in dir[a].sharers \ {c} : Keeping(d, a)
        /\ dir[a].st = "MS_AD" => HandedOver(Directory, a)
        /\ dir[a].st = "MS_A" => Datas(Directory, a) = {}
    <3>1. PICK q \in Cores :
            /\ InService(a, q, "GetS")
            /\ \/ dir[a].st = "MS_AD" /\ Downgrading(a, q)
               \/ Downgraded(a, q)
            /\ dir[a].st = "MS_AD" => Downgrading(a, q) \/ HandedOver(Directory, a)
            /\ dir[a].st = "MS_A" => Datas(Directory, a) = {}
      BY <1>2, <1>11 DEF HoldersInv, DowngradedLine
    <3>2. q = c
      BY <1>11, <3>1 DEF InService
    <3>3. ~Downgrading(a, q)
      BY <2>1, <3>2 DEF Downgrading
    <3>4. c \in dir[a].sharers
      BY <2>1, <3>1, <3>3 DEF Downgraded, OthersAbsent
    <3> QED
      BY <2>1, <3>1, <3>2, <3>3, <3>4 DEF Downgraded, Keeping
  <2>3. /\ StepAt(c, a)
        /\ tag'[c][a] = "S" /\ Pend(c, a)' = None
        /\ Fwds(a)' = Fwds(a)
        /\ Acks(a)' = Acks(a)
        /\ \A x : Datas(x, a)' = Datas(x, a) \ {m}
        /\ RespOks(a)' = RespOks(a) \cup {RespOkMessage(a, c, Directory)}
    BY <1>9, <1>11
  <2>4. /\ RespOkDue(a)' /\ Datas(c, a)' = {}
        /\ Datas(Directory, a)' = Datas(Directory, a)
        /\ \A d \in Cores : d # c => Datas(d, a)' = Datas(d, a)
    BY <1>2, <1>3, <1>5, <2>2, <2>3 DEF RespOkDue
  <2>5. /\ \A d \in Cores : d # c => SameCore(d, a) /\ Kept(d, a)
        /\ ~Waiting(c, a)' /\ Wbs(c, a)' = {}
        /\ dir' = dir /\ pending' = pending
    BY <1>1, <1>3, <2>3, <2>4, StepAtFrame, SameCoreKept DEF StepAt, llcVars
  <2>6. Sharing(c, a)'
    BY <2>3, <2>4, <2>5 DEF Sharing, Apart
  <2>7. \A d \in dir[a].sharers : Keeping(d, a)'
    <3>1. dir[a].sharers \subseteq Cores
      BY <1>1 DEF Inv, LLCInv, LLCTypeOK, Entry
    <3> QED
      BY <2>2, <2>5, <2>6, <3>1 DEF Keeping, Kept
  <2>8. OthersAbsent(a, dir[a].sharers)'
    BY <2>2, <2>5 DEF OthersAbsent, Kept
  <2>9. Downgraded(a, c)'
    BY <2>2, <2>3, <2>4, <2>5, <2>7, <2>8 DEF Downgraded
  <2>10. HoldersInv(a)'
    <3>1. InService(a, c, "GetS")'
      BY <1>11, <2>5 DEF InService
    <3>2. dir[a].st = "MS_AD" => HandedOver(Directory, a)'
      BY <2>2, <2>4 DEF HandedOver
    <3>3. DowngradedLine(a)'
      BY <1>11, <2>2, <2>4, <2>5, <2>9, <3>1, <3>2 DEF DowngradedLine
    <3> QED
      BY <1>11, <2>5, <3>3 DEF HoldersInv
  <2>11. ForwardsInv(a)'
    <3>1. Recipients(a)' = Recipients(a) /\ c \in Recipients(a)
      BY <1>11, <2>2, <2>4, <2>5 DEF Recipients, HandedOver
    <3>2. \A k \in Fwds(a)' : k.dst # c /\ k.dst \notin Recipients(a)'
      BY <1>2, <2>3, <3>1 DEF LineInv, ForwardsInv
    <3>3. \A d \in Cores : d # c =>
            /\ Gone(d, a) => Gone(d, a)'
            /\ Sharing(d, a) => Sharing(d, a)' \/ Gone(d, a)'
            /\ Owning(d, a) => Owning(d, a)' \/ Gone(d, a)'
      BY <2>5 DEF SameCore, Gone, Kept
    <3> QED
      BY <1>1, <1>2, <2>3, <2>5, <3>2, <3>3, ForwardsMoved
  <2>12. LineInv(a)'
    BY <2>10, <2>11 DEF LineInv
  <2> QED
    BY <1>1, <1>3, <2>3, <2>12, StepAtCoherent
<1> QED
  <2> HIDE DEF a
  <2> QED
    BY <1>1, <1>2, <1>6, <1>7, <1>8, <1>10, <1>11, DataRole

\* The core an acknowledgement is for.
LEMMA AckRole ==
  ASSUME Inv, NEW a \in Lines, HoldersInv(a), NEW c \in Cores,
         NEW m \in Acks(a), m.dst = c
  PROVE  /\ dir[a].st = "SM"
         /\ dir[a].owner = c
         /\ ~Owning(c, a) /\ ~Leaving(c, a, "PutM")
<1>1. dir[a] \in Entry /\ Directory \notin Cores
  BY ConstantsAssumption DEF Inv, LLCInv, LLCTypeOK
<1>2. dir[a].st = "SM"
  BY <1>1
     DEF Entry, DirStates, DirStable, DirBusy, HoldersInv, InvalidLine, SharedLine,
         ModifiedLine, Quiet, HandedOverLine, Finished, DowngradedLine, Downgrading,
         Downgraded, AbandonedLine, RecalledLine, RecalledFromOwner, AcksTo
<1>3. PICK q \in Cores :
        /\ dir[a].owner = q
        /\ Collecting(q, a, Cardinality(Debtors(q, a)))
        /\ AcksTo(q, a)
  BY <1>2 DEF HoldersInv, UpgradedLine, Finished
<1>4. q = c
  BY <1>3 DEF AcksTo
<1>5. ~Leaving(c, a, "PutM")
  BY <1>3, <1>4 DEF Leaving, Collecting, Apart, Asking
<1> QED
  BY <1>2, <1>3, <1>4, <1>5, HoldersExclude

\* One acknowledgement less to get.
LEMMA DebtorsPaid ==
  ASSUME Inv, NEW a \in Lines, NEW c \in Cores, NEW m \in Acks(a),
         AcksTo(c, a), ~Absent(c, a), m.sharer \in Debtors(c, a),
         Acks(a)' = Acks(a) \ {m},
         \A d \in Cores : d # c => (Absent(d, a)' <=> Absent(d, a))
  PROVE  Debtors(c, a)' = Debtors(c, a) \ {m.sharer} /\ AcksTo(c, a)'
<1>1. /\ \A k \in Acks(a) : k.dst = c /\ k.sharer \in Cores /\ Absent(k.sharer, a)
      /\ \A k \in Acks(a) : k.sharer = m.sharer => k = m
  BY DEF AcksTo
<1>2. \A s \in Cores \ {c} :
        (\E k \in Acks(a)' : k.sharer = s) <=>
          (\E k \in Acks(a) : k.sharer = s) /\ s # m.sharer
  BY <1>1
<1>3. Debtors(c, a)' = Debtors(c, a) \ {m.sharer}
  BY <1>1, <1>2 DEF Debtors
<1>4. \A k \in Acks(a)' : k.dst = c /\ k.sharer \in Cores /\ Absent(k.sharer, a)'
  BY <1>1
<1>5. \A k, l \in Acks(a)' : k.sharer = l.sharer => k = l
  BY DEF AcksTo
<1> QED
  BY <1>3, <1>4, <1>5 DEF AcksTo

\* An acknowledgement that is not the last one.
LEMMA AckCounted ==
  ASSUME Inv, Coherent, NEW c \in Cores, NEW a \in Lines, NEW m \in Acks(a),
         m.dst = c, Pend(c, a) # None, m \in rsp,
         NEW p \in PendingRequest, p.acks = pr[c].acks + 1,
         p.st = pr[c].st, p.total = pr[c].total, p.line = a,
         pr' = [pr EXCEPT ![c] = p],
         rsp' = rsp \ {m},
         UNCHANGED <<req, wb, fwd, tag>>, UNCHANGED llcVars
  PROVE  Coherent'
<1>1. /\ pr[c] # None /\ pr[c].line = a /\ Pend(c, a) = pr[c]
      /\ pr[c] \in PendingRequest
  BY LineFacts
<1>2. /\ HoldersInv(a) /\ LineInv(a) /\ Directory \notin Cores
      /\ dir[a].st = "SM" /\ dir[a].owner = c
      /\ ~Owning(c, a) /\ ~Leaving(c, a, "PutM")
  BY AckRole, ConstantsAssumption DEF Coherent, LineInv
<1>3. /\ Datas(Directory, a) = {}
      /\ InService(a, c, "GetM")
      /\ dir[a].sharers = {c}
      /\ RespOks(a) = {}
      /\ Collecting(c, a, Cardinality(Debtors(c, a)))
      /\ AcksTo(c, a)
      /\ \A d \in Cores \ {c} : Absent(d, a) \/ Owing(d, a, c)
      /\ m.sharer \in Debtors(c, a)
      /\ IsFiniteSet(Debtors(c, a)) /\ Cardinality(Debtors(c, a)) \in Nat
  BY <1>2, CollectingLine
<1>4. p # None
  BY NotNone
<1>6. /\ Pend(c, a)' = p
      /\ \A d \in Cores : \A b : d # c \/ b # a => Pend(d, b)' = Pend(d, b)
  BY <1>1, <1>4, PendWritten DEF Inv
<1>7. /\ \A n : Datas(n, a)' = Datas(n, a)
      /\ Acks(a)' = Acks(a) \ {m} /\ RespOks(a)' = RespOks(a)
      /\ \A b : b # a => SameResponses(b)
      /\ \A b : Fwds(b)' = Fwds(b)
  BY DEF Datas, Acks, RespOks, SameResponses, Fwds
<1>8. StepAt(c, a)
  BY <1>6, <1>7 DEF StepAt
<1>9. /\ ~Waiting(c, a) /\ ~Waiting(c, a)' /\ Wbs(c, a)' = {}
      /\ \A d \in Cores : d # c => SameCore(d, a) /\ Kept(d, a)
      /\ dir' = dir /\ pending' = pending
  BY <1>3, <1>7, <1>8, StepAtFrame, SameCoreKept DEF Collecting, StepAt, llcVars
<1>10. Debtors(c, a)' = Debtors(c, a) \ {m.sharer} /\ AcksTo(c, a)'
  <2>1. \A d \in Cores : d # c => (Absent(d, a)' <=> Absent(d, a))
    BY <1>9 DEF Kept
  <2>2. ~Absent(c, a) /\ Acks(a)' = Acks(a) \ {m}
    BY <1>3, <1>7, RolesExclude
  <2> QED
    BY <1>3, <2>1, <2>2, DebtorsPaid
<1>11. Cardinality(Debtors(c, a))' = Cardinality(Debtors(c, a)) - 1
  <2> DEFINE D == Debtors(c, a)
             x == m.sharer
  <2>1. IsFiniteSet(D) /\ x \in D /\ D' = D \ {x}
    BY <1>3, <1>10
  <2> HIDE DEF D, x
  <2>2. Cardinality(D \ {x}) = Cardinality(D) - 1
    BY <2>1, FS_RemoveElement
  <2>3. Cardinality(D)' = Cardinality(D) - 1
    BY <2>1, <2>2
  <2> QED
    BY <2>3 DEF D
<1>12. Collecting(c, a, Cardinality(Debtors(c, a)))'
  <2> DEFINE owed == Cardinality(Debtors(c, a))
  <2>1. owed \in Nat /\ owed' = owed - 1 /\ Collecting(c, a, owed)
    BY <1>3, <1>11
  <2> HIDE DEF owed
  <2>2. pr[c].acks \in Nat /\ pr[c].total \in Int
    BY <1>1 DEF PendingRequest
  <2>3. pr[c].acks + 1 + (owed - 1) = pr[c].acks + owed
    BY <2>1, <2>2
  <2>4. Collecting(c, a, owed)'
    BY <1>1, <1>4, <1>6, <1>7, <1>9, <2>1, <2>3 DEF Collecting
  <2> QED
    BY <2>4 DEF owed
<1>13. \A d \in Cores \ {c} : Absent(d, a)' \/ Owing(d, a, c)'
  <2>1. \A d \in Cores \ {c} : Owing(d, a, c) => Owing(d, a, c)'
    <3> SUFFICES ASSUME NEW d \in Cores \ {c}, Owing(d, a, c)
                 PROVE  Owing(d, a, c)'
      OBVIOUS
    <3>1. CASE Leaving(d, a, "PutS")
      BY <1>9, <3>1 DEF Kept, Owing
    <3>2. CASE Sharing(d, a) /\ ForwardMessage("Inv", a, d, c) \in Fwds(a)
      <4>1. ~Gone(d, a) /\ ~Gone(d, a)'
        BY <1>9, <3>2, RolesExclude DEF SameCore, Gone
      <4> QED
        BY <1>7, <1>9, <3>2, <4>1 DEF Kept, Owing
    <3> QED
      BY <3>1, <3>2 DEF Owing
  <2> QED
    BY <1>3, <1>9, <2>1 DEF Kept
<1>14. HoldersInv(a)'
  <2>1. InService(a, c, "GetM")'
    BY <1>3, <1>9 DEF InService
  <2>2. UpgradedLine(a)'
    BY <1>2, <1>3, <1>7, <1>9, <1>10, <1>12, <1>13, <2>1 DEF UpgradedLine
  <2> QED
    BY <1>2, <1>9, <2>2 DEF HoldersInv
<1>15. ForwardsInv(a)'
  <2>1. Recipients(a)' = Recipients(a) /\ c \in Recipients(a)
    BY <1>2, <1>3, <1>9 DEF Recipients
  <2>2. \A k \in Fwds(a)' : k.dst # c /\ k.dst \notin Recipients(a)'
    BY <1>2, <1>7, <2>1 DEF LineInv, ForwardsInv
  <2>3. \A d \in Cores : d # c =>
          /\ Gone(d, a) => Gone(d, a)'
          /\ Sharing(d, a) => Sharing(d, a)' \/ Gone(d, a)'
          /\ Owning(d, a) => Owning(d, a)' \/ Gone(d, a)'
    BY <1>9 DEF SameCore, Gone, Kept
  <2> QED
    BY <1>2, <1>7, <1>9, <2>2, <2>3, ForwardsMoved
<1>16. LineInv(a)'
  BY <1>14, <1>15 DEF LineInv
<1> QED
  BY <1>8, <1>9, <1>16, StepAtCoherent

\* Ack.
LEMMA AckCoherent ==
  ASSUME Inv, Coherent, NEW c \in Cores, NEW m \in rsp, ReceiveAck(c, m),
         UNCHANGED llcVars
  PROVE  Coherent'
<1> DEFINE a == m.addr
           s == pr[c].st
<1>1. /\ a \in Lines /\ m \in Acks(a) /\ m.type = "Ack"
      /\ m.dst = c /\ \A n : m \notin Datas(n, a)
      /\ m \notin RespOks(a)
      /\ UNCHANGED <<req, wb, fwd>>
      /\ Pend(c, a) = pr[c] /\ Pend(c, a) # None
  BY DEF ReceiveAck, Inv, InterconnectTypeOK, Response, Datas, Pend, HitPr, Acks,
         RespOks
<1>2. CASE /\ pr' = [pr EXCEPT ![c] = [pr[c] EXCEPT !.acks = pr[c].acks + 1]]
           /\ rsp' = rsp \ {m}
           /\ UNCHANGED <<tag, data, mshr, latest, toCore>>
  <2> DEFINE p == [pr[c] EXCEPT !.acks = pr[c].acks + 1]
  <2>1. /\ p \in PendingRequest /\ p.acks = pr[c].acks + 1
        /\ p.st = pr[c].st /\ p.total = pr[c].total /\ p.line = a
    BY <1>1, LineFacts DEF PendingRequest
  <2>2. pr' = [pr EXCEPT ![c] = p] /\ rsp' = rsp \ {m} /\ UNCHANGED tag
    BY <1>2
  <2> HIDE DEF a, p
  <2> QED
    BY <1>1, <2>1, <2>2, AckCounted
<1>4. ASSUME NEW cl, NEW ok \in BOOLEAN, Complete(c, cl, m, ok)
      PROVE  /\ StepAt(c, a)
             /\ tag'[c][a] = FinalState(s) /\ Pend(c, a)' = None
             /\ Fwds(a)' = Fwds(a)
             /\ Acks(a)' = Acks(a) \ {m}
             /\ s \notin OwesForward =>
                  /\ \A n : Datas(n, a)' = Datas(n, a) \ {m}
                  /\ ok => RespOks(a)' = (RespOks(a) \ {m})
                                           \cup {RespOkMessage(a, c, Directory)}
  <2>1. m.addr = a /\ s = Pend(c, a).st
    BY <1>1
  <2> HIDE DEF a, s
  <2> QED
    BY <1>1, <1>4, <2>1, CompleteFrame
<1>3. CASE /\ pr[c].acks = pr[c].total - 1
           /\ s \in AwaitingAcks
           /\ Complete(c, data[c][a], m, s \in {"IM_A", "SM_A"})
  <2>1. /\ HoldersInv(a)
        /\ dir[a].st = "SM" /\ dir[a].owner = c
        /\ ~Owning(c, a) /\ ~Leaving(c, a, "PutM")
    BY <1>1, AckRole DEF Coherent, LineInv
  <2>2. /\ Datas(Directory, a) = {}
        /\ InService(a, c, "GetM")
        /\ dir[a].sharers = {c}
        /\ RespOks(a) = {}
        /\ Collecting(c, a, Cardinality(Debtors(c, a)))
        /\ AcksTo(c, a)
        /\ \A k \in Acks(a) : k.sharer \in Debtors(c, a)
        /\ IsFiniteSet(Debtors(c, a)) /\ Cardinality(Debtors(c, a)) \in Nat
    BY <1>1, <2>1, CollectingLine
  <2>3. /\ s \in {"IM_A", "SM_A"} /\ s \notin OwesForward /\ Datas(c, a) = {}
        /\ pr[c].acks + Cardinality(Debtors(c, a)) = pr[c].total
        /\ ~Waiting(c, a) /\ Wbs(c, a) = {}
    BY <1>1, <1>3, <2>2, DataAckRow DEF Collecting, AwaitingAcks
  <2>4. Cardinality(Debtors(c, a)) = 1
    <3>1. pr[c].acks \in Nat /\ pr[c].total \in Int
      BY <1>1, LineFacts DEF PendingRequest
    <3> QED
      BY <1>3, <2>2, <2>3, <3>1
  <2>5. \A d \in Debtors(c, a) : d = m.sharer
    <3>1. PICK x : Debtors(c, a) = {x}
      BY <2>2, <2>4, FS_Singleton
    <3> QED
      BY <1>1, <2>2, <3>1
  <2>6. \A k \in Acks(a) : k = m
    BY <1>1, <2>2, <2>5 DEF AcksTo
  <2>7. \A d \in Cores : d # c => Absent(d, a)
    BY <1>1, <2>2, <2>5 DEF Debtors, AcksTo
  <2>8. Complete(c, data[c][a], m, TRUE)
    <3>1. (s \in {"IM_A", "SM_A"}) = TRUE
      BY <2>3
    <3> QED
      BY <1>3, <3>1
  <2>9. /\ StepAt(c, a)
        /\ tag'[c][a] = "M" /\ Pend(c, a)' = None
        /\ Fwds(a)' = Fwds(a)
        /\ Acks(a)' = Acks(a) \ {m}
        /\ \A n : Datas(n, a)' = Datas(n, a) \ {m}
        /\ RespOks(a)' = (RespOks(a) \ {m}) \cup {RespOkMessage(a, c, Directory)}
    BY <1>4, <2>3, <2>8, FinalStates
  <2>10. /\ RespOkDue(a)' /\ Acks(a)' = {}
         /\ \A n : Datas(n, a)' = Datas(n, a)
    BY <1>1, <2>2, <2>6, <2>9 DEF RespOkDue
  <2> QED
    BY <1>1, <2>1, <2>2, <2>3, <2>7, <2>9, <2>10, FinishedCoherent
<1> QED
  BY <1>1, <1>2, <1>3 DEF ReceiveAck

\* Every step of a cache.
LEMMA CacheStepCoherent ==
  ASSUME Inv, Coherent, TimelyForwards, NEW c \in Cores, CacheStep(c),
         UNCHANGED llcVars
  PROVE  Coherent'
BY CoreStepCoherent, FwdGetCoherent, InvCoherent, DataCoherent, AckCoherent
   DEF CacheStep, ForwardStep, ResponseStep
=============================================================================
