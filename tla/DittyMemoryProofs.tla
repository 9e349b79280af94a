-------------------------- MODULE DittyMemoryProofs ---------------------------
(***************************************************************************)
(* What the lines contain, for every number of cores, lines, values and    *)
(* ways: copies, data on their way, write-backs, the LLC and DRAM have the *)
(* contents last given to a line that is not spoiled (ContentsInv); and    *)
(* the system implements CoherentMemory.  CoherenceInv, proved in          *)
(* CoherenceProofs, says who can have a copy or a datum at all, in         *)
(* particular that nobody else has one when a store is completed: that is  *)
(* also why a store makes a spoiled line reliable again.                   *)
(*                                                                         *)
(* The lemmas are about one line b; a is the line a step is about.         *)
(***************************************************************************)
EXTENDS DittyMemory, CoherenceProofs

-----------------------------------------------------------------------------
(* Steps of the LLC.                                                       *)

\* A step that gives the line no other contents, keeps the copies and the
\* requests, and sends only what is current.
LEMMA CurrentKept ==
  ASSUME NEW b \in Lines, Current(b), UNCHANGED <<tag, data, pr, latest>>,
         \A m \in rsp' :
           m \in rsp \/ (ToBeKept(m) /\ m.addr = b => m.data = latest[b]),
         wb' \subseteq wb,
         MemoryCurrent(b)'
  PROVE  Current(b)'
<1>1. \A m : ToBeKept(m)' <=> ToBeKept(m)
  BY DEF ToBeKept, HitPr
<1> QED
  BY <1>1 DEF Current, CopiesCurrent, DataCurrent, WritebacksCurrent

\* One line of the LLC changes.
LEMMA MemoryKept ==
  ASSUME Inv, NEW b \in Lines, MemoryCurrent(b), UNCHANGED latest, NEW a \in Lines,
         b # a => /\ dir'[b] = dir[b]
                  /\ llc'[b] = llc[b]
                  /\ dram'[b] = dram[b],
         b = a => /\ dir'[b].st # "V"
                  /\ dir'[b].st \in Clean => llc'[b] = latest[b]
                  /\ dir'[b].st = "I" => \/ llc'[b] = latest[b]
                                         \/ llc'[b] = None /\ dram'[b] = latest[b]
  PROVE  MemoryCurrent(b)'
<1>1. latest[b] # None
  BY ConstantsAssumption DEF Inv, CacheInv, CacheTypeOK
<1>2. b # a => DirState(b)' = DirState(b)
  BY DEF DirState, DirHit, LlcHit
<1>3. b = a => /\ DirState(b)' = "V" => llc'[b] = latest[b]
               /\ DirState(b)' = "I" => dram'[b] = latest[b]
  BY <1>1 DEF DirState, DirHit, LlcHit
<1> QED
  BY <1>2, <1>3 DEF MemoryCurrent

\* Where the entry is a's alone to change.
LEMMA LineSet ==
  ASSUME Inv, NEW a \in Lines
  PROVE  /\ \A e : SetEntry(a, e) => /\ dir'[a] = e
                                     /\ \A b \in Lines : b # a => dir'[b] = dir[b]
         /\ \A d : llc' = [llc EXCEPT ![a] = d] =>
              llc'[a] = d /\ \A b \in Lines : b # a => llc'[b] = llc[b]
         /\ \A d : dram' = [dram EXCEPT ![a] = d] =>
              dram'[a] = d /\ \A b \in Lines : b # a => dram'[b] = dram[b]
BY DEF SetEntry, Inv, LLCInv, LLCTypeOK

\* The LLC holds what it has to, by the state of the entry.
LEMMA MemoryIs ==
  ASSUME NEW b \in Lines, Current(b)
  PROVE  /\ dir[b].st \in Clean => llc[b] = latest[b]
         /\ dir[b].st = "I" => IF llc[b] = None THEN dram[b] = latest[b]
                                                ELSE llc[b] = latest[b]
BY DEF Current, MemoryCurrent, DirState, DirHit, LlcHit

\* The data that a request is answered with.
LEMMA AnswerCurrent ==
  ASSUME Inv, Coherent, NEW b \in Lines, NEW r, Takes(r), NEW acks, NEW d,
         SendsData(r, acks, d),
         r.addr = b /\ r.type = "GetS" => d = latest[b]
  PROVE  \A m \in rsp' :
           m \in rsp \/ (ToBeKept(m) /\ m.addr = b => m.data = latest[b])
<1>1. /\ Pend(r.src, r.addr) # None
      /\ (r.type = "GetS") <=> (Pend(r.src, r.addr).st = "IS_D")
      /\ r.src \in Cores
  BY TakenRequest DEF Coherent
<1>2. r.src # Directory
  BY <1>1, ConstantsAssumption
<1> SUFFICES ASSUME NEW m \in rsp', m \notin rsp, ToBeKept(m), m.addr = b
             PROVE  m.data = latest[b]
  OBVIOUS
<1>3. m.addr = r.addr /\ m.dst = r.src /\ m.data = d
  BY DEF SendsData, DataMessage
<1>4. Pend(r.src, r.addr).st = "IS_D"
  BY <1>1, <1>2, <1>3 DEF ToBeKept, Pend
<1> QED
  BY <1>1, <1>3, <1>4

\* GetS of a line nobody has modified, GetM of a line without an entry.
LEMMA UncachedContents ==
  ASSUME Inv, Coherent, NEW b \in Lines, Current(b), NEW r,
         GetSInvalid(r) \/ GetSValid(r) \/ GetSShared(r) \/ GetMUncached(r),
         GetSValid(r) /\ r.addr = b => SendsData(r, 0, llc[b]),
         UNCHANGED cacheVars
  PROVE  Current(b)'
<1> DEFINE a == r.addr
<1>1. a \in Lines /\ Takes(r)
  BY TakenRequest DEF Coherent, GetSInvalid, GetSValid, GetSShared, GetMUncached
<1>2. UNCHANGED <<tag, data, pr, latest, wb, dram>>
  BY DEF GetSInvalid, GetSValid, GetSShared, GetMUncached, cacheVars
<1>3. MemoryCurrent(b)
  BY DEF Current
<1>4. CASE GetSInvalid(r)
  <2>1. a = b => dram[a] = latest[a]
    BY <1>1, <1>4, MemoryIs DEF GetSInvalid, DirHit, LlcHit
  <2>2. /\ SetEntry(a, AddSharer(NoEntry, "S", r.src))
        /\ llc' = [llc EXCEPT ![a] = dram[a]]
        /\ SendsData(r, 0, dram[a])
    BY <1>4 DEF GetSInvalid
  <2>3. /\ llc'[a] = dram[a]
        /\ \A x \in Lines : x # a => llc'[x] = llc[x] /\ dir'[x] = dir[x]
    BY <1>1, <2>2, LineSet
  <2>4. dir'[a].st = "S"
    BY <1>1, <2>2, LineSet DEF AddSharer
  <2>5. MemoryCurrent(b)'
    BY <1>1, <1>2, <1>3, <2>1, <2>3, <2>4, MemoryKept
  <2> QED
    BY <1>1, <1>2, <2>1, <2>2, <2>5, AnswerCurrent, CurrentKept
<1>5. CASE GetSValid(r)
  <2>1. a = b => llc[a] = latest[a]
    BY <1>1, <1>5, MemoryIs DEF GetSValid, DirHit, LlcHit
  <2>2. SetEntry(a, AddSharer(NoEntry, "S", r.src)) /\ llc' = llc
    BY <1>5 DEF GetSValid
  <2>3. PICK d : SendsData(r, 0, d) /\ (a = b => d = latest[b])
    BY <1>5, <2>1 DEF GetSValid
  <2>4. /\ dir'[a].st = "S"
        /\ \A x \in Lines : x # a => dir'[x] = dir[x]
    BY <1>1, <2>2, LineSet DEF AddSharer
  <2>5. MemoryCurrent(b)'
    BY <1>1, <1>2, <1>3, <2>1, <2>2, <2>4, MemoryKept
  <2> QED
    BY <1>1, <1>2, <2>3, <2>5, AnswerCurrent, CurrentKept
<1>6. CASE GetSShared(r)
  <2>1. a = b => llc[a] = latest[a]
    BY <1>1, <1>6, MemoryIs DEF GetSShared, Clean
  <2>2. SetEntry(a, AddSharer(dir[a], "S", r.src)) /\ llc' = llc
        /\ SendsData(r, 0, llc[a])
    BY <1>6 DEF GetSShared
  <2>4. /\ dir'[a].st = "S"
        /\ \A x \in Lines : x # a => dir'[x] = dir[x]
    BY <1>1, <2>2, LineSet DEF AddSharer
  <2>5. MemoryCurrent(b)'
    BY <1>1, <1>2, <1>3, <2>1, <2>2, <2>4, MemoryKept
  <2> QED
    BY <1>1, <1>2, <2>1, <2>2, <2>5, AnswerCurrent, CurrentKept
<1>7. CASE GetMUncached(r)
  <2>1. r.type # "GetS"
    BY <1>7 DEF GetMUncached
  <2>2. /\ SetEntry(a, MarkOwner("M", r.src))
        /\ llc' = [llc EXCEPT ![a] = IF LlcHit(a) THEN @ ELSE dram[a]]
    BY <1>7 DEF GetMUncached
  <2>3. PICK d : SendsData(r, 0, d)
    BY <1>7 DEF GetMUncached
  <2>4. /\ dir'[a].st = "M"
        /\ \A x \in Lines : x # a => dir'[x] = dir[x]
    BY <1>1, <2>2, LineSet DEF MarkOwner
  <2>5. MemoryCurrent(b)'
    <3>1. \A x \in Lines : x # a => llc'[x] = llc[x]
      BY <1>1, <2>2 DEF Inv, LLCInv, LLCTypeOK
    <3> QED
      BY <1>1, <1>2, <1>3, <2>4, <3>1, MemoryKept DEF Clean
  <2> QED
    BY <1>1, <1>2, <2>1, <2>3, <2>5, AnswerCurrent, CurrentKept
<1> QED
  BY <1>4, <1>5, <1>6, <1>7

\* An entry and, maybe, the line in the LLC and in DRAM are set.
LineSetTo(a, e, d, x) ==
  /\ SetEntry(a, e)
  /\ llc' = [llc EXCEPT ![a] = d]
  /\ dram' = [dram EXCEPT ![a] = x]

\* Nothing about b is sent that will be kept but is not current.
SendsCurrent(b) ==
  /\ \A m \in rsp' :
       m \in rsp \/ (ToBeKept(m) /\ m.addr = b => m.data = latest[b])
  /\ wb' \subseteq wb
  /\ UNCHANGED cacheVars

LEMMA EntryContents ==
  ASSUME Inv, NEW b \in Lines, Current(b), SendsCurrent(b), NEW a \in Lines,
         NEW e, NEW d, NEW x, LineSetTo(a, e, d, x), e.st # "V",
         b = a => /\ e.st \in Clean => d = latest[b]
                  /\ e.st = "I" => d = latest[b] \/ (d = None /\ x = latest[b])
  PROVE  Current(b)'
<1>1. UNCHANGED <<tag, data, pr, latest>>
  BY DEF SendsCurrent, cacheVars
<1>2. /\ dir'[a] = e /\ llc'[a] = d /\ dram'[a] = x
      /\ b # a => /\ dir'[b] = dir[b]
                  /\ llc'[b] = llc[b]
                  /\ dram'[b] = dram[b]
  BY DEF LineSetTo, SetEntry, Inv, LLCInv, LLCTypeOK
<1>3. MemoryCurrent(b)'
  <2>1. MemoryCurrent(b)
    BY DEF Current
  <2> QED
    BY <1>1, <1>2, <2>1, MemoryKept
<1> QED
  BY <1>1, <1>3, CurrentKept DEF SendsCurrent

\* States of entries that hold nobody to the contents of the LLC.
LEMMA EntryStates ==
  /\ NoEntry.st = "I" /\ "I" \notin Clean
  /\ \A st, c : MarkOwner(st, c).st = st
  /\ \A e, st, c : ToShared(e, st, c).st = st
  /\ \A e, st, c : DropSharer(e, st, c).st = st
  /\ \A st \in {"M", "MM", "SM", "MI", "MS_AD", "MI_AD", "MS_D", "MI_D"} :
       st \notin Clean
BY DEF NoEntry, Clean, MarkOwner, ToShared, DropSharer

\* The entry alone changes.
LEMMA EntryAlone ==
  ASSUME Inv, NEW b \in Lines, Current(b), SendsCurrent(b), NEW a \in Lines,
         NEW e, SetEntry(a, e), UNCHANGED <<llc, dram>>, e.st \notin {"I", "V"},
         b = a /\ e.st \in Clean => llc[b] = latest[b]
  PROVE  Current(b)'
<1>1. LineSetTo(a, e, llc[a], dram[a])
  BY DEF LineSetTo, Inv, LLCInv, LLCTypeOK
<1> QED
  BY <1>1, EntryContents

\* The LLC gets the line.
LEMMA LineGot ==
  ASSUME Inv, NEW b \in Lines, Current(b), SendsCurrent(b), NEW a \in Lines,
         NEW e, SetEntry(a, e), NEW d, llc' = [llc EXCEPT ![a] = d],
         b = a => d = latest[b], UNCHANGED dram, e.st # "V"
  PROVE  Current(b)'
<1>1. LineSetTo(a, e, d, dram[a])
  BY DEF LineSetTo, Inv, LLCInv, LLCTypeOK
<1> QED
  BY <1>1, EntryContents

\* The line leaves the LLC for DRAM.
LEMMA LineEvicted ==
  ASSUME Inv, NEW b \in Lines, Current(b), SendsCurrent(b), NEW a \in Lines, NEW d,
         EvictFromLlc(a, d), b = a => d = latest[b]
  PROVE  Current(b)'
<1>1. LineSetTo(a, NoEntry, None, d)
  BY DEF LineSetTo, EvictFromLlc
<1> QED
  BY <1>1, EntryContents, EntryStates

LEMMA NothingSent ==
  ASSUME UNCHANGED cacheVars, wb' \subseteq wb, rsp' \subseteq rsp, NEW b
  PROVE  SendsCurrent(b)
BY DEF SendsCurrent

\* Requests that start a transaction.
LEMMA StartContents ==
  ASSUME Inv, Coherent, NEW b \in Lines, Current(b), NEW r,
         \/ GetSModified(r) \/ GetMShared(r) \/ GetMModified(r)
         \/ \E v \in Lines : ReplaceShared(r, v) \/ ReplaceModified(r, v),
         UNCHANGED cacheVars
  PROVE  Current(b)'
<1>1. Takes(r) /\ r.addr \in Lines
  BY TakenRequest DEF Coherent, GetSModified, GetMShared, GetMModified,
     ReplaceShared, ReplaceModified, Replaces
<1>2. CASE GetSModified(r)
  <2>1. /\ SetEntry(r.addr, ToShared(dir[r.addr], "MS_AD", r.src))
        /\ UNCHANGED <<wb, rsp, llc, dram>>
    BY <1>2 DEF GetSModified, StartTransaction
  <2> QED
    BY <1>1, <2>1, NothingSent, EntryStates, EntryAlone
<1>3. CASE GetMModified(r)
  <2>1. /\ SetEntry(r.addr, MarkOwner("MM", r.src))
        /\ UNCHANGED <<wb, rsp, llc, dram>>
    BY <1>3 DEF GetMModified, StartTransaction
  <2> QED
    BY <1>1, <2>1, NothingSent, EntryStates, EntryAlone
<1>4. CASE GetMShared(r)
  <2>1. /\ SetEntry(r.addr, MarkOwner("SM", r.src))
        /\ UNCHANGED <<wb, llc, dram>>
        /\ r.type # "GetS"
    BY <1>4 DEF GetMShared, StartTransaction
  <2>2. PICK acks : SendsData(r, acks, llc[r.addr])
    BY <1>4 DEF GetMShared
  <2>3. SendsCurrent(b)
    BY <1>1, <2>1, <2>2, AnswerCurrent DEF SendsCurrent
  <2> QED
    BY <1>1, <2>1, <2>3, EntryStates, EntryAlone
<1>5. ASSUME NEW v \in Lines, ReplaceShared(r, v)
      PROVE  Current(b)'
  <2>1. /\ SetEntry(v, [dir[v] EXCEPT !.st = "SI"])
        /\ UNCHANGED <<wb, rsp, llc, dram>>
        /\ dir[v].st = "S"
    BY <1>5 DEF ReplaceShared, StartTransaction
  <2>2. b = v => llc[v] = latest[v]
    BY <2>1, MemoryIs DEF Clean
  <2>3. [dir[v] EXCEPT !.st = "SI"].st = "SI"
    BY DEF Inv, LLCInv, LLCTypeOK, Entry
  <2> QED
    BY <2>1, <2>2, <2>3, NothingSent, EntryAlone
<1>6. ASSUME NEW v \in Lines, ReplaceModified(r, v)
      PROVE  Current(b)'
  <2>1. /\ SetEntry(v, [dir[v] EXCEPT !.st = "MI"])
        /\ UNCHANGED <<wb, rsp, llc, dram>>
    BY <1>6 DEF ReplaceModified, StartTransaction
  <2>2. [dir[v] EXCEPT !.st = "MI"].st = "MI"
    BY DEF Inv, LLCInv, LLCTypeOK, Entry
  <2> QED
    BY <2>1, <2>2, NothingSent, EntryStates, EntryAlone
<1> QED
  BY <1>2, <1>3, <1>4, <1>5, <1>6

\* The step that mixes two lines up spares all the others.
LEMMA ReplaceValidContents ==
  ASSUME Inv, NEW b \in Lines, Current(b), NEW r, NEW v \in Lines,
         ReplaceValid(r, v), b \notin {v, r.addr}, UNCHANGED cacheVars
  PROVE  Current(b)'
<1>1. /\ UNCHANGED <<wb, rsp, dir, tag, data, pr, latest>>
      /\ llc'[b] = llc[b] /\ dram'[b] = dram[b]
  BY DEF ReplaceValid, cacheVars, Inv, LLCInv, LLCTypeOK
<1>2. MemoryCurrent(b)'
  BY <1>1 DEF Current, MemoryCurrent, DirState, DirHit, LlcHit
<1> QED
  BY <1>1, <1>2, CurrentKept

\* PutM: the LLC, or DRAM, gets the line.
LEMMA PutMContents ==
  ASSUME Inv, NEW b \in Lines, Current(b), NEW w \in wb,
         PutMFromOwner(w) \/ PutMFromNonOwner(w), UNCHANGED cacheVars
  PROVE  Current(b)'
<1> DEFINE a == w.addr
<1>1. /\ a \in Lines /\ wb' \subseteq wb /\ rsp' = rsp
      /\ b = a => w.data = latest[b]
  BY DEF Inv, InterconnectTypeOK, Writeback, Current, WritebacksCurrent,
     PutMFromOwner, PutMFromNonOwner
<1>2. CASE SetEntry(a, NoEntry) /\ llc' = [llc EXCEPT ![a] = w.data] /\ dram' = dram
  BY <1>1, <1>2, NothingSent, EntryStates, LineGot
<1>3. CASE /\ SetEntry(a, [dir[a] EXCEPT !.st = "MI_RespOk"])
           /\ llc' = [llc EXCEPT ![a] = w.data]
           /\ dram' = dram
  <2>1. [dir[a] EXCEPT !.st = "MI_RespOk"].st = "MI_RespOk"
    BY <1>1 DEF Inv, LLCInv, LLCTypeOK, Entry
  <2> QED
    BY <1>1, <1>3, <2>1, NothingSent, LineGot
<1>4. CASE EvictFromLlc(a, w.data)
  BY <1>1, <1>4, NothingSent, LineEvicted
<1> QED
  BY <1>2, <1>3, <1>4 DEF PutMFromOwner, PutMFromNonOwner

\* PutS, and the answer to the Inv of a replacement: a sharer less.
LEMMA DropContents ==
  ASSUME Inv, NEW b \in Lines, Current(b), NEW a \in Lines, UNCHANGED cacheVars,
         wb' \subseteq wb, rsp' \subseteq rsp,
         \/ \E c : SetEntry(a, DropSharer(dir[a], dir[a].st, c))
                  /\ UNCHANGED <<llc, dram>> /\ dir[a].st # "I"
         \/ \E c : SetEntry(a, DropSharer(dir[a], NextOnLastPutS(dir[a].st), c))
                  /\ UNCHANGED <<llc, dram>> /\ dir[a].st \in {"MS_AD", "MS_A"}
         \/ SetEntry(a, NoEntry) /\ UNCHANGED <<llc, dram>> /\ dir[a].st = "S"
         \/ EvictFromLlc(a, llc[a]) /\ dir[a].st = "SI"
  PROVE  Current(b)'
<1>1. dir[a].st # "V" /\ (b = a /\ dir[a].st \in Clean => llc[a] = latest[a])
  BY MemoryIs DEF Inv, LLCInv, LLCTypeOK, Entry, DirStates, DirStable, DirBusy
<1>2. ASSUME NEW c, SetEntry(a, DropSharer(dir[a], dir[a].st, c)),
             UNCHANGED <<llc, dram>>, dir[a].st # "I"
      PROVE  Current(b)'
  BY <1>1, <1>2, NothingSent, EntryAlone DEF DropSharer
<1>3. ASSUME NEW c, SetEntry(a, DropSharer(dir[a], NextOnLastPutS(dir[a].st), c)),
             UNCHANGED <<llc, dram>>, dir[a].st \in {"MS_AD", "MS_A"}
      PROVE  Current(b)'
  BY <1>1, <1>3, NothingSent, EntryAlone DEF DropSharer, NextOnLastPutS, Clean
<1>4. CASE SetEntry(a, NoEntry) /\ UNCHANGED <<llc, dram>> /\ dir[a].st = "S"
  <2>1. PICK d : llc' = [llc EXCEPT ![a] = d] /\ (b = a => d = latest[b])
    <3>1. llc' = [llc EXCEPT ![a] = llc[a]] /\ (b = a => llc[a] = latest[b])
      BY <1>1, <1>4 DEF Clean, Inv, LLCInv, LLCTypeOK
    <3> QED
      BY <3>1
  <2> QED
    BY <1>4, <2>1, NothingSent, EntryStates, LineGot
<1>5. CASE EvictFromLlc(a, llc[a]) /\ dir[a].st = "SI"
  BY <1>1, <1>5, NothingSent, LineEvicted DEF Clean
<1> QED
  BY <1>2, <1>3, <1>4, <1>5

LEMMA PutSContents ==
  ASSUME Inv, NEW b \in Lines, Current(b), NEW w \in wb, PutS(w),
         UNCHANGED cacheVars
  PROVE  Current(b)'
<1> DEFINE a == w.addr
<1>1. a \in Lines /\ wb' \subseteq wb
  BY DEF Inv, InterconnectTypeOK, Writeback, PutS
<1>2. CASE /\ rsp' = rsp \cup {AckMessage(a, Directory, dir[a].owner, w.src)}
           /\ UNCHANGED llcVars
  <2>1. UNCHANGED <<tag, data, pr, latest, dir, llc, dram>>
    BY <1>2 DEF llcVars, cacheVars
  <2>2. MemoryCurrent(b)'
    BY <2>1 DEF Current, MemoryCurrent, DirState, DirHit, LlcHit
  <2> QED
    BY <1>1, <1>2, <2>1, <2>2, CurrentKept DEF AckMessage, ToBeKept
<1>3. CASE rsp' = rsp
  <2>1. rsp' \subseteq rsp
    BY <1>3
  <2>2. \/ \E c : SetEntry(a, DropSharer(dir[a], dir[a].st, c))
                /\ UNCHANGED <<llc, dram>> /\ dir[a].st # "I"
        \/ \E c : SetEntry(a, DropSharer(dir[a], NextOnLastPutS(dir[a].st), c))
                /\ UNCHANGED <<llc, dram>> /\ dir[a].st \in {"MS_AD", "MS_A"}
        \/ SetEntry(a, NoEntry) /\ UNCHANGED <<llc, dram>> /\ dir[a].st = "S"
        \/ EvictFromLlc(a, llc[a]) /\ dir[a].st = "SI"
        \/ UNCHANGED llcVars
    BY DEF PutS, PutSStates
  <2>3. CASE UNCHANGED llcVars
    <3>1. UNCHANGED <<tag, data, pr, latest, dir, llc, dram>>
      BY <2>3 DEF llcVars, cacheVars
    <3>2. MemoryCurrent(b)'
      BY <3>1 DEF Current, MemoryCurrent, DirState, DirHit, LlcHit
    <3> QED
      BY <1>1, <2>1, <3>1, <3>2, CurrentKept
  <2> HIDE DEF a
  <2> QED
    BY <1>1, <2>1, <2>2, <2>3, DropContents
<1> QED
  BY <1>2, <1>3 DEF PutS

\* The new state of an entry whose transaction goes on or ends.
LEMMA MovedEntry ==
  ASSUME Inv, NEW a \in Lines, NEW st, MoveTo(a, st)
  PROVE  \E e : SetEntry(a, e) /\ e.st = st
BY DEF MoveTo, Finish, NoEntry, Inv, LLCInv, LLCTypeOK, Entry

\* Data for the LLC, which keeps them if it waits for them and the RespOk.
LEMMA DataRespContents ==
  ASSUME Inv, NEW b \in Lines, Current(b), dir[b].st \notin {"MS_D", "MI_D"},
         NEW m \in rsp, ReceiveDataResp(m), UNCHANGED cacheVars
  PROVE  Current(b)'
<1> DEFINE a == m.addr
           d == IF dir[a].st \in UpdatesOnDataResp THEN m.data ELSE llc[a]
<1>1. a \in Lines /\ (b = a => m.data = latest[b])
  BY DEF Inv, InterconnectTypeOK, Response, Current, DataCurrent, ToBeKept,
     ReceiveDataResp
<1>2. SendsCurrent(b)
  BY NothingSent DEF ReceiveDataResp
<1>3. CASE EvictFromLlc(a, m.data)
  BY <1>1, <1>2, <1>3, LineEvicted
<1>4. ASSUME dir[a].st \in DOMAIN NextOnDataResp, MoveTo(a, NextOnDataResp[dir[a].st]),
             llc' = [llc EXCEPT ![a] = d], dram' = dram
      PROVE  Current(b)'
  <2>1. NextOnDataResp[dir[a].st] # "V"
    BY <1>4, AnswerRow
  <2>2. PICK e : SetEntry(a, e) /\ e.st # "V"
    BY <1>1, <1>4, <2>1, MovedEntry
  <2>3. b = a => d = latest[b]
    BY <1>1, <1>4, AnswerRow DEF UpdatesOnDataResp
  <2> HIDE DEF d
  <2> QED
    BY <1>1, <1>2, <1>4, <2>2, <2>3, LineGot
<1>5. \/ EvictFromLlc(a, m.data)
      \/ /\ dir[a].st \in DOMAIN NextOnDataResp
         /\ MoveTo(a, NextOnDataResp[dir[a].st])
         /\ llc' = [llc EXCEPT ![a] = d]
         /\ dram' = dram
  BY DEF ReceiveDataResp
<1> QED
  BY <1>3, <1>4, <1>5

\* RespOk: nobody has written since the LLC got the line, if it has.
LEMMA RespOkContents ==
  ASSUME Inv, NEW b \in Lines, Current(b), NEW m \in rsp, ReceiveRespOk(m),
         b = m.addr => dir[b].st \notin {"MS_AD", "MI_AD"}, UNCHANGED cacheVars
  PROVE  Current(b)'
<1> DEFINE a == m.addr
           next == NextOnRespOk[dir[a].st]
<1>1. /\ a \in Lines
      /\ dir[a].st \in {"MM", "SM", "MS_A", "MS_AD", "MI_AD", "MI_A", "MI_RespOk"}
      /\ MoveTo(a, next) /\ UNCHANGED <<llc, dram>>
  BY AnswerRow DEF Inv, InterconnectTypeOK, Response, ReceiveRespOk
<1>2. SendsCurrent(b)
  BY NothingSent DEF ReceiveRespOk
<1>3. PICK e : SetEntry(a, e) /\ e.st = next
  BY <1>1, MovedEntry
<1>4. CASE dir[a].st \in {"MM", "SM", "MS_AD", "MI_AD"}
  BY <1>1, <1>2, <1>3, <1>4, AnswerRow, EntryStates, EntryAlone
<1>5. CASE dir[a].st \in {"MS_A", "MI_A", "MI_RespOk"}
  <2>1. (b = a => llc[a] = latest[b]) /\ next # "V"
    BY <1>1, <1>5, MemoryIs, AnswerRow DEF Clean
  <2>2. PICK d : llc' = [llc EXCEPT ![a] = d] /\ (b = a => d = latest[b])
    <3>1. llc' = [llc EXCEPT ![a] = llc[a]]
      BY <1>1 DEF Inv, LLCInv, LLCTypeOK
    <3> QED
      BY <2>1, <3>1
  <2> QED
    BY <1>1, <1>2, <1>3, <2>1, <2>2, LineGot
<1> QED
  BY <1>1, <1>4, <1>5

LEMMA InvAckContents ==
  ASSUME Inv, NEW b \in Lines, Current(b), NEW m \in rsp, ReceiveInvAck(m),
         UNCHANGED cacheVars
  PROVE  Current(b)'
<1> DEFINE a == m.addr
<1>1. a \in Lines /\ wb' \subseteq wb /\ rsp' \subseteq rsp
  BY DEF Inv, InterconnectTypeOK, Response, ReceiveInvAck
<1>2. \/ \E c : SetEntry(a, DropSharer(dir[a], dir[a].st, c))
              /\ UNCHANGED <<llc, dram>> /\ dir[a].st # "I"
      \/ EvictFromLlc(a, llc[a]) /\ dir[a].st = "SI"
  BY DEF ReceiveInvAck
<1> HIDE DEF a
<1> QED
  BY <1>1, <1>2, DropContents

\* The RespOk that comes before the owner's data.
LEMMA RespOkOvertakes ==
  ASSUME Inv, NEW b \in Lines, b \notin Overtaken, NEW m \in rsp, ReceiveRespOk(m),
         b = m.addr
  PROVE  dir[b].st \notin {"MS_AD", "MI_AD"}
<1> SUFFICES ASSUME dir[b].st \in {"MS_AD", "MI_AD"}
             PROVE  FALSE
  OBVIOUS
<1>1. MoveTo(b, NextOnRespOk[dir[b].st]) /\ NextOnRespOk[dir[b].st] \in {"MS_D", "MI_D"}
  BY AnswerRow DEF ReceiveRespOk
<1>2. dir'[b].st \in {"MS_D", "MI_D"}
  BY <1>1, MovedEntry, LineSet
<1> QED
  BY <1>2 DEF Overtaken

\* Every step of the LLC keeps the lines current that it does not spoil.
LEMMA DirectoryContents ==
  ASSUME Inv, Coherent, NEW b \in Lines, Current(b),
         dir[b].st \notin {"MS_D", "MI_D"},
         b \notin Misplaced \cup Overtaken \cup Misread,
         DirectoryStep, UNCHANGED cacheVars
  PROVE  Current(b)'
<1>1. ASSUME NEW r \in NextRequests, TakeRequest(r)
      PROVE  Current(b)'
  <2>1. GetSValid(r) /\ r.addr = b => SendsData(r, 0, llc[b])
    BY DEF Misread
  <2>2. ASSUME NEW v \in Lines, ReplaceValid(r, v)
        PROVE  b \notin {v, r.addr}
    BY <2>2 DEF Misplaced
  <2> QED
    BY <1>1, <2>1, <2>2, UncachedContents, StartContents, ReplaceValidContents
       DEF TakeRequest
<1>2. WritebackStep => Current(b)'
  BY PutMContents, PutSContents DEF WritebackStep
<1>3. DirResponseStep => Current(b)'
  BY DataRespContents, RespOkContents, RespOkOvertakes, InvAckContents
     DEF DirResponseStep
<1> QED
  BY <1>1, <1>2, <1>3 DEF DirectoryStep, RequestStep

-----------------------------------------------------------------------------
(* Steps of a cache.                                                       *)

\* The pending load of c that would keep a datum about a.
Loads(c, a) == Pend(c, a) # None /\ Pend(c, a).st = "IS_D"

\* The line is given no other contents; what is new is current.
LEMMA CacheContents ==
  ASSUME NEW b \in Lines, Current(b), UNCHANGED llcVars, latest'[b] = latest[b],
         \A c \in Cores : tag'[c][b] # "I" =>
           \/ tag[c][b] # "I" /\ data'[c][b] = data[c][b]
           \/ data'[c][b] = latest[b],
         \A m \in rsp' : ToBeKept(m)' /\ m.addr = b => \/ m \in rsp /\ ToBeKept(m)
                                                       \/ m.data = latest[b],
         \A w \in wb' : w.type = "PutM" /\ w.addr = b =>
           w \in wb \/ w.data = latest[b]
  PROVE  Current(b)'
<1>1. CopiesCurrent(b)' /\ WritebacksCurrent(b)' /\ DataCurrent(b)'
  BY DEF Current, CopiesCurrent, WritebacksCurrent, DataCurrent
<1>2. UNCHANGED <<dir, llc, dram>>
  BY DEF llcVars
<1>3. MemoryCurrent(b)'
  BY <1>2 DEF Current, MemoryCurrent, DirState, DirHit, LlcHit
<1> QED
  BY <1>1, <1>3 DEF Current

\* An idle core has no data on their way to it.
LEMMA IdleDatas ==
  ASSUME Inv, NEW a \in Lines, HoldersInv(a), NEW c \in Cores, Pend(c, a) = None
  PROVE  Datas(c, a) = {}
<1>1. /\ \A states : ~PendingIn(c, a, states)
      /\ \A owed : ~Collecting(c, a, owed)
      /\ \A st : ~Expecting(c, a, st) /\ ~Receiving(c, a, st)
      /\ \A type, n : ~OwningFor(c, a, type, n)
  BY DEF PendingIn, Collecting, Expecting, Receiving, OwningFor, Served
<1>2. \A states : ~Served(c, a, states) /\ ~Asking(c, a, states)
  BY <1>1 DEF Served, Asking
<1> QED
  BY <1>1, <1>2, SomeRole DEF Absent, Sharing, Owning, Leaving, Apart

\* A request that is issued finds no data on the way.
LEMMA IssueKeeps ==
  ASSUME Inv, Coherent, NEW c \in Cores, NEW a \in Lines, Idle(c),
         NEW op, NEW d, NEW st, NEW type, NEW victim,
         Issue(c, a, op, d, st, type, victim), rsp' = rsp
  PROVE  \A m \in rsp' : ToBeKept(m)' => m \in rsp /\ ToBeKept(m)
<1>1. pr[c] = None /\ Datas(c, a) = {}
  BY IdleDatas DEF Idle, Inv, CacheInv, MshrMatchesPr, Pend, HitPr, Coherent, LineInv
<1>2. /\ pr' = [pr EXCEPT ![c] = pr'[c]]
      /\ pr'[c].line = a
      /\ \A e \in Cores : e # c => pr'[e] = pr[e]
  BY DEF Issue, Inv, CacheInv, CacheTypeOK
<1>3. \A m \in rsp : m.dst \in Cores \/ m.dst = Directory
  BY DEF Inv, InterconnectTypeOK, Response, Nodes
<1> QED
  BY <1>1, <1>2, <1>3 DEF ToBeKept, HitPr, Datas

\* A line is given up.
LEMMA TagDropped ==
  ASSUME Inv, NEW c \in Cores, NEW v \in Lines,
         tag' = [tag EXCEPT ![c][v] = "I"], data' = [data EXCEPT ![c][v] = Garbage]
  PROVE  \A e \in Cores : \A x \in Lines : tag'[e][x] # "I" =>
           tag[e][x] # "I" /\ data'[e][x] = data[e][x]
BY DEF Inv, CacheInv, CacheTypeOK

LEMMA MissContents ==
  ASSUME Inv, Coherent, NEW b \in Lines, Current(b), NEW c \in Cores, NEW a \in Lines,
         NEW op, NEW d, NEW st, NEW type, Miss(c, a, op, d, st, type),
         UNCHANGED llcVars
  PROVE  Current(b)'
<1>1. /\ Idle(c) /\ UNCHANGED <<rsp, latest>>
      /\ \E v : Issue(c, a, op, d, st, type, v)
  BY DEF Miss
<1>2. \A m \in rsp' : ToBeKept(m)' => m \in rsp /\ ToBeKept(m)
  BY <1>1, IssueKeeps
<1>3. CASE UNCHANGED <<wb, tag, data>>
  BY <1>1, <1>2, <1>3, CacheContents
<1>4. ASSUME NEW v \in Held(c), Evict(c, v)
      PROVE  Current(b)'
  <2>1. v \in Lines /\ tag[c][v] # "I"
    BY <1>4 DEF Held, Hit
  <2>2. v = b => data[c][v] = latest[b]
    BY <2>1 DEF Current, CopiesCurrent
  <2>3. \A w \in wb' : w.type = "PutM" /\ w.addr = b => w \in wb \/ w.data = latest[b]
    BY <1>4, <2>2 DEF Evict
  <2>4. \A e \in Cores : tag'[e][b] # "I" =>
          tag[e][b] # "I" /\ data'[e][b] = data[e][b]
    BY <1>4, <2>1, TagDropped DEF Evict
  <2> QED
    BY <1>1, <1>2, <2>3, <2>4, CacheContents
<1> QED
  BY <1>3, <1>4 DEF Miss

LEMMA CoreStepContents ==
  ASSUME Inv, Coherent, NEW b \in Lines, Current(b), NEW c \in Cores, CoreStep(c), UNCHANGED llcVars
  PROVE  Current(b)'
<1>1. ASSUME NEW a \in Lines, LoadMiss(c, a) \/ \E d \in Values : StoreMiss(c, a, d)
      PROVE  Current(b)'
  BY <1>1, MissContents DEF LoadMiss, StoreMiss
<1>2. ASSUME NEW a \in Lines, NEW d \in Values, StoreShared(c, a, d)
      PROVE  Current(b)'
  <2>1. /\ Idle(c) /\ Issue(c, a, "ST", d, "SM_AD", "GetM", None) /\ Migrate(c, a)
        /\ UNCHANGED <<wb, rsp, latest>>
    BY <1>2 DEF StoreShared
  <2>2. \A m \in rsp' : ToBeKept(m)' => m \in rsp /\ ToBeKept(m)
    BY <2>1, IssueKeeps
  <2>3. \A e \in Cores : tag'[e][b] # "I" =>
          tag[e][b] # "I" /\ data'[e][b] = data[e][b]
    BY <2>1, TagDropped DEF Migrate
  <2> QED
    BY <2>1, <2>2, <2>3, CacheContents
<1>3. ASSUME NEW a \in Lines, LoadHit(c, a) \/ \E d \in Values : StoreHit(c, a, d)
      PROVE  Current(b)'
  <2>1. UNCHANGED <<rsp, wb, tag, data, pr, latest>>
    BY <1>3 DEF LoadHit, StoreHit, networks
  <2>2. \A m : ToBeKept(m)' => ToBeKept(m)
    BY <2>1 DEF ToBeKept, HitPr
  <2> QED
    BY <2>1, <2>2, CacheContents
<1> QED
  BY <1>1, <1>2, <1>3 DEF CoreStep

\* The core that a forward, data or acks move to another state loads no line.
LEMMA PendingKeeps ==
  ASSUME Inv, NEW c \in Cores, NEW p, pr' = [pr EXCEPT ![c] = p],
         p # None /\ p.st = "IS_D" => pr[c] # None /\ pr[c].st = "IS_D" /\ pr[c].line = p.line
  PROVE  \A m \in rsp : ToBeKept(m)' => ToBeKept(m)
<1>1. \A m \in rsp : m.dst \in Cores \/ m.dst = Directory
  BY DEF Inv, InterconnectTypeOK, Response, Nodes
<1>2. pr'[c] = p /\ \A e \in Cores : e # c => pr'[e] = pr[e]
  BY DEF Inv, CacheInv, CacheTypeOK
<1> QED
  BY <1>1, <1>2 DEF ToBeKept, HitPr

LEMMA NoRowToLoad ==
  /\ \A s \in DOMAIN NextOnFwdGetS : NextOnFwdGetS[s] # "IS_D"
  /\ \A s \in DOMAIN NextOnFwdGetM : NextOnFwdGetM[s] # "IS_D"
  /\ \A s \in DOMAIN NextOnInv : NextOnInv[s] # "IS_D"
  /\ \A s \in DOMAIN NextOnDataAck : NextOnDataAck[s] # "IS_D"
BY DEF NextOnFwdGetS, NextOnFwdGetM, NextOnInv, NextOnDataAck, AwaitingData

LEMMA FwdGetContents ==
  ASSUME Inv, NEW b \in Lines, Current(b), NEW c \in Cores, NEW m \in fwd, ReceiveFwdGet(c, m),
         UNCHANGED llcVars
  PROVE  Current(b)'
<1> DEFINE a == m.addr
           s == State(c, a)
           next == IF m.type = "GetS" THEN NextOnFwdGetS ELSE NextOnFwdGetM
           dests == IF m.type = "GetS" THEN {m.respondTo, Directory}
                                       ELSE {m.respondTo}
<1>1. a \in Lines /\ UNCHANGED <<wb, latest>> /\ s \in DOMAIN next
  BY DEF ReceiveFwdGet, Inv, InterconnectTypeOK, Forward
<1>2. CASE UNCHANGED <<tag, data, pr, rsp>>
  <2>1. \A k : ToBeKept(k)' => ToBeKept(k)
    BY <1>2 DEF ToBeKept, HitPr
  <2> QED
    BY <1>1, <1>2, <2>1, CacheContents
<1>3. CASE /\ s = "M" /\ SetTag(c, a, next[s])
           /\ rsp' = rsp \cup {DataMessage(a, c, n, 0, data[c][a]) : n \in dests}
  <2>1. tag[c][a] # "I"
    BY <1>1, <1>3, LineFacts DEF PendingRequest, TransientStates, AwaitingData,
                                 AwaitingAcks
  <2>2. a = b => data[c][a] = latest[b]
    BY <1>1, <2>1 DEF Current, CopiesCurrent
  <2>3. \A k : ToBeKept(k)' => ToBeKept(k)
    BY <1>3 DEF ToBeKept, HitPr, SetTag
  <2>4. \A k \in rsp' : k \in rsp \/ (k.addr = b => k.data = latest[b])
    BY <1>3, <2>2 DEF DataMessage
  <2>5. \A e \in Cores : tag'[e][b] # "I" =>
          tag[e][b] # "I" /\ data'[e][b] = data[e][b]
    BY <1>1, <1>3, <2>1 DEF SetTag, Inv, CacheInv, CacheTypeOK
  <2> QED
    BY <1>1, <2>3, <2>4, <2>5, CacheContents
<1>4. CASE s \in TransientStates /\ SetPending(c, next[s], m.respondTo) /\ rsp' = rsp
  <2> DEFINE p == [pr[c] EXCEPT !.st = next[s], !.fwdDest = m.respondTo]
  <2>1. pr[c] \in PendingRequest
    BY <1>1, <1>4, LineFacts, StateCases DEF TransientStates, AwaitingData, AwaitingAcks,
       Inv
  <2>2. p.st # "IS_D"
    BY <1>1, <2>1, NoRowToLoad DEF PendingRequest
  <2>3. pr' = [pr EXCEPT ![c] = p] /\ UNCHANGED <<tag, data>>
    BY <1>4 DEF SetPending
  <2> HIDE DEF p
  <2>4. \A k \in rsp : ToBeKept(k)' => ToBeKept(k)
    BY <2>2, <2>3, PendingKeeps
  <2> QED
    BY <1>1, <1>4, <2>3, <2>4, CacheContents
<1> QED
  BY <1>1, <1>2, <1>3, <1>4 DEF ReceiveFwdGet

LEMMA InvContents ==
  ASSUME Inv, NEW b \in Lines, Current(b), NEW c \in Cores, NEW m \in fwd, ReceiveInv(c, m),
         UNCHANGED llcVars
  PROVE  Current(b)'
<1> DEFINE a == m.addr
           s == State(c, a)
<1>1. a \in Lines /\ UNCHANGED <<wb, latest>> /\ s \in DOMAIN NextOnInv
  BY DEF ReceiveInv, Inv, InterconnectTypeOK, Forward
<1>2. CASE UNCHANGED <<tag, data, pr, rsp>>
  <2>1. \A k : ToBeKept(k)' => ToBeKept(k)
    BY <1>2 DEF ToBeKept, HitPr
  <2> QED
    BY <1>1, <1>2, <2>1, CacheContents
<1>3. CASE /\ s = "S" /\ SetTag(c, a, NextOnInv[s])
           /\ rsp' = rsp \cup {AckMessage(a, c, m.respondTo, c)}
  <2>1. NextOnInv[s] = "I"
    BY <1>3, ForwardRow
  <2>2. \A k \in rsp' : ToBeKept(k)' => k \in rsp /\ ToBeKept(k)
    BY <1>3 DEF ToBeKept, HitPr, SetTag, AckMessage
  <2>3. \A e \in Cores : tag'[e][b] # "I" =>
          tag[e][b] # "I" /\ data'[e][b] = data[e][b]
    BY <1>1, <1>3, <2>1, TagDropped DEF SetTag
  <2> QED
    BY <1>1, <2>2, <2>3, CacheContents
<1>4. CASE /\ s \in TransientStates /\ SetPending(c, NextOnInv[s], pr[c].fwdDest)
           /\ rsp' = rsp \cup {AckMessage(a, c, m.respondTo, c)}
  <2> DEFINE p == [pr[c] EXCEPT !.st = NextOnInv[s], !.fwdDest = pr[c].fwdDest]
  <2>1. pr[c] \in PendingRequest
    BY <1>1, <1>4, LineFacts, StateCases DEF TransientStates, AwaitingData, AwaitingAcks,
       Inv
  <2>2. p.st # "IS_D"
    BY <1>1, <2>1, NoRowToLoad DEF PendingRequest
  <2>3. pr' = [pr EXCEPT ![c] = p] /\ UNCHANGED <<tag, data>>
    BY <1>4 DEF SetPending
  <2> HIDE DEF p
  <2>4. \A k \in rsp : ToBeKept(k)' => ToBeKept(k)
    BY <2>2, <2>3, PendingKeeps
  <2>5. \A k \in rsp' : ToBeKept(k)' => k \in rsp /\ ToBeKept(k)
    BY <1>4, <2>4 DEF AckMessage, ToBeKept
  <2> QED
    BY <1>1, <2>3, <2>5, CacheContents
<1> QED
  BY <1>1, <1>2, <1>3, <1>4 DEF ReceiveInv

-----------------------------------------------------------------------------
(* A store is completed.                                                   *)

\* Core d has no copy of a, writes none back and will get none for a load.
Harmless(d, a) ==
  /\ tag[d][a] = "I"
  /\ \A w \in Wbs(d, a) : w.type # "PutM"
  /\ Loads(d, a) => Datas(d, a) = {}

\* No contents of a but those that c is to write can be kept.
Sole(c, a) ==
  /\ \A d \in Cores : d # c => Harmless(d, a)
  /\ Wbs(c, a) = {}
  /\ Datas(Directory, a) = {}
  /\ dir[a].st \notin Clean \cup {"I", "MS_D", "MI_D"}

LEMMA HarmlessRoles ==
  ASSUME NEW d, NEW a
  PROVE  /\ Absent(d, a) => Harmless(d, a)
         /\ \A st : Expecting(d, a, st) => Harmless(d, a)
BY DEF Harmless, Loads, Absent, Apart, Asking, PendingIn, Expecting, Served

\* Whoever has the only copy.
LEMMA OwningSole ==
  ASSUME Inv, NEW a \in Lines, HoldersInv(a), NEW c \in Cores, Owning(c, a)
  PROVE  Sole(c, a)
<1>1. ~Absent(c, a) /\ ~Sharing(c, a) /\ \A type : ~Leaving(c, a, type)
      /\ \A st : ~Expecting(c, a, st) /\ ~Receiving(c, a, st)
  BY RolesExclude, HoldersExclude
<1>2. (\A owed : ~Collecting(c, a, owed)) /\ Wbs(c, a) = {}
  BY HoldersExclude DEF Owning, Served
<1>3. ~Keeping(c, a)
  BY <1>1 DEF Keeping
<1>4. CASE dir[a].st = "I"
  BY <1>1, <1>4 DEF HoldersInv, InvalidLine, OthersAbsent
<1>5. CASE dir[a].st = "S"
  BY <1>1, <1>3, <1>5 DEF HoldersInv, SharedLine, OthersAbsent
<1>6. CASE dir[a].st = "M"
  <2>1. Quiet(a) /\ OthersAbsent(a, {c})
    BY <1>1, <1>6 DEF HoldersInv, ModifiedLine, OthersAbsent
  <2> QED
    BY <1>2, <1>6, <2>1, HarmlessRoles DEF Sole, OthersAbsent, Quiet, Clean
<1>7. CASE dir[a].st = "SM"
  <2>1. Datas(Directory, a) = {} /\ OthersAbsent(a, {c})
    BY <1>1, <1>2, <1>7 DEF HoldersInv, UpgradedLine, OthersAbsent, Owing, Finished
  <2> QED
    BY <1>2, <1>7, <2>1, HarmlessRoles DEF Sole, OthersAbsent, Clean
<1>8. CASE dir[a].st = "MM"
  <2>1. /\ Datas(Directory, a) = {}
        /\ \A d \in Cores : d # c => Absent(d, a) \/ Expecting(d, a, "IM_AD")
    BY <1>1, <1>8 DEF HoldersInv, HandedOverLine, OthersAbsent, Finished
  <2> QED
    BY <1>2, <1>8, <2>1, HarmlessRoles DEF Sole, Clean
<1>9. CASE dir[a].st \in {"MS_AD", "MS_A", "MS_D"}
  <2>1. ASSUME NEW q \in Cores, Downgraded(a, q)
        PROVE  FALSE
    BY <1>1, <1>3, <2>1 DEF Downgraded, OthersAbsent
  <2>2. dir[a].st # "MS_D"
    BY <1>1, <1>3 DEF HoldersInv, DowngradedLine, OthersAbsent
  <2>3. PICK q \in Cores : dir[a].st = "MS_AD" /\ Downgrading(a, q)
    BY <1>9, <2>1, <2>2 DEF HoldersInv, DowngradedLine
  <2>4. /\ Datas(Directory, a) = {}
        /\ \A d \in Cores : d # c => Absent(d, a) \/ Expecting(d, a, "IS_D")
    BY <1>1, <2>3 DEF Downgrading, OthersAbsent, Quiet
  <2> QED
    BY <1>2, <2>3, <2>4, HarmlessRoles DEF Sole, Clean
<1>10. CASE dir[a].st \in {"MI_AD", "MI_A", "MI_D", "MI_RespOk"}
  BY <1>1, <1>10 DEF HoldersInv, AbandonedLine, OthersAbsent
<1>11. CASE dir[a].st = "SI"
  <2>1. \A x \in dir[a].sharers : Owing(x, a, Directory) \/ Absent(x, a)
    BY <1>11 DEF HoldersInv, RecalledLine, AcksTo
  <2> QED
    BY <1>1, <1>11, <2>1 DEF HoldersInv, RecalledLine, OthersAbsent, Owing
<1>12. CASE dir[a].st = "MI"
  <2>1. Datas(Directory, a) = {} /\ OthersAbsent(a, {c})
    BY <1>1, <1>12 DEF HoldersInv, RecalledFromOwner, OthersAbsent
  <2> QED
    BY <1>2, <1>12, <2>1, HarmlessRoles DEF Sole, OthersAbsent, Clean
<1> QED
  BY <1>4, <1>5, <1>6, <1>7, <1>8, <1>9, <1>10, <1>11, <1>12
     DEF Inv, LLCInv, LLCTypeOK, Entry, DirStates, DirStable, DirBusy

\* It still is, when it is known whom to pass the line on to.
LEMMA OwningForSole ==
  ASSUME Inv, NEW a \in Lines, LineInv(a), NEW c \in Cores,
         NEW type \in {"GetS", "GetM"}, NEW n, OwningFor(c, a, type, n)
  PROVE  Sole(c, a)
<1>1. HandoverDue(a, c, type, n)
  BY HandoverIsDue
<1>2. Wbs(c, a) = {}
  BY DEF OwningFor, Served
<1>3. /\ Datas(Directory, a) = {}
      /\ dir[a].st \notin Clean \cup {"I", "MS_D", "MI_D"}
      /\ \A d \in Cores : d # c => \/ Absent(d, a)
                                   \/ \E st : Expecting(d, a, st)
  BY <1>1, ConstantsAssumption DEF HandoverDue, Quiet, Clean
<1> QED
  BY <1>2, <1>3, HarmlessRoles DEF Sole

\* So is the new owner once all have acknowledged.
LEMMA AllAbsentSole ==
  ASSUME NEW a, NEW c \in Cores, dir[a].st \in {"SM", "MM"},
         Wbs(c, a) = {}, Datas(Directory, a) = {},
         \A d \in Cores : d # c => Absent(d, a)
  PROVE  Sole(c, a)
BY HarmlessRoles DEF Sole, Clean

\* What the line was given is all there is of it, whatever there was before.
LEMMA StoreContents ==
  ASSUME Inv, NEW c \in Cores, NEW a \in Lines, Sole(c, a),
         NEW d, latest' = [latest EXCEPT ![a] = d], UNCHANGED wb, UNCHANGED llcVars,
         NEW st, tag' = [tag EXCEPT ![c][a] = st],
         data' = [data EXCEPT ![c][a] = IF st = "I" THEN Garbage ELSE d],
         pr' = [pr EXCEPT ![c] = None],
         \A k \in rsp' : \/ k \in rsp
                         \/ k.type = "Data" => k.data = d /\ k.addr = a
  PROVE  Current(a)'
<1>1. latest'[a] = d
  BY DEF Inv, CacheInv, CacheTypeOK
<1>2. CopiesCurrent(a)'
  <2> SUFFICES ASSUME NEW e \in Cores, tag'[e][a] # "I"
               PROVE  data'[e][a] = latest'[a]
    BY DEF CopiesCurrent
  <2>1. CASE e = c
    BY <1>1, <2>1 DEF Inv, CacheInv, CacheTypeOK
  <2>2. CASE e # c
    BY <2>2 DEF Sole, Harmless, Inv, CacheInv, CacheTypeOK
  <2> QED
    BY <2>1, <2>2
<1>3. WritebacksCurrent(a)'
  <2>1. ASSUME NEW w \in wb, w.type = "PutM", w.addr = a
        PROVE  FALSE
    <3>1. w \in Wbs(w.src, a) /\ w.src \in Cores
      BY <2>1 DEF Wbs, Inv, InterconnectTypeOK, Writeback
    <3> QED
      BY <2>1, <3>1 DEF Sole, Harmless
  <2> QED
    BY <2>1 DEF WritebacksCurrent
<1>4. DataCurrent(a)'
  <2> SUFFICES ASSUME NEW m \in rsp', ToBeKept(m)', m \in rsp, m.addr = a
               PROVE  FALSE
    BY <1>1 DEF DataCurrent, ToBeKept
  <2>1. m.dst \in Nodes
    BY DEF Inv, InterconnectTypeOK, Response
  <2>2. m.dst # Directory => m.dst # c /\ pr'[m.dst] = pr[m.dst] /\ m.dst \in Cores
    BY <2>1 DEF ToBeKept, HitPr, Inv, CacheInv, CacheTypeOK, Nodes
  <2>3. ToBeKept(m)
    BY <2>2 DEF ToBeKept, HitPr
  <2>4. CASE m.dst = Directory
    BY <2>3, <2>4 DEF Sole, Datas, ToBeKept
  <2>5. CASE m.dst # Directory
    BY <2>2, <2>3, <2>5 DEF Sole, Harmless, Loads, Pend, Datas, ToBeKept, HitPr
  <2> QED
    BY <2>4, <2>5
<1>5. MemoryCurrent(a)'
  <2>1. UNCHANGED <<dir, llc, dram>>
    BY DEF llcVars
  <2>2. DirState(a) \notin {"V", "I"} /\ dir[a].st \notin Clean
    BY DEF Sole, DirState, DirHit, Inv, LLCInv, LLCTypeOK, Entry, DirStates, DirBusy,
       DirStable
  <2> QED
    BY <2>1, <2>2 DEF MemoryCurrent, DirState, DirHit, LlcHit
<1> QED
  BY <1>2, <1>3, <1>4, <1>5 DEF Current

\* The other lines are what they were.
LEMMA OthersKept ==
  ASSUME Inv, NEW b \in Lines, Current(b), NEW c \in Cores, NEW a \in Lines, a # b,
         NEW d, latest' = [latest EXCEPT ![a] = d], UNCHANGED wb, UNCHANGED llcVars,
         NEW st, tag' = [tag EXCEPT ![c][a] = st],
         NEW x, data' = [data EXCEPT ![c][a] = x],
         pr' = [pr EXCEPT ![c] = None],
         \A k \in rsp' : \/ k \in rsp
                         \/ k.type = "Data" => k.data = d /\ k.addr = a
  PROVE  Current(b)'
<1>1. latest'[b] = latest[b]
  BY DEF Inv, CacheInv, CacheTypeOK
<1>2. \A e \in Cores : tag'[e][b] # "I" =>
        tag[e][b] # "I" /\ data'[e][b] = data[e][b]
  BY DEF Inv, CacheInv, CacheTypeOK
<1>3. \A k \in rsp : ToBeKept(k)' => ToBeKept(k)
  BY PendingKeeps
<1>4. \A k \in rsp' : ToBeKept(k)' /\ k.addr = b => k \in rsp /\ ToBeKept(k)
  BY <1>3 DEF ToBeKept
<1> QED
  BY <1>1, <1>2, <1>4, CacheContents

\* A response that is read but does not complete the request.
LEMMA ResponseRead ==
  ASSUME Inv, NEW c \in Cores, NEW m \in rsp, ReceiveData(c, m) \/ ReceiveAck(c, m)
  PROVE  /\ m.addr \in Lines /\ m.dst = c /\ UNCHANGED <<req, wb, fwd>>
         /\ pr[c] \in PendingRequest /\ pr[c] # None /\ pr[c].line = m.addr
         /\ Pend(c, m.addr) = pr[c]
         /\ mshr[c] # None /\ mshr[c].line = m.addr
         /\ (mshr[c].op = "LD") <=> (pr[c].st \in {"IS_D", "IS_DI"})
         /\ mshr[c].op = "ST" => mshr[c].data \in Values
         /\ mshr[c].op \in {"LD", "ST"}
         /\ tag[c][m.addr] = "I"
         /\ \/ pr'[c] # None
            \/ /\ pr'[c] = None
               /\ \E ok :
                    Complete(c, IF m.type = "Data" THEN m.data ELSE data[c][m.addr],
                             m, ok)
<1>1. /\ m.addr \in Lines /\ m.dst = c /\ UNCHANGED <<req, wb, fwd>>
      /\ HitPr(c, m.addr)
  BY DEF ReceiveData, ReceiveAck, Inv, InterconnectTypeOK, Response
<1>2. /\ pr[c] \in PendingRequest /\ pr[c] # None /\ pr[c].line = m.addr
      /\ Pend(c, m.addr) = pr[c]
      /\ mshr[c] # None /\ mshr[c].line = m.addr
      /\ (mshr[c].op = "LD") <=> (pr[c].st \in {"IS_D", "IS_DI"})
      /\ mshr[c] \in Load \cup Store
      /\ tag[c][m.addr] = "I"
  BY <1>1 DEF Pend, HitPr, Hit, Inv, CacheInv, CacheTypeOK, MshrMatchesPr, HitExclusive
<1>3. /\ mshr[c].op = "ST" => mshr[c].data \in Values
      /\ mshr[c].op \in {"LD", "ST"}
  BY <1>2 DEF Load, Store
<1>4. ASSUME NEW cl, NEW ok, Complete(c, cl, m, ok)
      PROVE  pr'[c] = None
  BY <1>4 DEF Complete, Inv, CacheInv, CacheTypeOK
<1>5. CASE ReceiveData(c, m)
  <2>1. m.type = "Data"
    BY <1>5 DEF ReceiveData
  <2>2. DataAck(c, m) => pr'[c] # None
    <3> SUFFICES ASSUME DataAck(c, m)
                 PROVE  pr'[c] \in PendingRequest
      BY NotNone
    <3>1. /\ pr'[c] = [pr[c] EXCEPT !.st = NextOnDataAck[pr[c].st], !.total = m.acks,
                                   !.dataValid = TRUE]
          /\ m.acks \in Int
      BY DEF DataAck, Inv, CacheInv, CacheTypeOK, InterconnectTypeOK, Response
    <3>2. NextOnDataAck[pr[c].st] \in TransientStates
      BY DEF DataAck, NextOnDataAck, TransientStates, AwaitingData, AwaitingAcks
    <3> QED
      BY <1>2, <3>1, <3>2 DEF PendingRequest
  <2>3. DataAck(c, m) \/ \E ok : Complete(c, m.data, m, ok)
    BY <1>5 DEF ReceiveData
  <2> QED
    BY <1>1, <1>2, <1>3, <1>4, <2>1, <2>2, <2>3
<1>6. CASE ReceiveAck(c, m)
  <2>1. m.type # "Data"
    BY <1>6 DEF ReceiveAck
  <2>2. CASE pr' = [pr EXCEPT ![c] = [pr[c] EXCEPT !.acks = pr[c].acks + 1]]
    <3>1. pr'[c] \in PendingRequest
      <4>1. pr'[c] = [pr[c] EXCEPT !.acks = pr[c].acks + 1]
        BY <2>2 DEF Inv, CacheInv, CacheTypeOK
      <4> QED
        BY <1>2, <4>1 DEF PendingRequest
    <3> QED
      BY <1>1, <1>2, <1>3, <3>1, NotNone
  <2>3. CASE \E ok : Complete(c, data[c][m.addr], m, ok)
    BY <1>1, <1>2, <1>3, <1>4, <2>1, <2>3
  <2> QED
    BY <1>6, <2>2, <2>3 DEF ReceiveAck
<1> QED
  BY <1>5, <1>6

\* A store is completed when no other contents of the line are left.
LEMMA StoreSole ==
  ASSUME Inv, Coherent, NEW c \in Cores, NEW m \in rsp,
         ReceiveData(c, m) \/ ReceiveAck(c, m),
         pr'[c] = None, pr[c].st \notin {"IS_D", "IS_DI"}
  PROVE  Sole(c, m.addr)
<1> DEFINE a == m.addr
           s == pr[c].st
<1>1. /\ a \in Lines /\ Pend(c, a) = pr[c] /\ pr[c] # None /\ m.dst = c
      /\ pr[c] \in PendingRequest
  BY ResponseRead
<1>2. HoldersInv(a) /\ LineInv(a)
  BY <1>1 DEF Coherent, LineInv
<1>3. CASE ReceiveData(c, m)
  <2>1. m \in Datas(c, a)
    BY <1>1, <1>3 DEF ReceiveData, Datas
  <2>2. CASE Owning(c, a)
    BY <1>1, <1>2, <2>2, OwningSole
  <2>3. ASSUME NEW type \in {"GetS", "GetM"}, NEW n \in Nodes, OwningFor(c, a, type, n)
        PROVE  Sole(c, a)
    BY <1>1, <1>2, <2>3, OwningForSole
  <2>4. CASE /\ dir[a].st = "SM" /\ dir[a].owner = c
             /\ Collecting(c, a, Cardinality(Debtors(c, a)))
    <3>1. /\ s \in {"IM_AD", "SM_AD"} /\ m.src = Directory
          /\ pr[c].acks + Cardinality(Debtors(c, a)) = m.acks
          /\ Wbs(c, a) = {}
      BY <1>1, <2>1, <2>4 DEF Collecting
    <3>2. ~Owning(c, a) /\ ~Leaving(c, a, "PutM")
      BY <2>4, <3>1, HoldersExclude DEF Leaving
    <3>3. /\ Datas(Directory, a) = {}
          /\ IsFiniteSet(Debtors(c, a)) /\ Cardinality(Debtors(c, a)) \in Nat
      BY <1>1, <1>2, <2>4, <3>2, CollectingLine
    <3>4. pr[c].acks \in Nat /\ m.acks \in Int
      BY <1>1 DEF PendingRequest, Inv, InterconnectTypeOK, Response
    <3>5. ~DataAck(c, m)
      <4> SUFFICES ASSUME DataAck(c, m)
                   PROVE  pr'[c] # None
        BY <1>1
      <4>1. pr'[c] = [pr[c] EXCEPT !.st = NextOnDataAck[pr[c].st], !.total = m.acks,
                                   !.dataValid = TRUE]
        BY DEF DataAck, Inv, CacheInv, CacheTypeOK
      <4>2. NextOnDataAck[pr[c].st] \in TransientStates
        BY DEF DataAck, NextOnDataAck, TransientStates, AwaitingData, AwaitingAcks
      <4>3. pr'[c] \in PendingRequest
        BY <1>1, <3>4, <4>1, <4>2 DEF PendingRequest
      <4> QED
        BY <4>3, NotNone
    <3>6. pr[c].acks = m.acks
      BY <1>3, <3>1, <3>3, <3>4, <3>5 DEF ReceiveData
    <3>7. Debtors(c, a) = {}
      <4>1. Cardinality(Debtors(c, a)) = 0
        BY <3>1, <3>3, <3>4, <3>6
      <4> QED
        BY <3>3, <4>1, FS_EmptySet
    <3>8. \A d \in Cores : d # c => Absent(d, a)
      BY <3>7 DEF Debtors
    <3> QED
      BY <2>4, <3>1, <3>3, <3>8, AllAbsentSole
  <2>5. CASE dir[a].st = "MM" /\ dir[a].owner = c /\ Receiving(c, a, "IM_AD")
    <3>1. /\ ~Absent(c, a) /\ ~Owning(c, a) /\ ~Leaving(c, a, "PutM")
          /\ ~Expecting(c, a, "IM_AD") /\ Wbs(c, a) = {}
      BY <2>1, <2>5, HoldersExclude DEF Leaving, Expecting, Receiving, Served
    <3>2. ~Finished(a, c)
      BY <3>1 DEF Finished, Possessing
    <3>3. Datas(Directory, a) = {} /\ \A d \in Cores : d # c => Absent(d, a)
      BY <1>2, <2>5, <3>1, <3>2 DEF HoldersInv, HandedOverLine, OthersAbsent
    <3> QED
      BY <2>5, <3>1, <3>3, AllAbsentSole
  <2>6. /\ ~PendingIn(c, a, {"IS_D"}) /\ ~PendingIn(c, a, {"IS_DI"})
        /\ ~Receiving(c, a, "IS_D")
    BY <1>1 DEF PendingIn, Receiving, Served
  <2>7. \/ Owning(c, a)
        \/ \E type \in {"GetS", "GetM"}, n \in Nodes : OwningFor(c, a, type, n)
        \/ /\ dir[a].st = "SM" /\ dir[a].owner = c
           /\ Collecting(c, a, Cardinality(Debtors(c, a)))
        \/ dir[a].st = "MM" /\ dir[a].owner = c /\ Receiving(c, a, "IM_AD")
    <3> HIDE DEF a, s
    <3>1. Pend(c, a) # None
      BY <1>1
    <3> QED
      BY <1>1, <1>2, <2>1, <2>6, <3>1, DataRole
  <2> QED
    BY <2>2, <2>3, <2>4, <2>5, <2>7
<1>4. CASE ReceiveAck(c, m)
  <2>1. m \in Acks(a)
    BY <1>4 DEF ReceiveAck, Acks
  <2>2. /\ dir[a].st = "SM" /\ dir[a].owner = c
        /\ ~Owning(c, a) /\ ~Leaving(c, a, "PutM")
    BY <1>1, <1>2, <2>1, AckRole
  <2>3. /\ Datas(Directory, a) = {}
        /\ Collecting(c, a, Cardinality(Debtors(c, a)))
        /\ AcksTo(c, a)
        /\ \A k \in Acks(a) : k.sharer \in Debtors(c, a)
        /\ IsFiniteSet(Debtors(c, a)) /\ Cardinality(Debtors(c, a)) \in Nat
    BY <1>1, <1>2, <2>2, CollectingLine
  <2>4. pr[c].acks = pr[c].total - 1 /\ s \in AwaitingAcks
    <3>1. pr' # [pr EXCEPT ![c] = [pr[c] EXCEPT !.acks = pr[c].acks + 1]]
      <4> SUFFICES ASSUME pr' = [pr EXCEPT ![c] = [pr[c] EXCEPT !.acks = pr[c].acks + 1]]
                   PROVE  pr'[c] \in PendingRequest
        BY NotNone
      <4>1. pr'[c] = [pr[c] EXCEPT !.acks = pr[c].acks + 1]
        BY DEF Inv, CacheInv, CacheTypeOK
      <4> QED
        BY <1>1, <4>1 DEF PendingRequest
    <3> QED
      BY <1>4, <3>1 DEF ReceiveAck
  <2>5. /\ pr[c].acks + Cardinality(Debtors(c, a)) = pr[c].total
        /\ Wbs(c, a) = {}
    BY <1>1, <2>3, <2>4 DEF Collecting, AwaitingAcks
  <2>6. Cardinality(Debtors(c, a)) = 1
    <3>1. pr[c].acks \in Nat /\ pr[c].total \in Int
      BY <1>1 DEF PendingRequest
    <3> QED
      BY <2>3, <2>4, <2>5, <3>1
  <2>7. \A d \in Debtors(c, a) : d = m.sharer
    <3>1. PICK x : Debtors(c, a) = {x}
      BY <2>3, <2>6, FS_Singleton
    <3> QED
      BY <2>1, <2>3, <3>1
  <2>8. \A d \in Cores : d # c => Absent(d, a)
    BY <2>1, <2>3, <2>7 DEF Debtors, AcksTo
  <2> QED
    BY <2>2, <2>3, <2>5, <2>8, AllAbsentSole
<1> QED
  BY <1>3, <1>4

\* Responses that complete nothing.
LEMMA WaitingContents ==
  ASSUME Inv, NEW b \in Lines, Current(b), NEW c \in Cores, NEW m \in rsp,
         ReceiveData(c, m) \/ ReceiveAck(c, m), pr'[c] # None, UNCHANGED llcVars
  PROVE  Current(b)'
<1>1. /\ m.addr \in Lines /\ UNCHANGED <<req, wb, fwd>>
      /\ pr[c] \in PendingRequest /\ pr[c] # None /\ tag[c][m.addr] = "I"
      /\ \A cl, ok : ~Complete(c, cl, m, ok)
  BY ResponseRead DEF Complete, Inv, CacheInv, CacheTypeOK
<1>2. CASE DataAck(c, m)
  <2> DEFINE p == [pr[c] EXCEPT !.st = NextOnDataAck[pr[c].st], !.total = m.acks,
                                !.dataValid = TRUE]
  <2>1. p.st # "IS_D"
    BY <1>1, <1>2, NoRowToLoad DEF DataAck, PendingRequest
  <2>2. pr' = [pr EXCEPT ![c] = p] /\ rsp' = rsp \ {m} /\ UNCHANGED <<tag, latest>>
    BY <1>2 DEF DataAck
  <2> HIDE DEF p
  <2>3. \A k \in rsp' : ToBeKept(k)' => k \in rsp /\ ToBeKept(k)
    BY <2>1, <2>2, PendingKeeps
  <2>4. \A e \in Cores : tag'[e][b] # "I" =>
          tag[e][b] # "I" /\ data'[e][b] = data[e][b]
    BY <1>1, <1>2, <2>2 DEF DataAck, Inv, CacheInv, CacheTypeOK
  <2> QED
    BY <1>1, <2>2, <2>3, <2>4, CacheContents
<1>3. CASE /\ pr' = [pr EXCEPT ![c] = [pr[c] EXCEPT !.acks = pr[c].acks + 1]]
           /\ rsp' = rsp \ {m}
           /\ UNCHANGED <<tag, data, mshr, latest, toCore>>
  <2> DEFINE p == [pr[c] EXCEPT !.acks = pr[c].acks + 1]
  <2>1. p.st = pr[c].st /\ p.line = pr[c].line
    BY <1>1 DEF PendingRequest
  <2>2. pr' = [pr EXCEPT ![c] = p]
    BY <1>3
  <2> HIDE DEF p
  <2>3. \A k \in rsp' : ToBeKept(k)' => k \in rsp /\ ToBeKept(k)
    BY <1>1, <1>3, <2>1, <2>2, PendingKeeps
  <2> QED
    BY <1>1, <1>3, <2>3, CacheContents
<1> QED
  BY <1>1, <1>2, <1>3 DEF ReceiveData, ReceiveAck

\* The messages that end a request.
LEMMA CompletionIs ==
  ASSUME NEW c, NEW s, NEW a, NEW d, NEW ok
  PROVE  /\ \A k \in CompletionMessages(c, s, a, d, ok) :
              \/ k.type = "RespOk"
              \/ k.type = "Data" /\ k.data = d /\ k.addr = a
         /\ s \in {"IS_D", "IS_DI"} =>
              \A k \in CompletionMessages(c, s, a, d, ok) : k.type = "RespOk"
BY DEF CompletionMessages, DataMessage, RespOkMessage, OwesForward, OwesDirectory

\* The completed store: the line is current again.
LEMMA StoreHeals ==
  ASSUME Inv, Coherent, NEW c \in Cores, NEW m \in rsp,
         ReceiveData(c, m) \/ ReceiveAck(c, m), pr'[c] = None,
         mshr[c].op = "ST", UNCHANGED llcVars
  PROVE  /\ Sole(c, m.addr)
         /\ Current(m.addr)'
         /\ \A b \in Lines : b # m.addr /\ Current(b) => Current(b)'
<1> DEFINE a == m.addr
           s == pr[c].st
           d == mshr[c].data
           st == FinalState(s)
<1>1. /\ a \in Lines /\ m.dst = c /\ UNCHANGED wb /\ pr[c] # None /\ pr[c].line = a
      /\ (mshr[c].op = "LD") <=> (s \in {"IS_D", "IS_DI"})
  BY ResponseRead
<1>2. PICK cl, ok : Complete(c, cl, m, ok)
  BY ResponseRead
<1>3. Sole(c, a)
  BY <1>1, StoreSole
<1>4. /\ tag' = [tag EXCEPT ![c][a] = st]
      /\ data' = [data EXCEPT ![c][a] = IF st = "I" THEN Garbage ELSE d]
      /\ pr' = [pr EXCEPT ![c] = None]
      /\ latest' = [latest EXCEPT ![a] = d]
      /\ rsp' = (rsp \ {m}) \cup CompletionMessages(c, s, a, d, ok)
  BY <1>1, <1>2 DEF Complete
<1>5. \A k \in rsp' : \/ k \in rsp
                      \/ k.type = "Data" => k.data = d /\ k.addr = a
  BY <1>4, CompletionIs
<1>6. PICK e, y, x : /\ tag' = [tag EXCEPT ![c][a] = y]
                     /\ data' = [data EXCEPT ![c][a] = x]
                     /\ pr' = [pr EXCEPT ![c] = None]
                     /\ latest' = [latest EXCEPT ![a] = e]
                     /\ \A k \in rsp' : \/ k \in rsp
                                        \/ k.type = "Data" => k.data = e /\ k.addr = a
  BY <1>4, <1>5
<1> HIDE DEF s, d, st
<1>7. Current(a)'
  BY <1>1, <1>3, <1>4, <1>5, StoreContents
<1>8. ASSUME NEW b \in Lines, b # a, Current(b)
      PROVE  Current(b)'
  <2>1. a # b /\ a \in Lines /\ UNCHANGED wb
    BY <1>1, <1>8
  <2> HIDE DEF a
  <2> QED
    BY <1>6, <1>8, <2>1, OthersKept
<1> QED
  BY <1>3, <1>7, <1>8

\* Responses that complete a request.
LEMMA CompletionContents ==
  ASSUME Inv, Coherent, NEW b \in Lines, Current(b), NEW c \in Cores, NEW m \in rsp,
         ReceiveData(c, m) \/ ReceiveAck(c, m), pr'[c] = None, UNCHANGED llcVars
  PROVE  Current(b)'
<1> DEFINE a == m.addr
           s == pr[c].st
           cl == IF m.type = "Data" THEN m.data ELSE data[c][a]
<1>1. /\ a \in Lines /\ m.dst = c /\ UNCHANGED wb /\ pr[c] # None /\ pr[c].line = a
      /\ (mshr[c].op = "LD") <=> (s \in {"IS_D", "IS_DI"})
      /\ mshr[c].op \in {"LD", "ST"}
  BY ResponseRead
<1>2. PICK ok : Complete(c, cl, m, ok)
  BY ResponseRead
<1>3. CASE mshr[c].op = "ST"
  BY <1>3, StoreHeals
<1>4. CASE mshr[c].op = "LD"
  <2>1. s \in {"IS_D", "IS_DI"} /\ mshr[c].op # "ST"
    BY <1>1, <1>4
  <2>2. m.type = "Data"
    BY <2>1, <1>1, <1>2 DEF ReceiveData, ReceiveAck, AwaitingAcks, Complete, AwaitingData,
       Inv, CacheInv, CacheTypeOK
  <2>3. /\ tag' = [tag EXCEPT ![c][a] = FinalState(s)]
        /\ data' = [data EXCEPT ![c][a] = IF FinalState(s) = "I" THEN Garbage
                                                              ELSE m.data]
        /\ pr' = [pr EXCEPT ![c] = None]
        /\ latest' = latest
        /\ rsp' = (rsp \ {m}) \cup CompletionMessages(c, s, a, m.data, ok)
    BY <1>1, <1>2, <2>1, <2>2 DEF Complete
  <2>5. \A k \in rsp' : k \in rsp \/ k.type = "RespOk"
    BY <2>1, <2>3, CompletionIs
  <2>6. \A k \in rsp : ToBeKept(k)' => ToBeKept(k)
    BY <2>3, PendingKeeps
  <2>7. \A k \in rsp' : ToBeKept(k)' => k \in rsp /\ ToBeKept(k)
    BY <2>5, <2>6 DEF ToBeKept
  <2>8. a = b /\ FinalState(s) # "I" => m.data = latest[b]
    <3>1. FinalState(s) # "I" => s = "IS_D"
      BY <2>1, FinalStates
    <3>2. s = "IS_D" => ToBeKept(m)
      BY <1>1, <2>2 DEF ToBeKept, HitPr
    <3> QED
      BY <3>1, <3>2 DEF Current, DataCurrent
  <2>9. \A e \in Cores : tag'[e][b] # "I" =>
          \/ tag[e][b] # "I" /\ data'[e][b] = data[e][b]
          \/ data'[e][b] = latest[b]
    BY <1>1, <2>3, <2>8 DEF Inv, CacheInv, CacheTypeOK
  <2> QED
    BY <1>1, <2>3, <2>7, <2>9, CacheContents
<1> QED
  BY <1>1, <1>3, <1>4

\* Every step of a cache.
LEMMA CacheStepContents ==
  ASSUME Inv, Coherent, NEW b \in Lines, Current(b), NEW c \in Cores, CacheStep(c),
         UNCHANGED llcVars
  PROVE  Current(b)'
BY CoreStepContents, FwdGetContents, InvContents, WaitingContents, CompletionContents
   DEF CacheStep, ForwardStep, ResponseStep

-----------------------------------------------------------------------------
(* The lines that are spoiled.                                             *)

\* A core is done with its request.
LEMMA RequestDone ==
  ASSUME Inv, Next, NEW c \in Cores, mshr[c] # None, mshr'[c] = None
  PROVE  /\ UNCHANGED llcVars
         /\ \E m \in rsp : /\ ReceiveData(c, m) \/ ReceiveAck(c, m)
                           /\ pr'[c] = None
                           /\ m.addr = mshr[c].line
<1>1. PICK e \in Cores : CacheStep(e) /\ UNCHANGED llcVars
  BY DEF Next, cacheVars
<1>2. mshr \in [Cores -> Load \cup Store \cup {None}]
  BY DEF Inv, CacheInv, CacheTypeOK
<1>3. ~CoreStep(e)
  <2>1. ASSUME NEW a, NEW op, NEW d, NEW st, NEW type, NEW v, Issue(e, a, op, d, st, type, v),
               Idle(e)
        PROVE  FALSE
    <3>1. c # e /\ mshr'[c] = mshr[c]
      BY <1>2, <2>1 DEF Issue, Idle
    <3> QED
      BY <3>1
  <2> QED
    BY <2>1 DEF CoreStep, LoadMiss, StoreMiss, Miss, LoadHit, StoreHit, StoreShared
<1>4. ~ForwardStep(e)
  BY DEF ForwardStep, ReceiveFwdGet, ReceiveInv
<1>5. PICK m \in rsp : ReceiveData(e, m) \/ ReceiveAck(e, m)
  BY <1>1, <1>3, <1>4 DEF CacheStep, ResponseStep
<1>6. \E cl, ok : Complete(e, cl, m, ok)
  BY <1>5 DEF ReceiveData, ReceiveAck, DataAck
<1>7. e = c /\ pr'[c] = None
  BY <1>2, <1>6 DEF Complete, Inv, CacheInv, CacheTypeOK
<1>8. m.addr = mshr[c].line
  BY <1>5, <1>7, ResponseRead
<1> QED
  BY <1>1, <1>5, <1>7, <1>8

\* A store finds no entry that waits for the owner's data only, and leaves its
\* line current.
LEMMA StoredLine ==
  ASSUME Inv, Coherent, Next, NEW a \in Stored
  PROVE  /\ Current(a)'
         /\ dir'[a].st \notin {"MS_D", "MI_D"}
<1>1. PICK c \in Cores : /\ mshr[c] # None /\ mshr'[c] = None
                         /\ mshr[c].op = "ST" /\ mshr[c].line = a
  BY DEF Stored
<1>2. PICK m \in rsp : /\ ReceiveData(c, m) \/ ReceiveAck(c, m)
                       /\ pr'[c] = None
                       /\ m.addr = a
                       /\ UNCHANGED llcVars
  BY <1>1, RequestDone
<1>3. Sole(c, a) /\ Current(a)'
  BY <1>1, <1>2, StoreHeals
<1>4. dir'[a] = dir[a]
  BY <1>2 DEF llcVars
<1> QED
  BY <1>3, <1>4 DEF Sole

\* The caches spoil nothing.
LEMMA CacheSpoilsNothing ==
  ASSUME Inv, UNCHANGED llcVars
  PROVE  Misplaced = {} /\ Overtaken = {} /\ Misread = {}
<1>1. UNCHANGED <<dir, llc>>
  BY DEF llcVars
<1>2. ASSUME NEW r, NEW v \in Lines, ReplaceValid(r, v)
      PROVE  FALSE
  <2>1. llc'[v] = None /\ llc[v] # None
    BY <1>2 DEF ReplaceValid, Replaces, LlcHit, Inv, LLCInv, LLCTypeOK
  <2> QED
    BY <1>1, <2>1
<1>3. ASSUME NEW r, r.addr \in Lines, GetSValid(r)
      PROVE  FALSE
  <2>1. dir'[r.addr].st = "S" /\ dir[r.addr].st = "I"
    BY <1>3, LineSet DEF GetSValid, DirHit, AddSharer
  <2> QED
    BY <1>1, <2>1
<1> QED
  BY <1>1, <1>2, <1>3 DEF Misplaced, Overtaken, Misread

\* The LLC completes no store.
LEMMA DirectoryStoresNothing == UNCHANGED cacheVars => Stored = {}
BY DEF Stored, cacheVars

LEMMA InitContents == MemoryInit => ContentsInv
BY ConstantsAssumption
   DEF MemoryInit, Init, InterconnectInit, CacheInit, LLCInit, ContentsInv, Current,
       CopiesCurrent, DataCurrent, WritebacksCurrent, MemoryCurrent, DirState, DirHit,
       LlcHit, NoEntry, Clean

LEMMA NextContents ==
  ASSUME CoherenceInv, ContentsInv, [MemoryNext]_memoryVars
  PROVE  ContentsInv'
<1>1. Inv /\ Coherent
  BY DEF CoherenceInv, Coherent
<1>2. CASE UNCHANGED memoryVars
  <2>1. UNCHANGED <<wb, rsp, tag, data, pr, latest, dir, llc, dram, spoiled>>
    BY <1>2 DEF memoryVars, vars, networks, cacheVars, llcVars
  <2> QED
    BY <2>1 DEF ContentsInv, Current, CopiesCurrent, DataCurrent, WritebacksCurrent,
                MemoryCurrent, DirState, DirHit, LlcHit, ToBeKept, HitPr
<1>3. CASE MemoryNext
  <2>1. /\ Next
        /\ spoiled' = (spoiled \cup Misplaced \cup Overtaken \cup Misread) \ Stored
    BY <1>3 DEF MemoryNext
  <2>2. ASSUME NEW b \in Lines, b \notin spoiled'
        PROVE  Current(b)'
    <3>1. CASE b \in Stored
      BY <1>1, <2>1, <3>1, StoredLine
    <3>2. CASE b \notin Stored
      <4>1. /\ b \notin Misplaced \cup Overtaken \cup Misread
            /\ Current(b) /\ dir[b].st \notin {"MS_D", "MI_D"}
        BY <2>1, <2>2, <3>2 DEF ContentsInv
      <4> QED
        BY <1>1, <2>1, <4>1, DirectoryContents, CacheStepContents DEF Next
    <3> QED
      BY <3>1, <3>2
  <2>3. ASSUME NEW a \in Lines, dir'[a].st \in {"MS_D", "MI_D"}
        PROVE  a \in spoiled'
    <3>1. a \notin Stored
      BY <1>1, <2>1, <2>3, StoredLine
    <3>2. a \in spoiled \cup Overtaken
      BY <2>3 DEF ContentsInv, Overtaken
    <3> QED
      BY <2>1, <3>1, <3>2
  <2> QED
    BY <2>2, <2>3 DEF ContentsInv
<1> QED
  BY <1>2, <1>3

LEMMA MemorySteps ==
  /\ MemoryInit => Init
  /\ [MemoryNext]_memoryVars => [Next]_vars
BY DEF MemoryInit, MemoryNext, memoryVars

\* Whatever is read of a line, or kept, is what the line was last given, unless
\* the line is spoiled: written to another's place in DRAM, read at another's way,
\* or downgraded by a RespOk that overtook the owner's data, and not stored to
\* since.
THEOREM ContentsInvariant ==
  ASSUME TimelyForwards
  PROVE  MemorySpec => []ContentsInv
<1>1. CoherenceInv /\ ContentsInv /\ [MemoryNext]_memoryVars => ContentsInv'
  BY NextContents
<1> QED
  BY <1>1, InitContents, MemorySteps, CoherenceInvariant, PTL DEF MemorySpec, Spec

\* In particular the copies that the caches may read.
THEOREM CopiesCurrentUnlessSpoiled ==
  ASSUME TimelyForwards
  PROVE  MemorySpec => []CopiesUnspoiled
<1>1. ContentsInv => CopiesUnspoiled
  BY DEF ContentsInv, Current, CopiesCurrent, CopiesUnspoiled
<1> QED
  BY <1>1, ContentsInvariant, PTL

\* And what the LLC serves from its own array or from DRAM.
THEOREM MemoryCurrentUnlessSpoiled ==
  ASSUME TimelyForwards
  PROVE  MemorySpec => []MemoryUnspoiled
<1>1. ContentsInv => MemoryUnspoiled
  BY DEF ContentsInv, Current, MemoryCurrent, MemoryUnspoiled, Clean
<1> QED
  BY <1>1, ContentsInvariant, PTL

-----------------------------------------------------------------------------
(* A modified line.                                                        *)

\* Core c has just sent the contents of its copy of a.
HandsOn(c, a) ==
  \/ \E m \in rsp' \ rsp : /\ m.type = "Data" /\ m.src = c
                           /\ m.addr = a /\ m.data = data[c][a]
  \/ \E w \in wb' \ wb : /\ w.type = "PutM" /\ w.src = c
                         /\ w.addr = a /\ w.data = data[c][a]

\* The victim of a request.
LEMMA EvictHandsOn ==
  ASSUME Inv, Coherent, NEW c \in Cores, NEW a \in Lines, tag[c][a] = "M",
         NEW d \in Cores, NEW v \in Held(d), Evict(d, v), tag'[c][a] # "M"
  PROVE  HandsOn(c, a)
<1>1. d = c /\ v = a
  BY DEF Evict, Held, Inv, CacheInv, CacheTypeOK
<1>2. Wbs(c, a) = {}
  BY HeldRole DEF Coherent, LineInv
<1> DEFINE w == [type |-> "PutM", addr |-> a, src |-> c, data |-> data[c][a]]
<1>3. w \in wb' /\ w \notin wb
  BY <1>1, <1>2 DEF Evict, VictimPut, Wbs
<1> QED
  BY <1>3 DEF HandsOn

\* The owner asked for the line.
LEMMA FwdGetHandsOn ==
  ASSUME Inv, Coherent, NEW c \in Cores, NEW a \in Lines, tag[c][a] = "M",
         NEW d \in Cores, NEW m \in fwd, ReceiveFwdGet(d, m), tag'[c][a] # "M"
  PROVE  HandsOn(c, a)
<1>1. /\ d = c /\ m.addr = a /\ State(c, a) = "M" /\ m.dst = c
      /\ m.type \in {"GetS", "GetM"}
      /\ m \in Fwds(a)
      /\ m.respondTo \in Nodes
  BY DEF ReceiveFwdGet, SetTag, SetPending, State, Hit, Fwds, Inv, CacheInv, CacheTypeOK,
         InterconnectTypeOK, Forward
<1>2. Owning(c, a) /\ LineInv(a)
  BY HeldRole DEF Coherent, LineInv
<1>3. HandoverDue(a, c, m.type, m.respondTo)
  BY <1>1, <1>2, HandoverIsDue
<1>4. Datas(m.respondTo, a) = {}
  BY <1>3 DEF HandoverDue, Expecting, Quiet
<1> DEFINE k == DataMessage(a, c, m.respondTo, 0, data[c][a])
<1>5. k \in rsp'
  BY <1>1 DEF ReceiveFwdGet, TransientStates, AwaitingData, AwaitingAcks
<1>6. k \notin rsp
  BY <1>4 DEF Datas, DataMessage
<1>7. k.type = "Data" /\ k.src = c /\ k.addr = a /\ k.data = data[c][a]
  BY DEF DataMessage
<1> QED
  BY <1>5, <1>6, <1>7 DEF HandsOn

\* The step in which a cache stops being the owner of a line puts the contents
\* into a Data message or into the PutM, one that was not on its way before.
THEOREM DirtyDataKept ==
  ASSUME TimelyForwards
  PROVE  Spec => DirtyDataHandedOn
<1>1. ASSUME Inv, Coherent, Next, NEW c \in Cores, NEW a \in Lines,
             tag[c][a] = "M", tag'[c][a] # "M"
      PROVE  HandsOn(c, a)
  <2>1. PICK d \in Cores : CacheStep(d)
    BY <1>1 DEF Next, cacheVars
  <2>2. CASE CoreStep(d)
    <3>1. PICK b \in Lines :
            \/ \E v \in Held(d) : Evict(d, v)
            \/ tag[d][b] = "S" /\ tag' = [tag EXCEPT ![d][b] = "I"]
      BY <1>1, <2>2 DEF CoreStep, LoadMiss, StoreMiss, Miss, LoadHit, StoreHit, StoreShared,
                        Migrate
    <3>2. CASE tag[d][b] = "S" /\ tag' = [tag EXCEPT ![d][b] = "I"]
      BY <1>1, <3>2 DEF Inv, CacheInv, CacheTypeOK
    <3> QED
      BY <1>1, <3>1, <3>2, EvictHandsOn
  <2>3. ASSUME NEW m \in fwd, ReceiveInv(d, m)
        PROVE  FALSE
    BY <1>1, <2>3 DEF ReceiveInv, SetTag, SetPending, State, Hit, Inv, CacheInv, CacheTypeOK
  <2>4. ASSUME NEW m \in rsp, ReceiveData(d, m) \/ ReceiveAck(d, m)
        PROVE  FALSE
    <3>1. tag[d][m.addr] = "I" /\ pr[d].line = m.addr
      BY <1>1, <2>4, ResponseRead
    <3>2. tag' = tag \/ \E st : tag' = [tag EXCEPT ![d][m.addr] = st]
      BY <2>4, <3>1 DEF ReceiveData, ReceiveAck, DataAck, Complete
    <3> QED
      BY <1>1, <3>1, <3>2 DEF Inv, CacheInv, CacheTypeOK
  <2> QED
    BY <1>1, <2>1, <2>2, <2>3, <2>4, FwdGetHandsOn DEF CacheStep, ForwardStep, ResponseStep
<1>2. CoherenceInv /\ [Next]_vars =>
        [\A c \in Cores, a \in Lines :
           tag[c][a] = "M" /\ tag'[c][a] # "M" => HandsOn(c, a)]_vars
  BY <1>1 DEF CoherenceInv, Coherent
<1> QED
  BY <1>2, CoherenceInvariant, PTL DEF Spec, DirtyDataHandedOn, HandsOn

-----------------------------------------------------------------------------
(* What a pending load may be answered with.                               *)

\* A load that lost its line before the data came was served by the LLC.
LEMMA InvalidatedLoad ==
  ASSUME Inv, NEW a \in Lines, HoldersInv(a), NEW c \in Cores,
         Pend(c, a) # None, Pend(c, a).st = "IS_DI"
  PROVE  Granted(c, a)
<1>1. /\ ~Apart(c, a)
      /\ \A states : "IS_DI" \notin states => /\ ~Asking(c, a, states)
                                              /\ ~Served(c, a, states)
  BY DEF Apart, Asking, Served, PendingIn
<1>2. ~Sharing(c, a) /\ ~Owning(c, a) /\ \A type : ~Leaving(c, a, type)
  <2>1. tag[c][a] = "I"
    BY LineFacts
  <2> QED
    BY <1>1, <2>1 DEF Sharing, Owning, Leaving
<1>3. /\ \A type, n : ~OwningFor(c, a, type, n)
      /\ \A owed : ~Collecting(c, a, owed)
      /\ \A st \in {"IM_AD", "IS_D"} : ~Expecting(c, a, st) /\ ~Receiving(c, a, st)
  BY <1>1 DEF OwningFor, Collecting, Expecting, Receiving
<1> QED
  BY <1>1, <1>2, <1>3, SomeRole DEF Absent

InvalidatedServed ==
  \A c \in Cores, a \in Lines :
    Pend(c, a) # None /\ Pend(c, a).st = "IS_DI" => Granted(c, a)

LEMMA InvalidatedLoads == Inv /\ Coherent => InvalidatedServed
BY InvalidatedLoad DEF Coherent, LineInv, InvalidatedServed

LEMMA InvalidatedLoadsNext == Inv' /\ Coherent' => InvalidatedServed'
BY InvalidatedLoads, PTL

\* A message to a core is taken from the network by that core.
LEMMA TakenByItsCore ==
  ASSUME Next, NEW k \in rsp, k \notin rsp', k.dst \in Cores
  PROVE  ReceiveData(k.dst, k) \/ ReceiveAck(k.dst, k)
<1>1. CASE DirectoryStep
  <2>1. ASSUME NEW r, TakeRequest(r)
        PROVE  rsp \subseteq rsp'
    BY <2>1 DEF TakeRequest, GetSInvalid, GetSValid, GetSShared, GetSModified,
       GetMUncached, GetMShared, GetMModified, ReplaceValid, ReplaceShared,
       ReplaceModified, SendsData
  <2>2. ASSUME NEW w \in wb, PutMFromOwner(w) \/ PutMFromNonOwner(w) \/ PutS(w)
        PROVE  rsp \subseteq rsp'
    BY <2>2 DEF PutMFromOwner, PutMFromNonOwner, PutS
  <2>3. ASSUME NEW m \in rsp,
               ReceiveDataResp(m) \/ ReceiveRespOk(m) \/ ReceiveInvAck(m)
        PROVE  rsp' = rsp \ {m} /\ m.dst = Directory
    BY <2>3 DEF ReceiveDataResp, ReceiveRespOk, ReceiveInvAck
  <2> QED
    BY <1>1, <2>1, <2>2, <2>3, ConstantsAssumption
       DEF DirectoryStep, RequestStep, WritebackStep, DirResponseStep
<1>2. ASSUME NEW c \in Cores, CacheStep(c)
      PROVE  ReceiveData(k.dst, k) \/ ReceiveAck(k.dst, k)
  <2>1. CoreStep(c) => rsp \subseteq rsp'
    BY DEF CoreStep, LoadMiss, StoreMiss, Miss, LoadHit, StoreHit, StoreShared, networks
  <2>2. ForwardStep(c) => rsp \subseteq rsp'
    BY DEF ForwardStep, ReceiveFwdGet, ReceiveInv
  <2>3. ASSUME NEW m \in rsp, ReceiveData(c, m) \/ ReceiveAck(c, m)
        PROVE  m.dst = c /\ rsp \ {m} \subseteq rsp'
    BY <2>3 DEF ReceiveData, ReceiveAck, DataAck, Complete
  <2> QED
    BY <1>2, <2>1, <2>2, <2>3 DEF CacheStep, ResponseStep
<1> QED
  BY <1>1, <1>2 DEF Next

\* Where the row of a pending line leads to IS_DI.
LEMMA RowsToInvalidated ==
  /\ \A s \in DOMAIN NextOnFwdGetS : NextOnFwdGetS[s] # "IS_DI"
  /\ \A s \in DOMAIN NextOnFwdGetM : NextOnFwdGetM[s] # "IS_DI"
  /\ \A s \in DOMAIN NextOnInv : NextOnInv[s] = "IS_DI" => s = "IS_D"
  /\ \A s \in DOMAIN NextOnDataAck : NextOnDataAck[s] # "IS_DI"
BY DEF NextOnFwdGetS, NextOnFwdGetM, NextOnInv, NextOnDataAck, AwaitingData

\* A load gets there when it is invalidated: no data is sent to it then.
LEMMA LoadInvalidated ==
  ASSUME Inv, NEW c \in Cores, CacheStep(c), pr'[c] # pr[c],
         pr'[c] # None, pr'[c].st = "IS_DI"
  PROVE  /\ pr[c] # None /\ pr[c].st = "IS_D" /\ pr[c].line = pr'[c].line
         /\ \A k \in rsp' : k \in rsp \/ k.type # "Data"
<1>1. ~CoreStep(c)
  <2>1. ASSUME NEW a, NEW op, NEW d, NEW st, NEW type, NEW v, Issue(c, a, op, d, st, type, v)
        PROVE  pr'[c].st = st
    BY <2>1 DEF Issue, Inv, CacheInv, CacheTypeOK
  <2> QED
    BY <2>1 DEF CoreStep, LoadMiss, StoreMiss, Miss, LoadHit, StoreHit, StoreShared
<1>2. ASSUME NEW m \in fwd, ReceiveFwdGet(c, m)
      PROVE  FALSE
  <2> DEFINE next == IF m.type = "GetS" THEN NextOnFwdGetS ELSE NextOnFwdGetM
             s == State(c, m.addr)
  <2>1. /\ s \in DOMAIN next /\ SetPending(c, next[s], m.respondTo)
        /\ s \in TransientStates /\ m.addr \in Lines
    BY <1>2 DEF ReceiveFwdGet, SetTag, Inv, InterconnectTypeOK, Forward
  <2>2. next[s] # "IS_DI"
    BY <2>1, RowsToInvalidated
  <2>4. pr[c] \in PendingRequest
    BY <2>1, StateCases DEF Inv
  <2> HIDE DEF next, s
  <2>3. pr'[c] = [pr[c] EXCEPT !.st = next[s], !.fwdDest = m.respondTo]
    BY <2>1 DEF SetPending, Inv, CacheInv, CacheTypeOK
  <2> QED
    BY <2>2, <2>3, <2>4 DEF PendingRequest
<1>3. ASSUME NEW m \in fwd, ReceiveInv(c, m)
      PROVE  /\ pr[c] # None /\ pr[c].st = "IS_D" /\ pr[c].line = pr'[c].line
             /\ \A k \in rsp' : k \in rsp \/ k.type # "Data"
  <2> DEFINE s == State(c, m.addr)
  <2>1. /\ s \in DOMAIN NextOnInv /\ SetPending(c, NextOnInv[s], pr[c].fwdDest)
        /\ s \in TransientStates
        /\ rsp' = rsp \cup {AckMessage(m.addr, c, m.respondTo, c)}
    BY <1>3 DEF ReceiveInv, SetTag
  <2>2. m.addr \in Lines
    BY DEF Inv, InterconnectTypeOK, Forward
  <2>3. pr[c] \in PendingRequest /\ pr[c].st = s /\ pr[c] # None
    BY <2>1, <2>2, StateCases, NotNone DEF Inv
  <2> HIDE DEF s
  <2>4. pr'[c] = [pr[c] EXCEPT !.st = NextOnInv[s], !.fwdDest = pr[c].fwdDest]
    BY <2>1 DEF SetPending, Inv, CacheInv, CacheTypeOK
  <2>5. pr'[c].st = NextOnInv[s] /\ pr'[c].line = pr[c].line
    BY <2>3, <2>4 DEF PendingRequest
  <2>6. s = "IS_D"
    BY <2>1, <2>5, RowsToInvalidated
  <2>7. \A k \in rsp' : k \in rsp \/ k.type # "Data"
    BY <2>1 DEF AckMessage
  <2> QED
    BY <2>3, <2>5, <2>6, <2>7
<1>4. ASSUME NEW m \in rsp, ReceiveData(c, m) \/ ReceiveAck(c, m)
      PROVE  FALSE
  <2>1. /\ pr[c] \in PendingRequest
        /\ \A cl, ok : ~Complete(c, cl, m, ok)
    BY <1>4, ResponseRead DEF Complete, Inv, CacheInv, CacheTypeOK
  <2>2. CASE DataAck(c, m)
    <3>1. pr'[c] = [pr[c] EXCEPT !.st = NextOnDataAck[pr[c].st], !.total = m.acks,
                                 !.dataValid = TRUE]
      BY <2>2 DEF DataAck, Inv, CacheInv, CacheTypeOK
    <3>2. pr'[c].st = NextOnDataAck[pr[c].st]
      BY <2>1, <3>1 DEF PendingRequest
    <3> QED
      BY <2>2, <3>2, RowsToInvalidated DEF DataAck
  <2>3. CASE /\ pr[c].st \in AwaitingData \cup AwaitingAcks
             /\ pr' = [pr EXCEPT ![c] = [pr[c] EXCEPT !.acks = pr[c].acks + 1]]
    <3>1. pr'[c] = [pr[c] EXCEPT !.acks = pr[c].acks + 1]
      BY <2>3 DEF Inv, CacheInv, CacheTypeOK
    <3>2. pr'[c].st = pr[c].st
      BY <2>1, <3>1 DEF PendingRequest
    <3> QED
      BY <2>3, <3>2 DEF AwaitingData, AwaitingAcks
  <2> QED
    BY <1>4, <2>1, <2>2, <2>3 DEF ReceiveData, ReceiveAck
<1> QED
  BY <1>1, <1>2, <1>3, <1>4 DEF CacheStep, ForwardStep, ResponseStep

\* Its own datum is the only one it will ever see.
LEMMA NoOtherData ==
  ASSUME Inv, Coherent, Next, Inv', Coherent', NEW c \in Cores, NEW a \in Lines,
         HitPr(c, a)', pr'[c].st = "IS_DI",
         NEW k \in rsp', k.type = "Data", k.dst = c, k.addr = a
  PROVE  k \in rsp /\ HitPr(c, a) /\ pr[c].st \in {"IS_D", "IS_DI"}
<1>1. pr'[c] # None /\ pr'[c].line = a
  BY DEF HitPr
<1>2. CASE pr'[c] # pr[c]
  <2>1. CacheStep(c)
    <3>1. ASSUME NEW e \in Cores, e # c, CacheStep(e)
          PROVE  pr'[c] = pr[c]
      <4>1. pr \in [Cores -> PendingRequest \cup {None}]
        BY DEF Inv, CacheInv, CacheTypeOK
      <4>2. CASE CoreStep(e)
        BY <3>1, <4>1, <4>2 DEF CoreStep, LoadMiss, StoreMiss, Miss, LoadHit, StoreHit,
           StoreShared, Issue
      <4>3. CASE ForwardStep(e)
        BY <3>1, <4>1, <4>3 DEF ForwardStep, ReceiveFwdGet, ReceiveInv, SetTag, SetPending
      <4>4. CASE ResponseStep(e)
        BY <3>1, <4>1, <4>4 DEF ResponseStep, ReceiveData, ReceiveAck, DataAck, Complete
      <4> QED
        BY <3>1, <4>2, <4>3, <4>4 DEF CacheStep
    <3> QED
      BY <1>2, <3>1 DEF Next, cacheVars
  <2> QED
    BY <1>1, <1>2, <2>1, LoadInvalidated DEF HitPr
<1>3. CASE pr'[c] = pr[c]
  <2>1. HitPr(c, a) /\ pr[c].st = "IS_DI" /\ Pend(c, a) = pr[c] /\ pr[c] # None
    BY <1>1, <1>3 DEF HitPr, Pend
  <2>2. Granted(c, a)
    BY <2>1, InvalidatedLoad DEF Coherent, LineInv
  <2>3. Granted(c, a)'
    <3>1. Pend(c, a)' # None /\ Pend(c, a)'.st = "IS_DI"
      BY <1>1 DEF HitPr, Pend
    <3> QED
      BY <3>1, InvalidatedLoadsNext DEF InvalidatedServed
  <2>4. PICK x : Datas(c, a) = {x}
    BY <2>2 DEF Granted
  <2>5. x \in rsp /\ x.dst = c /\ x.type = "Data" /\ x.addr = a
    BY <2>4 DEF Datas
  <2>6. x \in rsp'
    <3> SUFFICES ASSUME x \notin rsp'
                 PROVE  FALSE
      OBVIOUS
    <3>1. ReceiveData(c, x)
      BY <2>5, TakenByItsCore DEF ReceiveAck
    <3>2. ~DataAck(c, x)
      BY <2>1 DEF DataAck, NextOnDataAck, AwaitingData
    <3>3. pr'[c] = None
      BY <3>1, <3>2 DEF ReceiveData, Complete, Inv, CacheInv, CacheTypeOK
    <3> QED
      BY <1>1, <3>3
  <2>7. k \in Datas(c, a)' /\ x \in Datas(c, a)'
    BY <2>5, <2>6 DEF Datas
  <2>8. k = x
    BY <2>3, <2>7 DEF Granted
  <2> QED
    BY <2>1, <2>5, <2>8
<1> QED
  BY <1>2, <1>3

\* What is known of a request, by the pending-request register.
LEMMA LoadingIs ==
  ASSUME Inv, NEW c \in Cores
  PROVE  /\ Loading(c) <=> (pr[c] # None /\ pr[c].st \in {"IS_D", "IS_DI"})
         /\ mshr[c] # None => /\ mshr[c].line = pr[c].line /\ mshr[c].line \in Lines
                              /\ mshr[c].op \in {"LD", "ST"}
                              /\ mshr[c].op = "ST" => mshr[c].data \in Values
BY DEF Loading, Inv, CacheInv, CacheTypeOK, MshrMatchesPr, Load, Store

LoadsKnown ==
  \A c \in Cores :
    /\ Loading(c) <=> (pr[c] # None /\ pr[c].st \in {"IS_D", "IS_DI"})
    /\ Loading(c) => mshr[c].line = pr[c].line /\ mshr[c].line \in Lines

LEMMA LoadsAreKnown == Inv => LoadsKnown
BY LoadingIs DEF LoadsKnown, Loading

LEMMA LoadsAreKnownNext == Inv' => LoadsKnown'
BY LoadsAreKnown, PTL

LEMMA LoadsMove ==
  ASSUME Inv, Coherent, LoadsInv, Next, Inv', Coherent', ContentsInv',
         current' = Memory!Observe(current, mshr', latest', spoiled')
  PROVE  LoadsInv'
<1>1. ASSUME NEW c \in Cores
      PROVE  /\ Loading(c)' =>
                 current'[c] = current[c] \cup IF mshr'[c].line \in spoiled'
                                                 THEN Data
                                                 ELSE {latest'[mshr'[c].line]}
             /\ ~Loading(c)' => current'[c] = {}
  BY DEF Memory!Observe, Memory!Anything, Loading, Data
<1>2. latest' \in [Lines -> Values]
  BY DEF Inv, CacheInv, CacheTypeOK
<1>3. ASSUME NEW c \in Cores, Loading(c)'
      PROVE  /\ mshr'[c].line = pr'[c].line /\ mshr'[c].line \in Lines
             /\ latest'[mshr'[c].line] \in current'[c]
             /\ current[c] \subseteq current'[c]
             /\ current'[c] \subseteq Data
             /\ mshr'[c].line \in spoiled' => current'[c] = Data
  <2>1. mshr'[c].line = pr'[c].line /\ mshr'[c].line \in Lines
    BY <1>3, LoadsAreKnownNext DEF LoadsKnown
  <2>2. current[c] \subseteq Data
    BY DEF LoadsInv
  <2>3. latest'[mshr'[c].line] \in Data
    BY <1>2, <2>1 DEF Data
  <2> QED
    BY <1>1, <1>3, <2>1, <2>2, <2>3
<1>4. current' \in [Cores -> SUBSET Data]
  <2>1. current' = [c \in Cores |-> current'[c]]
    BY DEF Memory!Observe
  <2>2. \A c \in Cores : current'[c] \in SUBSET Data
    BY <1>1, <1>3
  <2> QED
    BY <2>1, <2>2
<1>5. ASSUME NEW m \in rsp', m.type = "Data", m.dst \in Cores, HitPr(m.dst, m.addr)',
             pr'[m.dst].st \in {"IS_D", "IS_DI"}
      PROVE  m.data \in current'[m.dst]
  <2> DEFINE c == m.dst
  <2>1. /\ pr'[c] # None /\ pr'[c].line = m.addr /\ m.addr \in Lines
        /\ m.data \in Data
    BY <1>5 DEF HitPr, Inv, InterconnectTypeOK, Response
  <2>2. Loading(c)'
    BY <1>5, <2>1, LoadsAreKnownNext DEF LoadsKnown
  <2>3. CASE pr'[c].st = "IS_D" /\ m.addr \notin spoiled'
    <3>1. m.data = latest'[m.addr]
      BY <1>5, <2>1, <2>3 DEF ContentsInv, Current, DataCurrent, ToBeKept
    <3> QED
      BY <1>3, <1>5, <2>1, <2>2, <3>1
  <2>4. CASE pr'[c].st = "IS_DI"
    <3>1. m \in rsp /\ HitPr(c, m.addr) /\ pr[c].st \in {"IS_D", "IS_DI"}
      BY <1>5, <2>1, <2>4, NoOtherData
    <3>2. m.data \in current[c]
      BY <1>5, <3>1 DEF LoadsInv
    <3> QED
      BY <1>3, <1>5, <2>2, <3>2
  <2>5. CASE m.addr \in spoiled'
    BY <1>3, <1>5, <2>1, <2>2, <2>5
  <2> QED
    BY <1>5, <2>3, <2>4, <2>5
<1>6. \A c \in Cores : IF Loading(c)' THEN latest'[mshr'[c].line] \in current'[c]
                                       ELSE current'[c] = {}
  BY <1>1, <1>3
<1> QED
  BY <1>4, <1>5, <1>6 DEF LoadsInv

LEMMA LoadsUnchanged ==
  ASSUME LoadsInv, UNCHANGED memoryVars
  PROVE  LoadsInv'
<1>1. UNCHANGED <<current, latest, mshr, pr, rsp>>
  BY DEF memoryVars, vars, networks, cacheVars
<1> QED
  BY <1>1 DEF LoadsInv, Loading, HitPr

-----------------------------------------------------------------------------
(* Every step is a step of the memory or none.                             *)

\* Nothing changes that the cores see.
Unseen == UNCHANGED <<latest, tag, mshr, toCore>>

LEMMA RequestsAre == Memory!Requests = Load \cup Store
BY DEF Memory!Requests, Load, Store

LEMMA MissAsks ==
  ASSUME Inv, NEW c \in Cores, NEW a \in Lines, NEW op, NEW d, NEW st, NEW type,
         [op |-> op, line |-> a, data |-> d] \in Load \cup Store,
         Miss(c, a, op, d, st, type), UNCHANGED spoiled
  PROVE  \E r \in Memory!Requests : Memory!Ask(c, r)
<1> DEFINE r == [op |-> op, line |-> a, data |-> d]
<1>1. r \in Memory!Requests
  BY RequestsAre
<1>2. /\ mshr[c] = None /\ mshr' = [mshr EXCEPT ![c] = r]
      /\ toCore' = [toCore EXCEPT ![c] = None]
      /\ UNCHANGED <<latest, spoiled>>
  BY DEF Miss, Idle, Issue
<1>3. UNCHANGED tag \/ \E v \in Lines : tag' = [tag EXCEPT ![c][v] = "I"]
  BY DEF Miss, Evict, Held
<1> HIDE DEF r
<1>4. Memory!Ask(c, r)
  BY <1>2, <1>3 DEF Memory!Ask, Memory!Answer
<1> QED
  BY <1>1, <1>4

LEMMA CoreStepImplements ==
  ASSUME Inv, ContentsInv, NEW c \in Cores, CoreStep(c), UNCHANGED spoiled
  PROVE  Memory!CoreAction(c)
<1>1. PICK a \in Lines :
        \/ LoadMiss(c, a)
        \/ LoadHit(c, a)
        \/ \E d \in Values : \/ StoreMiss(c, a, d)
                             \/ StoreShared(c, a, d)
                             \/ StoreHit(c, a, d)
  BY DEF CoreStep
<1>2. CASE LoadMiss(c, a)
  <2>1. [op |-> "LD", line |-> a, data |-> Garbage] \in Load \cup Store
    BY DEF Load
  <2>2. \E r \in Memory!Requests : Memory!Ask(c, r)
    BY <1>2, <2>1, MissAsks DEF LoadMiss
  <2> QED
    BY <2>2 DEF Memory!CoreAction
<1>3. CASE LoadHit(c, a)
  <2>1. data[c][a] = latest[a] \/ a \in spoiled
    BY <1>3 DEF LoadHit, Hit, ContentsInv, Current, CopiesCurrent
  <2>2. Memory!LoadHit(c, a, data[c][a])
    BY <1>3, <2>1 DEF LoadHit, Hit, Idle, Memory!LoadHit, Memory!Answer
  <2>3. data[c][a] \in Memory!Anything
    BY DEF Memory!Anything, Data, Inv, CacheInv, CacheTypeOK
  <2> QED
    BY <2>2, <2>3 DEF Memory!CoreAction
<1>4. ASSUME NEW d \in Values, StoreMiss(c, a, d)
      PROVE  Memory!CoreAction(c)
  <2>1. [op |-> "ST", line |-> a, data |-> d] \in Load \cup Store
    BY DEF Store
  <2>2. \E r \in Memory!Requests : Memory!Ask(c, r)
    BY <1>4, <2>1, MissAsks DEF StoreMiss
  <2> QED
    BY <2>2 DEF Memory!CoreAction
<1>5. ASSUME NEW d \in Values, StoreShared(c, a, d)
      PROVE  Memory!CoreAction(c)
  <2> DEFINE r == [op |-> "ST", line |-> a, data |-> d]
  <2>1. r \in Memory!Requests
    BY RequestsAre DEF Store
  <2>2. /\ mshr[c] = None /\ mshr' = [mshr EXCEPT ![c] = r]
        /\ toCore' = [toCore EXCEPT ![c] = None]
        /\ UNCHANGED <<latest, spoiled>>
        /\ tag' = [tag EXCEPT ![c][a] = "I"]
    BY <1>5 DEF StoreShared, Idle, Issue, Migrate
  <2> HIDE DEF r
  <2>3. Memory!Ask(c, r)
    BY <2>2 DEF Memory!Ask, Memory!Answer
  <2> QED
    BY <2>1, <2>3 DEF Memory!CoreAction
<1>6. ASSUME NEW d \in Values, StoreHit(c, a, d)
      PROVE  Memory!CoreAction(c)
  <2>1. Memory!StoreHit(c, a)
    BY <1>6 DEF StoreHit, StoreDone, Idle, Memory!StoreHit, Memory!Answer
  <2> QED
    BY <2>1 DEF Memory!CoreAction
<1> QED
  BY <1>1, <1>2, <1>3, <1>4, <1>5, <1>6

LEMMA ForwardStepImplements ==
  ASSUME Inv, NEW c \in Cores, ForwardStep(c), UNCHANGED spoiled
  PROVE  Memory!CoreAction(c) \/ Unseen
<1>1. ASSUME NEW a \in Lines, NEW p \in {"S", "I"}, SetTag(c, a, p),
             tag[c][a] = "M" \/ (tag[c][a] = "S" /\ p = "I"),
             UNCHANGED <<mshr, latest, toCore>>
      PROVE  Memory!CoreAction(c)
  <2>1. Memory!Yield(c, a, p)
    BY <1>1 DEF SetTag, Memory!Yield
  <2> QED
    BY <2>1 DEF Memory!CoreAction
<1>2. ASSUME NEW m \in fwd, ReceiveFwdGet(c, m)
      PROVE  Memory!CoreAction(c) \/ Unseen
  <2> DEFINE a == m.addr
             next == IF m.type = "GetS" THEN NextOnFwdGetS ELSE NextOnFwdGetM
  <2>1. a \in Lines /\ UNCHANGED <<mshr, latest, toCore>>
    BY <1>2 DEF ReceiveFwdGet, Inv, InterconnectTypeOK, Forward
  <2>2. UNCHANGED tag \/ (State(c, a) = "M" /\ SetTag(c, a, next["M"]))
    BY <1>2 DEF ReceiveFwdGet, SetPending
  <2>3. State(c, a) = "M" => tag[c][a] = "M"
    BY <2>1, StateCases DEF Inv
  <2>4. next["M"] \in {"S", "I"}
    BY ForwardRow
  <2> HIDE DEF a, next
  <2> QED
    BY <1>1, <2>1, <2>2, <2>3, <2>4 DEF Unseen
<1>3. ASSUME NEW m \in fwd, ReceiveInv(c, m)
      PROVE  Memory!CoreAction(c) \/ Unseen
  <2> DEFINE a == m.addr
  <2>1. a \in Lines /\ UNCHANGED <<mshr, latest, toCore>>
    BY <1>3 DEF ReceiveInv, Inv, InterconnectTypeOK, Forward
  <2>2. UNCHANGED tag \/ (State(c, a) = "S" /\ SetTag(c, a, "I"))
    BY <1>3, ForwardRow DEF ReceiveInv, SetPending
  <2>3. State(c, a) = "S" => tag[c][a] = "S"
    BY <2>1, StateCases DEF Inv
  <2> HIDE DEF a
  <2> QED
    BY <1>1, <2>1, <2>2, <2>3 DEF Unseen
<1> QED
  BY <1>2, <1>3 DEF ForwardStep

LEMMA ResponseStepImplements ==
  ASSUME Inv, Coherent, ContentsInv, LoadsInv, NEW c \in Cores, NEW m \in rsp,
         ReceiveData(c, m) \/ ReceiveAck(c, m),
         spoiled' = spoiled \ Stored
  PROVE  Memory!CoreAction(c) \/ Unseen
<1> DEFINE a == m.addr
           s == pr[c].st
           cl == IF m.type = "Data" THEN m.data ELSE data[c][a]
<1>1. /\ a \in Lines /\ m.dst = c /\ pr[c] # None /\ pr[c].line = a
      /\ pr[c] \in PendingRequest
      /\ mshr[c] # None /\ mshr[c].line = a
      /\ (mshr[c].op = "LD") <=> (s \in {"IS_D", "IS_DI"})
      /\ mshr[c].op \in {"LD", "ST"}
  BY ResponseRead
<1>2. CASE pr'[c] # None
  <2>1. \A x, ok : ~Complete(c, x, m, ok)
    BY <1>2 DEF Complete, Inv, CacheInv, CacheTypeOK
  <2> QED
    BY <2>1 DEF ReceiveData, ReceiveAck, DataAck, Unseen
<1>3. CASE pr'[c] = None /\ mshr[c].op = "ST"
  <2>1. PICK ok : Complete(c, cl, m, ok)
    BY <1>3, ResponseRead
  <2>2. Sole(c, a)
    BY <1>1, <1>3, StoreSole
  <2>3. \A o \in Cores \ {c} : tag[o][a] = "I"
    BY <2>2 DEF Sole, Harmless
  <2> DEFINE p == FinalState(s)
  <2>4. /\ tag' = [tag EXCEPT ![c][a] = p]
        /\ mshr' = [mshr EXCEPT ![c] = None]
        /\ latest' = [latest EXCEPT ![a] = mshr[c].data]
        /\ toCore' = [toCore EXCEPT ![c] = Garbage]
    BY <1>1, <1>3, <2>1 DEF Complete, StoreDone
  <2>7. Stored = {a}
    BY <1>1, <1>3, <2>4 DEF Stored, Inv, CacheInv, CacheTypeOK
  <2>5. p \in Memory!Permissions
    BY DEF FinalState, Memory!Permissions
  <2> HIDE DEF a, p
  <2>6. Memory!FinishStore(c, p)
    BY <1>1, <1>3, <2>3, <2>4, <2>7 DEF Memory!FinishStore, Memory!Answer
  <2> QED
    BY <2>5, <2>6 DEF Memory!CoreAction
<1>4. CASE pr'[c] = None /\ mshr[c].op = "LD"
  <2>1. PICK ok : Complete(c, cl, m, ok)
    BY <1>4, ResponseRead
  <2>2. s \in {"IS_D", "IS_DI"}
    BY <1>1, <1>4
  <2>3. m.type = "Data"
    BY <2>2 DEF ReceiveData, ReceiveAck, AwaitingAcks, AwaitingData
  <2> DEFINE v == m.data
             p == FinalState(s)
  <2>4. v \in current[c]
    BY <1>1, <2>2, <2>3 DEF LoadsInv, HitPr
  <2>5. p \in {"I", "S"} /\ (p = "S" => s = "IS_D")
    BY <2>2, FinalStates
  <2>6. /\ tag' = [tag EXCEPT ![c][a] = p]
        /\ mshr' = [mshr EXCEPT ![c] = None]
        /\ latest' = latest
        /\ toCore' = [toCore EXCEPT ![c] = v]
    BY <1>1, <1>4, <2>1, <2>3 DEF Complete
  <2>9. Stored = {}
    BY <1>4, <2>6 DEF Stored, Inv, CacheInv, CacheTypeOK
  <2>7. ASSUME p = "S"
        PROVE  (v = latest[a] \/ a \in spoiled) /\ \A o \in Cores \ {c} : tag[o][a] # "M"
    <3>1. s = "IS_D"
      BY <2>5, <2>7
    <3>2. ToBeKept(m)
      BY <1>1, <2>3, <3>1 DEF ToBeKept, HitPr
    <3>3. v = latest[a] \/ a \in spoiled
      BY <1>1, <3>2 DEF ContentsInv, Current, DataCurrent
    <3>4. Loads(c, a) /\ Datas(c, a) # {}
      BY <1>1, <2>3, <3>1 DEF Loads, Pend, HitPr, Datas
    <3>5. ASSUME NEW o \in Cores, o # c, tag[o][a] = "M"
          PROVE  FALSE
      <4>1. Sole(o, a)
        BY <1>1, <3>5, HeldRole, OwningSole DEF Coherent, LineInv
      <4> QED
        BY <3>4, <3>5, <4>1 DEF Sole, Harmless
    <3> QED
      BY <3>3, <3>5
  <2> HIDE DEF a, p, v
  <2>8. Memory!FinishLoad(c, v, p)
    BY <1>1, <1>4, <2>4, <2>6, <2>7, <2>9 DEF Memory!FinishLoad, Memory!Answer
  <2> QED
    BY <2>4, <2>5, <2>8 DEF Memory!CoreAction
<1> QED
  BY <1>1, <1>2, <1>3, <1>4

\* Only a response completes a request.
LEMMA OthersStoreNothing ==
  ASSUME Inv, NEW c \in Cores, CoreStep(c) \/ ForwardStep(c)
  PROVE  Stored = {}
<1>1. mshr \in [Cores -> Load \cup Store \cup {None}]
  BY DEF Inv, CacheInv, CacheTypeOK
<1>2. ASSUME NEW a, NEW op, NEW d, NEW st, NEW type, NEW v, Issue(c, a, op, d, st, type, v),
             Idle(c)
      PROVE  Stored = {}
  BY <1>1, <1>2 DEF Issue, Idle, Stored
<1>3. CASE UNCHANGED mshr
  BY <1>3 DEF Stored
<1> QED
  BY <1>2, <1>3 DEF CoreStep, LoadMiss, StoreMiss, Miss, LoadHit, StoreHit, StoreShared,
                    ForwardStep, ReceiveFwdGet, ReceiveInv

LEMMA InitImplements == MemoryInit => Memory!Init /\ LoadsInv
BY DEF MemoryInit, Init, CacheInit, InterconnectInit, Memory!Init, LoadsInv, Loading

LEMMA StepImplements ==
  ASSUME CoherenceInv, ContentsInv, LoadsInv, [MemoryNext]_memoryVars
  PROVE  [Memory!Next]_(Memory!memory)
<1>1. Inv /\ Coherent
  BY DEF CoherenceInv, Coherent
<1>2. CASE UNCHANGED memoryVars
  BY <1>2 DEF memoryVars, vars, cacheVars, Memory!memory
<1>3. CASE MemoryNext
  <2>1. /\ Next
        /\ current' = Memory!Observe(current, mshr', latest', spoiled')
        /\ spoiled' = (spoiled \cup Misplaced \cup Overtaken \cup Misread) \ Stored
    BY <1>3 DEF MemoryNext
  <2>2. CASE Unseen /\ spoiled' = spoiled \cup Misplaced \cup Overtaken \cup Misread
    <3>1. Misplaced \cup Overtaken \cup Misread \in SUBSET Lines
      BY DEF Misplaced, Overtaken, Misread
    <3>2. Memory!Spoil
      BY <2>2, <3>1 DEF Unseen, Memory!Spoil
    <3> QED
      BY <2>1, <3>2 DEF Memory!Next
  <2>3. CASE UNCHANGED cacheVars
    <3>1. Unseen /\ Stored = {}
      BY <2>3, DirectoryStoresNothing DEF cacheVars, Unseen
    <3> QED
      BY <2>1, <2>2, <3>1
  <2>4. ASSUME NEW c \in Cores, CacheStep(c), UNCHANGED llcVars
        PROVE  [Memory!Next]_(Memory!memory)
    <3>1. Misplaced = {} /\ Overtaken = {} /\ Misread = {}
      BY <1>1, <2>4, CacheSpoilsNothing
    <3>2. Unseen \/ Memory!CoreAction(c)
      <4>1. CASE CoreStep(c) \/ ForwardStep(c)
        <5>1. spoiled' = spoiled
          BY <1>1, <2>1, <3>1, <4>1, OthersStoreNothing
        <5> QED
          BY <1>1, <4>1, <5>1, CoreStepImplements, ForwardStepImplements
      <4>2. CASE ResponseStep(c)
        BY <1>1, <2>1, <3>1, <4>2, ResponseStepImplements DEF ResponseStep
      <4> QED
        BY <2>4, <4>1, <4>2 DEF CacheStep
    <3>3. Unseen => Stored = {}
      BY DEF Unseen, Stored
    <3>4. CASE Unseen
      BY <2>1, <2>2, <3>3, <3>4
    <3>5. CASE Memory!CoreAction(c)
      BY <2>1, <3>5 DEF Memory!Next
    <3> QED
      BY <3>2, <3>4, <3>5
  <2> QED
    BY <2>1, <2>3, <2>4 DEF Next
<1> QED
  BY <1>2, <1>3

LEMMA StepLoads ==
  ASSUME CoherenceInv, ContentsInv, LoadsInv, [MemoryNext]_memoryVars,
         CoherenceInv', ContentsInv'
  PROVE  LoadsInv'
<1>1. Inv /\ Coherent /\ Inv' /\ Coherent'
  BY DEF CoherenceInv, Coherent
<1> QED
  BY <1>1, LoadsMove, LoadsUnchanged DEF MemoryNext

\* Ditty implements CoherentMemory: loads and stores of all cores are those of one
\* memory, but for loads of lines that the LLC has spoiled.
THEOREM Implementation ==
  ASSUME TimelyForwards
  PROVE  MemorySpec => ImplementsMemory
<1>1. MemoryInit => Memory!Init /\ LoadsInv
  BY InitImplements
<1>2. /\ CoherenceInv /\ ContentsInv /\ LoadsInv /\ [MemoryNext]_memoryVars
      /\ CoherenceInv' /\ ContentsInv'
      => LoadsInv'
  BY StepLoads
<1>3. CoherenceInv /\ ContentsInv /\ LoadsInv /\ [MemoryNext]_memoryVars
      => [Memory!Next]_(Memory!memory)
  BY StepImplements
<1> QED
  BY <1>1, <1>2, <1>3, MemorySteps, CoherenceInvariant, ContentsInvariant, PTL
     DEF MemorySpec, Spec, ImplementsMemory, Memory!Spec
=============================================================================
