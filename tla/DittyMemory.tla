---------------------------- MODULE DittyMemory -----------------------------
(***************************************************************************)
(* Ditty implements CoherentMemory.  The value of a line is what the last  *)
(* store that completed gave it, permission is the tag, a request is the   *)
(* MSHR's.                                                                 *)
(*                                                                         *)
(* Two history variables are added.  "current" is which values the line of *)
(* a pending load has had, since data that crosses an invalidation (IS_DI) *)
(* may be used once although it is no longer the latest.  "spoiled" is the *)
(* lines whose contents one of three steps of the LLC has put at risk; a   *)
(* line leaves it when the next store to it is completed.                  *)
(***************************************************************************)
EXTENDS Transactions

VARIABLES current, spoiled

memoryVars == <<vars, current, spoiled>>

\* A line only the LLC held was written to DRAM at the address of another.
Misplaced ==
  {a \in Lines : \E r \in NextRequests, v \in Lines :
                   ReplaceValid(r, v) /\ a \in {v, r.addr}}

\* The RespOk of a GetS was read before the owner's data, which the LLC will
\* not keep then.
Overtaken ==
  {a \in Lines : dir[a].st \notin {"MS_D", "MI_D"} /\ dir'[a].st \in {"MS_D", "MI_D"}}

\* A line only the LLC held was read at another way than its own.
Misread ==
  {a \in Lines : \E r \in NextRequests :
                   r.addr = a /\ GetSValid(r) /\ ~SendsData(r, 0, llc[a])}

\* A store was completed.
Stored ==
  {a \in Lines : \E c \in Cores :
                   /\ mshr[c] # None /\ mshr'[c] = None
                   /\ mshr[c].op = "ST" /\ mshr[c].line = a}

Memory == INSTANCE CoherentMemory
            WITH value <- latest, permission <- tag, request <- mshr,
                 response <- toCore, unreliable <- spoiled, NoData <- Garbage

MemoryInit ==
  /\ Init
  /\ current = [c \in Cores |-> {}]
  /\ spoiled = {}

MemoryNext ==
  /\ Next
  /\ spoiled' = (spoiled \cup Misplaced \cup Overtaken \cup Misread) \ Stored
  /\ current' = Memory!Observe(current, mshr', latest', spoiled')

MemorySpec == MemoryInit /\ [][MemoryNext]_memoryVars

\* Each core sees one memory: a load returns a value the line had between its
\* request and its answer, whatever crosses on the networks, and a store takes
\* effect at one moment, when no other core may read the line.  Only loads of
\* spoiled lines may return something else.
ImplementsMemory == Memory!Spec

\* Every copy a cache may read holds the contents last given to its line, as
\* long as the line is not spoiled.
CopiesUnspoiled ==
  \A c \in Cores, a \in Lines \ spoiled : tag[c][a] # "I" => data[c][a] = latest[a]

\* So does what the LLC may serve from: its own copy while sharers or nobody
\* hold the line, DRAM once the line has left the LLC.
MemoryUnspoiled ==
  \A a \in Lines \ spoiled :
    /\ dir[a].st = "S" => llc[a] = latest[a]
    /\ DirState(a) = "V" => llc[a] = latest[a]
    /\ DirState(a) = "I" => dram[a] = latest[a]

\* With CoherenceInv this is inductive.
ContentsInv ==
  /\ \A a \in Lines \ spoiled : Current(a)
  /\ \A a \in Lines : dir[a].st \in {"MS_D", "MI_D"} => a \in spoiled

Loading(c) == mshr[c] # None /\ mshr[c].op = "LD"

\* What a pending load may be answered with, the contents of its line now and
\* whatever is in a datum on its way, is among the contents it has had.
LoadsInv ==
  /\ current \in [Cores -> SUBSET Data]
  /\ \A c \in Cores : IF Loading(c) THEN latest[mshr[c].line] \in current[c]
                                   ELSE current[c] = {}
  /\ \A m \in rsp :
       /\ m.type = "Data"
       /\ m.dst \in Cores
       /\ HitPr(m.dst, m.addr)
       /\ pr[m.dst].st \in {"IS_D", "IS_DI"}
       => m.data \in current[m.dst]
=============================================================================
