--------------------------- MODULE CoherentMemory ---------------------------
(***************************************************************************)
(* What the caches and the directory promise the cores together: one       *)
(* memory.  A line has one value; a core may read it, or write it too,     *)
(* while it has permission; a core has one request at a time.  A load is   *)
(* answered with a value the line had between the request and the answer,  *)
(* a store takes effect in one step while no other core has permission.    *)
(* Lines may become unreliable: until the next store to it, a load of such *)
(* a line may be answered with anything.  A store that finds its core with *)
(* permission is answered, but not promised to take effect.                *)
(*                                                                         *)
(* Nothing is said of messages or of a directory.  DittyMemory maps the    *)
(* state of the caches to this one.                                        *)
(***************************************************************************)
CONSTANTS
  Cores, Lines, Values,
  ZeroValue,   \* the value of every line before the first store
  NoData,      \* the data of a load, and what a store is answered
  None         \* no request, no response

VARIABLES
  value,       \* [Lines -> Values]
  permission,  \* [Cores -> [Lines -> {"I", "S", "M"}]]
  request,     \* the request of each core, or None
  response,    \* the last answer to each core, None once it asked again
  current,     \* the values the line of a pending load has had since it was
               \* requested
  unreliable   \* the lines that may be read as anything

memory == <<value, permission, request, response, current, unreliable>>

Anything == Values \cup {NoData}

Permissions == {"I", "S", "M"}

Requests == [op: {"LD"}, line: Lines, data: {NoData}]
            \cup [op: {"ST"}, line: Lines, data: Values]

Init ==
  /\ value = [a \in Lines |-> ZeroValue]
  /\ permission = [c \in Cores |-> [a \in Lines |-> "I"]]
  /\ request = [c \in Cores |-> None]
  /\ response = [c \in Cores |-> None]
  /\ current = [c \in Cores |-> {}]
  /\ unreliable = {}

\* The values the line of a pending load has had, one step further.
Observe(from, req, val, unrel) ==
  [c \in Cores |->
     IF req[c] = None \/ req[c].op # "LD" THEN {}
     ELSE from[c] \cup IF req[c].line \in unrel THEN Anything
                                             ELSE {val[req[c].line]}]

Answer(c, v) == response' = [response EXCEPT ![c] = v]

\* A request; making room for it, or asking for more permission, may cost the
\* core the permission it has for one line.
Ask(c, r) ==
  /\ request[c] = None
  /\ request' = [request EXCEPT ![c] = r]
  /\ Answer(c, None)
  /\ \/ UNCHANGED permission
     \/ \E a \in Lines : permission' = [permission EXCEPT ![c][a] = "I"]
  /\ UNCHANGED <<value, unreliable>>

\* A load with permission is answered at once.
LoadHit(c, a, v) ==
  /\ request[c] = None
  /\ permission[c][a] # "I"
  /\ v = value[a] \/ a \in unreliable
  /\ Answer(c, v)
  /\ UNCHANGED <<value, permission, request, unreliable>>

\* So is a store with permission to write.
StoreHit(c, a) ==
  /\ request[c] = None
  /\ permission[c][a] = "M"
  /\ Answer(c, NoData)
  /\ UNCHANGED <<value, permission, request, unreliable>>

\* The answer to a pending load: a value the line had meanwhile.  The core may
\* go on reading if that is still the value and nobody may write.
FinishLoad(c, v, p) ==
  /\ request[c] # None /\ request[c].op = "LD"
  /\ v \in current[c]
  /\ p = "S" => /\ v = value[request[c].line] \/ request[c].line \in unreliable
                /\ \A o \in Cores \ {c} : permission[o][request[c].line] # "M"
  /\ Answer(c, v)
  /\ permission' = [permission EXCEPT ![c][request[c].line] = p]
  /\ request' = [request EXCEPT ![c] = None]
  /\ UNCHANGED <<value, unreliable>>

\* A pending store takes effect; nobody else has permission.
FinishStore(c, p) ==
  /\ request[c] # None /\ request[c].op = "ST"
  /\ \A o \in Cores \ {c} : permission[o][request[c].line] = "I"
  /\ value' = [value EXCEPT ![request[c].line] = request[c].data]
  /\ Answer(c, NoData)
  /\ permission' = [permission EXCEPT ![c][request[c].line] = p]
  /\ request' = [request EXCEPT ![c] = None]
  /\ unreliable' = unreliable \ {request[c].line}

\* A core gives up permission for the sake of another.
Yield(c, a, p) ==
  /\ \/ permission[c][a] = "M" /\ p \in {"S", "I"}
     \/ permission[c][a] = "S" /\ p = "I"
  /\ permission' = [permission EXCEPT ![c][a] = p]
  /\ UNCHANGED <<value, request, response, unreliable>>

\* Lines become unreliable.
Spoil ==
  /\ \E spoiled \in SUBSET Lines : unreliable' = unreliable \cup spoiled
  /\ UNCHANGED <<value, permission, request, response>>

CoreAction(c) ==
  \/ \E r \in Requests : Ask(c, r)
  \/ \E a \in Lines, v \in Anything : LoadHit(c, a, v)
  \/ \E a \in Lines : StoreHit(c, a)
  \/ \E v \in current[c], p \in {"I", "S"} : FinishLoad(c, v, p)
  \/ \E p \in Permissions : FinishStore(c, p)
  \/ \E a \in Lines, p \in {"I", "S"} : Yield(c, a, p)

Next ==
  /\ Spoil \/ \E c \in Cores : CoreAction(c)
  /\ current' = Observe(current, request', value', unreliable')

Spec == Init /\ [][Next]_memory

-----------------------------------------------------------------------------
(* What follows from the specification (CoherentMemoryProofs).             *)

MemoryTypeOK ==
  /\ value \in [Lines -> Values]
  /\ permission \in [Cores -> [Lines -> Permissions]]
  /\ request \in [Cores -> Requests \cup {None}]

\* A core that may write a line is the only one that may read it.
Exclusive ==
  \A c, d \in Cores, a \in Lines :
    c # d /\ permission[c][a] = "M" => permission[d][a] = "I"
=============================================================================
