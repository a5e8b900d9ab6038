------------------------- MODULE ContinuationProofs -------------------------
(***************************************************************************)
(* Proofs about Continuation: the aliases never dangle, and while response *)
(* ids are fresh a conversation or a tool call restores the newest entry   *)
(* remembered under it, for every set of ids, names and snapshots and any  *)
(* number of calls.                                                        *)
(***************************************************************************)
EXTENDS Continuation, SequenceTheorems, TLAPS

\* Inserting keeps a map a map.
LEMMA InsertIsMap ==
    ASSUME NEW f, NEW K, NEW V, IsMap(f, K, V), NEW k \in K, NEW v \in V
    PROVE  IsMap(Insert(f, k, v), K, V)
BY DEF IsMap, Insert

\* The empty maps of a new store.
LEMMA EmptyIsMap == ASSUME NEW K, NEW V PROVE IsMap(<<>>, K, V)
BY DEF IsMap

\* The step of the specification for a given entry.
RememberStep(e) ==
    /\ Remember(e)
    /\ log' = Append(log, e)

\* Types are kept by a remember call.
LEMMA TypePreserved ==
    ASSUME TypeOK, NEW e \in ContinuationEntry, RememberStep(e)
    PROVE  TypeOK'
<1>0. /\ e.response_id \in ResponseIds
      /\ e.conversation # None => e.conversation \in Conversations
      /\ e.tool_call # None => e.tool_call \in ToolCalls
  BY DEF ContinuationEntry
<1>1. IsMap(by_id', ResponseIds, ContinuationEntry)
  BY <1>0, InsertIsMap DEF TypeOK, RememberStep, Remember
<1>2. IsMap(latest_by_conversation', Conversations, ResponseIds)
  BY <1>0, InsertIsMap DEF TypeOK, RememberStep, Remember
<1>3. IsMap(latest_by_tool_call', ToolCalls, ResponseIds)
  BY <1>0, InsertIsMap DEF TypeOK, RememberStep, Remember
<1>4. log' \in Seq(ContinuationEntry)
  BY AppendProperties DEF TypeOK, RememberStep
<1> QED
  BY <1>1, <1>2, <1>3, <1>4 DEF TypeOK

\* Aliases resolve after a remember call.
LEMMA AliasesPreserved ==
    ASSUME TypeOK, AliasesResolve, NEW e \in ContinuationEntry, RememberStep(e)
    PROVE  AliasesResolve'
<1>1. /\ DOMAIN by_id' = DOMAIN by_id \union {e.response_id}
      /\ by_id'[e.response_id] = e
      /\ \A x \in DOMAIN by_id : x # e.response_id => by_id'[x] = by_id[x]
  BY DEF RememberStep, Remember, Insert
<1>2. \A c \in DOMAIN latest_by_conversation' : latest_by_conversation'[c] \in DOMAIN by_id'
  BY <1>1 DEF RememberStep, Remember, AliasesResolve, Insert
<1>3. \A t \in DOMAIN latest_by_tool_call' : latest_by_tool_call'[t] \in DOMAIN by_id'
  BY <1>1 DEF RememberStep, Remember, AliasesResolve, Insert
<1>4. \A id \in DOMAIN by_id' : by_id'[id].response_id = id
  BY <1>1 DEF AliasesResolve
<1> QED
  BY <1>2, <1>3, <1>4 DEF AliasesResolve

-----------------------------------------------------------------------------
(* The strengthening of RestoreIsLatest: every entry of the log is still   *)
(* the one its id names, and an alias is the id of the last entry under it. *)

\* Nothing that was remembered has been overwritten.
LogIsKept ==
    \A i \in 1..Len(log) :
        /\ log[i].response_id \in DOMAIN by_id
        /\ by_id[log[i].response_id] = log[i]

\* i is the last entry of s that carries key k in field f.
LastWith(s, f, k, i) ==
    /\ s[i][f] = k
    /\ \A j \in 1..Len(s) : s[j][f] = k => j <= i

\* The map names, for every key, the last entry of s that carries it in
\* field f.
NamesLast(map, s, f, Keys) ==
    \A k \in Keys :
        IF k \in DOMAIN map
        THEN \E i \in 1..Len(s) : LastWith(s, f, k, i) /\ map[k] = s[i].response_id
        ELSE \A i \in 1..Len(s) : s[i][f] # k

FreshInv ==
    /\ LogIsKept
    /\ NamesLast(latest_by_conversation, log, "conversation", Conversations)
    /\ NamesLast(latest_by_tool_call, log, "tool_call", ToolCalls)

Inv == TypeOK /\ AliasesResolve /\ (FreshIds => FreshInv)

\* The log after a remember call.
LEMMA LogGrows ==
    ASSUME TypeOK, NEW e \in ContinuationEntry, RememberStep(e)
    PROVE  /\ Len(log) \in Nat
           /\ Len(log') = Len(log) + 1
           /\ log'[Len(log) + 1] = e
           /\ \A i \in 1..Len(log) : log'[i] = log[i]
BY AppendProperties DEF TypeOK, RememberStep

\* Ids that are distinct after a remember call were distinct before it.
LEMMA FreshBefore ==
    ASSUME TypeOK, FreshIds', NEW e \in ContinuationEntry, RememberStep(e)
    PROVE  FreshIds
BY LogGrows DEF FreshIds

\* A fresh id overwrites no entry of the log.
LEMMA LogKeptPreserved ==
    ASSUME TypeOK, LogIsKept, FreshIds', NEW e \in ContinuationEntry, RememberStep(e)
    PROVE  LogIsKept'
<1>1. /\ DOMAIN by_id' = DOMAIN by_id \union {e.response_id}
      /\ by_id'[e.response_id] = e
      /\ \A x \in DOMAIN by_id : x # e.response_id => by_id'[x] = by_id[x]
  BY DEF RememberStep, Remember, Insert
<1>2. SUFFICES ASSUME NEW i \in 1..Len(log')
               PROVE  /\ log'[i].response_id \in DOMAIN by_id'
                      /\ by_id'[log'[i].response_id] = log'[i]
  BY DEF LogIsKept
<1>3. CASE i = Len(log) + 1
  BY <1>1, <1>3, LogGrows
<1>4. CASE i # Len(log) + 1
  <2>1. i \in 1..Len(log)
    BY <1>4, LogGrows
  <2>2. log'[i] = log[i] /\ log[i].response_id # e.response_id
    BY <1>4, <2>1, LogGrows DEF FreshIds
  <2> QED
    BY <1>1, <2>1, <2>2 DEF LogIsKept
<1> QED
  BY <1>3, <1>4

\* An alias map that is updated for the key of the new entry, and for no
\* other, names the last entries of the longer log.
LEMMA NamesLastPreserved ==
    ASSUME TypeOK, NEW e \in ContinuationEntry, RememberStep(e),
           NEW f, NEW Keys, None \notin Keys, NEW map, NEW map2,
           NamesLast(map, log, f, Keys),
           map2 = IF e[f] = None THEN map ELSE Insert(map, e[f], e.response_id)
    PROVE  NamesLast(map2, log', f, Keys)
<1> DEFINE n == Len(log) + 1
<1>1. /\ Len(log) \in Nat
      /\ Len(log') = n
      /\ log'[n] = e
      /\ \A i \in 1..Len(log) : log'[i] = log[i]
  BY LogGrows
<1>2. \A i \in 1..n : i # n => i \in 1..Len(log)
  BY <1>1
<1>3. /\ n \in 1..n
      /\ \A i \in 1..Len(log) : i \in 1..n /\ i <= n /\ i # n
      /\ \A i \in 1..n : i <= n
  BY <1>1
<1> HIDE DEF n
<1>4. SUFFICES ASSUME NEW k \in Keys
               PROVE  IF k \in DOMAIN map2
                      THEN \E i \in 1..n :
                              /\ log'[i][f] = k
                              /\ \A j \in 1..n : log'[j][f] = k => j <= i
                              /\ map2[k] = log'[i].response_id
                      ELSE \A i \in 1..n : log'[i][f] # k
  BY <1>1 DEF NamesLast, LastWith
<1>5. CASE e[f] = k
  <2>1. k \in DOMAIN map2 /\ map2[k] = e.response_id
    BY <1>5 DEF Insert
  <2> QED
    BY <1>1, <1>3, <1>5, <2>1
<1>6. CASE e[f] # k
  <2>1. /\ k \in DOMAIN map2 <=> k \in DOMAIN map
        /\ k \in DOMAIN map => map2[k] = map[k]
    BY <1>6 DEF Insert
  <2>2. CASE k \in DOMAIN map
    <3>1. PICK i \in 1..Len(log) : LastWith(log, f, k, i) /\ map[k] = log[i].response_id
      BY <2>2 DEF NamesLast
    <3>2. \A j \in 1..n : log'[j][f] = k => j <= i
      BY <1>1, <1>2, <1>6, <3>1 DEF LastWith
    <3> QED
      BY <1>1, <1>3, <2>1, <2>2, <3>1, <3>2 DEF LastWith
  <2>3. CASE k \notin DOMAIN map
    <3>1. \A i \in 1..Len(log) : log[i][f] # k
      BY <2>3 DEF NamesLast
    <3> QED
      BY <1>1, <1>2, <1>6, <2>1, <2>3, <3>1
  <2> QED
    BY <2>2, <2>3
<1> QED
  BY <1>5, <1>6

\* The strengthened invariant is kept by a remember call.
LEMMA FreshPreserved ==
    ASSUME TypeOK, FreshInv, FreshIds', NEW e \in ContinuationEntry, RememberStep(e)
    PROVE  FreshInv'
<1>1. LogIsKept'
  BY LogKeptPreserved DEF FreshInv
<1>2. NamesLast(latest_by_conversation, log, "conversation", Conversations)'
  <2>1. latest_by_conversation' =
           IF e["conversation"] = None THEN latest_by_conversation
           ELSE Insert(latest_by_conversation, e["conversation"], e.response_id)
    BY DEF RememberStep, Remember
  <2>2. NamesLast(latest_by_conversation, log, "conversation", Conversations)
    BY DEF FreshInv
  <2>3. None \notin Conversations
    BY StoreAssumption
  <2> QED
    BY <2>1, <2>2, <2>3, NamesLastPreserved
<1>3. NamesLast(latest_by_tool_call, log, "tool_call", ToolCalls)'
  <2>1. latest_by_tool_call' =
           IF e["tool_call"] = None THEN latest_by_tool_call
           ELSE Insert(latest_by_tool_call, e["tool_call"], e.response_id)
    BY DEF RememberStep, Remember
  <2>2. NamesLast(latest_by_tool_call, log, "tool_call", ToolCalls)
    BY DEF FreshInv
  <2>3. None \notin ToolCalls
    BY StoreAssumption
  <2> QED
    BY <2>1, <2>2, <2>3, NamesLastPreserved
<1> QED
  BY <1>1, <1>2, <1>3 DEF FreshInv

\* The strengthened invariant holds in every reachable state of the store.
THEOREM StoreInvariant == Spec => []Inv
<1>1. Init => Inv
  <2> SUFFICES ASSUME Init PROVE Inv
    OBVIOUS
  <2>1. TypeOK
    BY EmptyIsMap, EmptySeq DEF Init, TypeOK
  <2>2. DOMAIN <<>> = {} /\ Len(<<>>) = 0 /\ 1..0 = {}
    OBVIOUS
  <2>3. AliasesResolve
    BY <2>2 DEF Init, AliasesResolve
  <2>4. FreshInv
    BY <2>2 DEF Init, FreshInv, LogIsKept, NamesLast
  <2> QED
    BY <2>1, <2>3, <2>4 DEF Inv
<1>2. Inv /\ [Next]_vars => Inv'
  <2> SUFFICES ASSUME Inv, [Next]_vars PROVE Inv'
    OBVIOUS
  <2>1. CASE Next
    <3>1. PICK e \in ContinuationEntry : RememberStep(e)
      BY <2>1 DEF Next, RememberStep
    <3>2. TypeOK' /\ AliasesResolve'
      BY <3>1, TypePreserved, AliasesPreserved DEF Inv
    <3>3. FreshIds' => FreshInv'
      BY <3>1, FreshBefore, FreshPreserved DEF Inv
    <3> QED
      BY <3>2, <3>3 DEF Inv
  <2>2. CASE UNCHANGED vars
    BY <2>2 DEF vars, Inv, TypeOK, AliasesResolve, FreshIds, FreshInv, LogIsKept,
                NamesLast, LastWith
  <2> QED
    BY <2>1, <2>2
<1> QED
  BY <1>1, <1>2, PTL DEF Spec

\* No alias of the store dangles, reused ids or not.
THEOREM AliasesNeverDangle == Spec => []AliasesResolve
<1>1. Inv => AliasesResolve
  BY DEF Inv
<1> QED
  BY <1>1, StoreInvariant, PTL

\* An alias that names the last entry of its key restores that entry.
LEMMA RestoredIsLatest ==
    ASSUME TypeOK, LogIsKept, NEW map, NEW f, NEW Keys,
           NamesLast(map, log, f, Keys),
           NEW k \in Keys, IsMap(map, Keys, ResponseIds)
    PROVE  LET r == Get(by_id, Get(map, k))
           IN  \/ \E i \in 1..Len(log) :
                     /\ r = log[i]
                     /\ log[i][f] = k
                     /\ \A j \in 1..Len(log) : log[j][f] = k => j <= i
               \/ r = None /\ \A i \in 1..Len(log) : log[i][f] # k
<1>1. CASE k \in DOMAIN map
  <2>1. PICK i \in 1..Len(log) : LastWith(log, f, k, i) /\ map[k] = log[i].response_id
    BY <1>1 DEF NamesLast
  <2>2. Get(by_id, Get(map, k)) = log[i]
    BY <1>1, <2>1 DEF Get, LogIsKept
  <2> QED
    BY <2>1, <2>2 DEF LastWith
<1>2. CASE k \notin DOMAIN map
  <2>1. Get(map, k) = None
    BY <1>2 DEF Get
  <2>2. None \notin DOMAIN by_id
    BY StoreAssumption DEF TypeOK, IsMap
  <2> QED
    BY <1>2, <2>1, <2>2 DEF Get, NamesLast
<1> QED
  BY <1>1, <1>2

\* While response ids are fresh, restore by conversation or by tool call
\* returns the newest entry remembered under it.
THEOREM RestoreFindsLatest == Spec => []RestoreIsLatest
<1>1. Inv => RestoreIsLatest
  <2> SUFFICES ASSUME Inv, FreshIds PROVE RestoreIsLatest
    BY DEF RestoreIsLatest
  <2>1. \A c \in Conversations :
           IsLatest(Restore(None, c, None), LAMBDA e : e.conversation = c)
    <3> TAKE c \in Conversations
    <3>1. Restore(None, c, None) = Get(by_id, Get(latest_by_conversation, c))
      BY StoreAssumption DEF Restore
    <3>2. IsMap(latest_by_conversation, Conversations, ResponseIds)
      BY DEF Inv, TypeOK
    <3> QED
      BY <3>1, <3>2, RestoredIsLatest DEF Inv, FreshInv, IsLatest
  <2>2. \A t \in ToolCalls :
           IsLatest(Restore(None, None, t), LAMBDA e : e.tool_call = t)
    <3> TAKE t \in ToolCalls
    <3>1. Restore(None, None, t) = Get(by_id, Get(latest_by_tool_call, t))
      BY StoreAssumption DEF Restore
    <3>2. IsMap(latest_by_tool_call, ToolCalls, ResponseIds)
      BY DEF Inv, TypeOK
    <3> QED
      BY <3>1, <3>2, RestoredIsLatest DEF Inv, FreshInv, IsLatest
  <2> QED
    BY <2>1, <2>2 DEF RestoreIsLatest
<1> QED
  BY <1>1, StoreInvariant, PTL
=============================================================================
