---------------------------- MODULE Continuation ----------------------------
(***************************************************************************)
(* The continuation store of src/continuation.rs: the entry remembered for *)
(* a response id, and two alias maps that name the latest response of a    *)
(* conversation and of a tool call.  Nothing is ever evicted.  The server  *)
(* calls it under a mutex, so one call is one step.  The times of an entry *)
(* are left out: restore writes last_used_ms and nothing reads it.         *)
(***************************************************************************)
EXTENDS Integers, Sequences

CONSTANTS
    ResponseIds,    \* response ids
    Conversations,  \* conversation names
    ToolCalls,      \* tool call ids
    Snapshots,      \* session snapshots
    None,           \* Option::None
    MaxRemembers    \* bound: remember calls in a behaviour

VARIABLES
    by_id,                   \* ContinuationStore.by_id
    latest_by_conversation,  \* ContinuationStore.latest_by_conversation
    latest_by_tool_call,     \* ContinuationStore.latest_by_tool_call
    log                      \* history: the entries in the order of remember

vars == <<by_id, latest_by_conversation, latest_by_tool_call, log>>

ContinuationEntry ==
    [response_id : ResponseIds, conversation : Conversations \union {None},
     tool_call : ToolCalls \union {None}, snapshot : Snapshots]

ASSUME StoreAssumption ==
    /\ None \notin ContinuationEntry
    /\ None \notin ResponseIds \union Conversations \union ToolCalls
    /\ MaxRemembers \in Nat

\* HashMap::get and HashMap::insert.
Get(f, k) == IF k \in DOMAIN f THEN f[k] ELSE None
Insert(f, k, v) == [x \in DOMAIN f \union {k} |-> IF x = k THEN v ELSE f[x]]

\* Mutant: the alias of a conversation is set once and then kept.
RememberFirst(e) ==
    /\ latest_by_conversation' =
          IF e.conversation \in {None} \union DOMAIN latest_by_conversation
          THEN latest_by_conversation
          ELSE Insert(latest_by_conversation, e.conversation, e.response_id)
    /\ latest_by_tool_call' =
          IF e.tool_call = None THEN latest_by_tool_call
          ELSE Insert(latest_by_tool_call, e.tool_call, e.response_id)
    /\ by_id' = Insert(by_id, e.response_id, e)

\* Mutant: an entry that has a conversation is filed under it alone.
RememberByAlias(e) ==
    /\ latest_by_conversation' =
          IF e.conversation = None THEN latest_by_conversation
          ELSE Insert(latest_by_conversation, e.conversation, e.response_id)
    /\ latest_by_tool_call' =
          IF e.tool_call = None THEN latest_by_tool_call
          ELSE Insert(latest_by_tool_call, e.tool_call, e.response_id)
    /\ by_id' = IF e.conversation = None
                THEN Insert(by_id, e.response_id, e) ELSE by_id

\* ContinuationStore::remember.
Remember(e) ==
    /\ latest_by_conversation' =
          IF e.conversation = None THEN latest_by_conversation
          ELSE Insert(latest_by_conversation, e.conversation, e.response_id)
    /\ latest_by_tool_call' =
          IF e.tool_call = None THEN latest_by_tool_call
          ELSE Insert(latest_by_tool_call, e.tool_call, e.response_id)
    /\ by_id' = Insert(by_id, e.response_id, e)

\* ContinuationStore::restore: the first reference the request carries is
\* the only one that is tried.
Restore(previous_response_id, conversation, tool_call) ==
    IF previous_response_id # None
    THEN Get(by_id, previous_response_id)
    ELSE IF conversation # None
    THEN Get(by_id, Get(latest_by_conversation, conversation))
    ELSE IF tool_call # None
    THEN Get(by_id, Get(latest_by_tool_call, tool_call))
    ELSE None

-----------------------------------------------------------------------------
Init ==
    /\ by_id = <<>>
    /\ latest_by_conversation = <<>>
    /\ latest_by_tool_call = <<>>
    /\ log = <<>>

Next ==
    \E e \in ContinuationEntry :
        /\ Len(log) < MaxRemembers
        /\ Remember(e)
        /\ log' = Append(log, e)

Spec == Init /\ [][Next]_vars

-----------------------------------------------------------------------------
(* Properties.                                                             *)

IsMap(f, K, V) == DOMAIN f \subseteq K /\ \A k \in DOMAIN f : f[k] \in V

\* Three maps: entries by id, and ids by alias.
TypeOK ==
    /\ IsMap(by_id, ResponseIds, ContinuationEntry)
    /\ IsMap(latest_by_conversation, Conversations, ResponseIds)
    /\ IsMap(latest_by_tool_call, ToolCalls, ResponseIds)
    /\ log \in Seq(ContinuationEntry)

\* An alias never dangles: what remember filed under a conversation or a
\* tool call is found by restore, so its two-step lookup cannot miss between
\* the steps, and no map names an entry that was filed under another id.
AliasesResolve ==
    /\ \A c \in DOMAIN latest_by_conversation :
          latest_by_conversation[c] \in DOMAIN by_id
    /\ \A t \in DOMAIN latest_by_tool_call :
          latest_by_tool_call[t] \in DOMAIN by_id
    /\ \A id \in DOMAIN by_id : by_id[id].response_id = id

\* The last entry of the log that P holds of, None if there is none.
IsLatest(e, P(_)) ==
    \/ \E i \in 1..Len(log) :
          /\ e = log[i]
          /\ P(log[i])
          /\ \A j \in 1..Len(log) : P(log[j]) => j <= i
    \/ e = None /\ \A i \in 1..Len(log) : ~P(log[i])

\* No response id has been remembered twice.
FreshIds ==
    \A i, j \in 1..Len(log) : log[i].response_id = log[j].response_id => i = j

\* While response ids are not reused, a conversation and a tool call restore
\* the newest entry remembered under them, of whatever age and however many
\* entries of other conversations came after it.
RestoreIsLatest ==
    FreshIds =>
       /\ \A c \in Conversations :
             IsLatest(Restore(None, c, None), LAMBDA e : e.conversation = c)
       /\ \A t \in ToolCalls :
             IsLatest(Restore(None, None, t), LAMBDA e : e.tool_call = t)
=============================================================================
