------------------------------ MODULE KvCache ------------------------------
(***************************************************************************)
(* The visible KV cache of src/kv.rs: a map from cache keys to entries and *)
(* an optional directory of files, one per rendered text, that outlives    *)
(* the process.  The cache is used under the server's mutex, so one call   *)
(* is one step; what is not atomic is fs::write, which a full disk or a    *)
(* crash can stop after any of its bytes.                                  *)
(*                                                                         *)
(* Data abstraction.  A string is an opaque value; a cache key may be the  *)
(* rendered text of an entry, so both are Strings.  sha1 is injective.  An *)
(* entry keeps the number of its tokens, the number of tokens inside its   *)
(* snapshot, an identity for the bytes that are only copied (snapshot,     *)
(* times, counters), its tool replay and its save reason.  A file is the   *)
(* entry it was written from and how far the write got.                    *)
(***************************************************************************)
EXTENDS Integers, Sequences, FiniteSets

CONSTANTS
    Strings,     \* cache keys and rendered texts
    Bodies,      \* identities of snapshot payloads
    ToolIds,     \* tool_call_id values
    Blocks,      \* sampled tool blocks
    Counts,      \* token counts
    Entries,     \* entries a caller may store
    Legacy,      \* entries an older build left as DS4K files
    DiskOn,      \* the cache was made by with_disk_dir
    Tears,       \* sections after which a write may stop
    None,        \* Option::None
    MaxStores    \* bound: store calls in a behaviour

VARIABLES
    by_key,   \* KvCache.by_key
    disk,     \* the files, by the rendered text their name is the hash of
    ret,      \* the last call and what it returned
    written,  \* history: the entry of every store that reached fs::write
    mine,     \* history: the last Ok store under a key by this process
    latest    \* history: the last store of a text, None once it was torn

vars == <<by_key, disk, ret, written, mine, latest>>

\* HashMap::get and HashMap::insert.
Get(f, k) == IF k \in DOMAIN f THEN f[k] ELSE None
Insert(f, k, v) == [x \in DOMAIN f \union {k} |-> IF x = k THEN v ELSE f[x]]

Reasons == {"cold", "continued", "evict", "shutdown", "chat", "unknown"}
Replay == [id : ToolIds, block : Blocks]
Entry == [text : Strings, tokens : Counts, snap : Counts, body : Bodies,
          replay : SUBSET Replay, reason : Reasons]

ASSUME EntriesAssumption ==
    /\ Entries \subseteq Entry
    /\ Legacy \subseteq Entry
    /\ Counts \subseteq Nat
    /\ DiskOn \in BOOLEAN
    /\ MaxStores \in Nat
    /\ None \notin Entry

-----------------------------------------------------------------------------
(* The file format.  The bytes are written in this order, and a write that *)
(* stops early leaves a prefix: cut names the last section it completed.   *)

Empty == 0      \* less than the 52-byte header
Header == 1     \* the header, the text or the payload cut short
Payload == 2    \* header, text and snapshot payload
ToolMap == 3    \* and the tool replay section
ReasonLen == 4  \* and the reason's length, the reason cut short
Whole == 5      \* the reason too

File(e, cut) == [kind |-> "kvc", entry |-> e, cut |-> cut]

ASSUME TearsAssumption == Tears \subseteq Empty..ReasonLen

\* encode_save_reason then decode_save_reason: the header byte distinguishes
\* four reasons.
HeaderReason(reason) ==
    IF reason \in {"cold", "continued", "evict", "shutdown"}
    THEN reason ELSE "unknown"

Ok(v) == [tag |-> "ok", val |-> v]
Err == [tag |-> "err", val |-> None]

\* A file that find_tool_replay and load take for a KVC file at all.
IsKvc(f) == f.kind = "kvc" /\ f.cut # Empty

\* parse_tool_map: the section is absent when there is nothing to replay,
\* and an error when it is announced and cut short.
ToolMapReads(f) == f.entry.replay = {} \/ f.cut >= ToolMap

\* Mutant: a tool map that is cut short is read as no tool map.
LoadKvcLenient(f) ==
    IF /\ f.cut >= Payload
       /\ f.entry.tokens = 0 \/ f.entry.tokens = f.entry.snap
       /\ f.cut # ReasonLen
    THEN Ok([f.entry EXCEPT
                !.tokens = f.entry.snap,
                !.replay = IF ToolMapReads(f) THEN @ ELSE {},
                !.reason = IF f.cut = Whole THEN @ ELSE HeaderReason(@)])
    ELSE Err

\* load_kvc_entry.  The token count of the header is compared with the
\* snapshot's; the tokens of the result are the snapshot's.
LoadKvcEntry(f) ==
    IF /\ f.cut >= Payload
       /\ f.entry.tokens = 0 \/ f.entry.tokens = f.entry.snap
       /\ ToolMapReads(f)
       /\ f.cut # ReasonLen
    THEN Ok([f.entry EXCEPT
                !.tokens = f.entry.snap,
                !.reason = IF f.cut = Whole THEN @ ELSE HeaderReason(@)])
    ELSE Err

\* load_legacy_entry: every length is checked against the file's, and a DS4K
\* file carries no tool replay.
LoadLegacyEntry(f) ==
    IF f.kind = "ds4k" /\ f.cut = Whole
    THEN Ok([f.entry EXCEPT !.replay = {}])
    ELSE Err

\* Mutant: the file is read without asking whether it exists.
DiskLoadMissing(text) ==
    IF text \notin DOMAIN disk THEN Err
    ELSE IF IsKvc(disk[text]) THEN LoadKvcEntry(disk[text])
    ELSE LoadLegacyEntry(disk[text])

\* KvDiskStore::load_rendered_text.
DiskLoad(text) ==
    IF text \notin DOMAIN disk THEN Ok(None)
    ELSE IF IsKvc(disk[text]) THEN LoadKvcEntry(disk[text])
    ELSE LoadLegacyEntry(disk[text])

\* Mutant: the first tool block of the directory, whoever called for it.
DiskFindAny(id) ==
    LET kvc   == {t \in DOMAIN disk : IsKvc(disk[t])}
        found == UNION {LoadKvcEntry(disk[t]).val.replay :
                           t \in {u \in kvc : LoadKvcEntry(disk[u]) # Err}}
    IN  IF found # {} THEN {Ok(r.block) : r \in found} ELSE {Ok(None)}

\* KvDiskStore::find_tool_replay: the directory is read in no fixed order,
\* and the scan ends at the first file that has the id or fails to parse.
DiskFind(id) ==
    LET kvc   == {t \in DOMAIN disk : IsKvc(disk[t])}
        bad   == {t \in kvc : LoadKvcEntry(disk[t]) = Err}
        items == UNION {LoadKvcEntry(disk[t]).val.replay : t \in kvc \ bad}
        found == {r \in items : r.id = id}
    IN  {Ok(r.block) : r \in found}
          \union (IF bad # {} THEN {Err} ELSE {})
          \union (IF bad = {} /\ found = {} THEN {Ok(None)} ELSE {})

\* KvCache::find_tool_replay: the map first, in HashMap order, then the disk.
FindToolReplayResults(id) ==
    LET items == UNION {by_key[k].replay : k \in DOMAIN by_key}
        found == {r \in items : r.id = id}
    IN  IF found # {} THEN {Ok(r.block) : r \in found} ELSE DiskFind(id)

-----------------------------------------------------------------------------
(* Operations.                                                             *)

Answer(op, arg, result) == [op |-> op, arg |-> arg, result |-> result]
NoEntries == <<>>

\* Mutant: a file that exists already is taken for the same content.
WriteFileOnce(e, cut) ==
    disk' = IF DiskOn /\ e.text \notin DOMAIN disk
            THEN Insert(disk, e.text, File(e, cut)) ELSE disk

\* fs::write to the file named after the text.
WriteFile(e, cut) ==
    disk' = IF DiskOn THEN Insert(disk, e.text, File(e, cut)) ELSE disk

\* store: the file first, named after the text and not the key, then the map.
Store(k, e) ==
    /\ Len(written) < MaxStores
    /\ WriteFile(e, Whole)
    /\ written' = Append(written, e)
    /\ by_key' = Insert(by_key, k, e)
    /\ ret' = Answer("store", k, Ok(None))
    /\ mine' = Insert(mine, k, e)
    /\ latest' = Insert(latest, e.text, e)

\* fs::write fails half way: the error leaves the map alone and the file
\* truncated, the previous one lost.
StoreErr(k, e, cut) ==
    /\ DiskOn
    /\ Len(written) < MaxStores
    /\ WriteFile(e, cut)
    /\ written' = Append(written, e)
    /\ ret' = Answer("store", k, Err)
    /\ latest' = Insert(latest, e.text, None)
    /\ UNCHANGED <<by_key, mine>>

\* The process stops in the middle of fs::write and starts again.
StoreCrash(e, cut) ==
    /\ DiskOn
    /\ Len(written) < MaxStores
    /\ WriteFile(e, cut)
    /\ written' = Append(written, e)
    /\ by_key' = NoEntries
    /\ mine' = NoEntries
    /\ ret' = Answer("restart", None, Ok(None))
    /\ latest' = Insert(latest, e.text, None)

\* Mutant: the file, when there is one, goes before the map.
LoadDiskFirst(k) ==
    LET found == IF k \notin DOMAIN disk THEN Ok(Get(by_key, k)) ELSE DiskLoad(k)
    IN  /\ ret' = Answer("load", k, found)
        /\ by_key' = IF found.val = None THEN by_key ELSE Insert(by_key, k, found.val)
        /\ UNCHANGED <<disk, written, mine, latest>>

\* load and load_rendered_text are the same lookup: the key, else the file
\* of the text that equals the key, which is then kept under that key.
Load(k) ==
    LET found == IF k \in DOMAIN by_key THEN Ok(by_key[k]) ELSE DiskLoad(k)
    IN  /\ ret' = Answer("load", k, found)
        /\ by_key' = IF found.val = None THEN by_key ELSE Insert(by_key, k, found.val)
        /\ UNCHANGED <<disk, written, mine, latest>>

FindToolReplay(id) ==
    /\ \E r \in FindToolReplayResults(id) : ret' = Answer("find", id, r)
    /\ UNCHANGED <<by_key, disk, written, mine, latest>>

\* A new process on the same directory.
Restart ==
    /\ by_key' = NoEntries
    /\ mine' = NoEntries
    /\ ret' = Answer("restart", None, Ok(None))
    /\ UNCHANGED <<disk, written, latest>>

\* The directory may hold files of an older build.
Init ==
    /\ by_key = NoEntries
    /\ \E old \in SUBSET Legacy :
          disk = [s \in {e.text : e \in old} |->
                     [kind |-> "ds4k", cut |-> Whole,
                      entry |-> CHOOSE e \in old : e.text = s]]
    /\ ret = Answer("restart", None, Ok(None))
    /\ written = <<>>
    /\ mine = NoEntries
    /\ latest = NoEntries

Next ==
    \/ \E k \in Strings, e \in Entries : Store(k, e)
    \/ \E k \in Strings, e \in Entries, cut \in Tears : StoreErr(k, e, cut)
    \/ \E e \in Entries, cut \in Tears : StoreCrash(e, cut)
    \/ \E k \in Strings : Load(k)
    \/ \E id \in ToolIds : FindToolReplay(id)
    \/ Restart

Spec == Init /\ [][Next]_vars

-----------------------------------------------------------------------------
(* Properties.                                                             *)

\* Whatever write was torn and however often the process restarted, an entry
\* the cache serves is one that a store was given, whole: its snapshot and
\* its tool replay are never a prefix of what was saved.  Only the save
\* reason may fall back to the header's byte.
NoTornEntry ==
    \A k \in DOMAIN by_key :
        \/ \E i \in 1..Len(written) :
              /\ \A f \in {"text", "snap", "body", "replay"} :
                    by_key[k][f] = written[i][f]
              /\ by_key[k].reason \in {written[i].reason, HeaderReason(written[i].reason)}
        \/ \E e \in Legacy : by_key[k] = [e EXCEPT !.replay = {}]

\* A key this process stored under keeps the entry of its last store: no
\* lookup of a text that equals the key, and no failed store, replaces it.
ReadYourWrites == \A k \in DOMAIN mine : Get(by_key, k) = mine[k]

\* A new process reads back what the last store of a text wrote, until the
\* next store of that text begins, provided the header's token count agrees
\* with the snapshot.
Readable(e) == e.tokens \in {0, e.snap}
DurableUntilOverwritten ==
    DiskOn => \A t \in DOMAIN latest :
        (latest[t] # None /\ Readable(latest[t])) =>
            DiskLoad(t) = Ok([latest[t] EXCEPT !.tokens = latest[t].snap])

\* A lookup fails only when some file of the directory is damaged.
ErrMeansDamage ==
    (ret.op \in {"load", "find"} /\ ret.result.tag = "err") =>
        \E t \in DOMAIN disk : disk[t].cut # Whole \/ ~Readable(disk[t].entry)

\* A tool block is only ever returned for the call it was sampled in.
ReplayAnswersOwnId ==
    (ret.op = "find" /\ ret.result.val # None) =>
        \E i \in 1..Len(written) :
            [id |-> ret.arg, block |-> ret.result.val] \in written[i].replay
=============================================================================
