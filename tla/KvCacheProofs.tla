---------------------------- MODULE KvCacheProofs ----------------------------
(***************************************************************************)
(* What the visible KV cache promises its callers, for every set of keys,  *)
(* texts and entries, every number of stores and every place a write stops.*)
(***************************************************************************)
EXTENDS KvCache, SequenceTheorems, TLAPS

\* The history of writes is a sequence of entries.
History == written \in Seq(Entry)

\* What this process stored under a key is still in the map.
MineInMap ==
    \A k \in DOMAIN mine : k \in DOMAIN by_key /\ by_key[k] = mine[k]

\* The last store of a text, if it was not torn, is the whole file of that text.
LatestOnDisk ==
    DiskOn => \A t \in DOMAIN latest :
        latest[t] # None =>
            /\ latest[t] \in Entry
            /\ t \in DOMAIN disk
            /\ disk[t] = File(latest[t], Whole)

\* A file is a whole or torn write of an entry of the log, or a legacy file.
FileOf(log, f) ==
    \/ f.kind = "kvc" /\ \E i \in 1..Len(log) : f.entry = log[i]
    \/ f.kind = "ds4k" /\ f.entry \in Legacy

FilesAreWritten == \A t \in DOMAIN disk : FileOf(written, disk[t])

\* What NoTornEntry says of one entry of the map.
WholeIn(log, e) ==
    \/ \E i \in 1..Len(log) :
          /\ \A f \in {"text", "snap", "body", "replay"} : e[f] = log[i][f]
          /\ e.reason \in {log[i].reason, HeaderReason(log[i].reason)}
    \/ \E l \in Legacy : e = [l EXCEPT !.replay = {}]

MapIsWhole == \A k \in DOMAIN by_key : WholeIn(written, by_key[k])

Inv == History /\ MineInMap /\ LatestOnDisk /\ FilesAreWritten /\ MapIsWhole

-----------------------------------------------------------------------------
\* A file that the KVC reader accepts gives its entry back, with the snapshot's
\* tokens and perhaps the header's reason.
LEMMA KvcReads ==
    ASSUME NEW f, f.entry \in Entry, LoadKvcEntry(f) # Err
    PROVE  /\ \A g \in {"text", "snap", "body", "replay"} :
                 LoadKvcEntry(f).val[g] = f.entry[g]
           /\ LoadKvcEntry(f).val.reason \in {f.entry.reason, HeaderReason(f.entry.reason)}
<1> DEFINE r == [f.entry EXCEPT !.tokens = f.entry.snap,
                    !.reason = IF f.cut = Whole THEN @ ELSE HeaderReason(@)]
<1>1. LoadKvcEntry(f) = Ok(r)
  BY DEF LoadKvcEntry
<1>2. LoadKvcEntry(f).val = r
  BY <1>1 DEF Ok
<1>3. r.reason \in {f.entry.reason, HeaderReason(f.entry.reason)}
  BY DEF Entry
<1>4. /\ r["text"] = f.entry["text"] /\ r["snap"] = f.entry["snap"]
      /\ r["body"] = f.entry["body"] /\ r["replay"] = f.entry["replay"]
  BY DEF Entry
<1> QED
  BY <1>2, <1>3, <1>4

\* A KVC file that was written whole, and whose token count agrees with its
\* snapshot, reads back as it was stored, with the snapshot's tokens.
LEMMA WholeReadsBack ==
    ASSUME NEW e \in Entry, Readable(e)
    PROVE  LoadKvcEntry(File(e, Whole)) = Ok([e EXCEPT !.tokens = e.snap])
<1> DEFINE f == File(e, Whole)
<1>1. f.entry = e /\ f.cut = 5
  BY DEF File, Whole
<1>2. f.cut >= Payload /\ ToolMapReads(f) /\ f.cut # ReasonLen /\ f.cut = Whole
  BY <1>1 DEF Payload, ToolMapReads, ToolMap, ReasonLen, Whole
<1>3. f.entry.tokens = 0 \/ f.entry.tokens = f.entry.snap
  BY <1>1 DEF Readable
<1>4. [e EXCEPT !.tokens = e.snap, !.reason = IF f.cut = Whole THEN @ ELSE HeaderReason(@)]
        = [e EXCEPT !.tokens = e.snap]
  BY <1>2 DEF Entry
<1> HIDE DEF f
<1> QED
  BY <1>1, <1>2, <1>3, <1>4 DEF LoadKvcEntry, f

\* What a lookup of the disk returns is whole, though the write may have been
\* torn: the sections that were cut are noticed.
LEMMA DiskServesWhole ==
    ASSUME Inv, NEW t, DiskLoad(t).val # None
    PROVE  WholeIn(written, DiskLoad(t).val)
<1>1. t \in DOMAIN disk
  BY DEF DiskLoad, Ok
<1>2. FileOf(written, disk[t])
  BY <1>1 DEF Inv, FilesAreWritten
<1>3. CASE IsKvc(disk[t])
  <2>1. DiskLoad(t) = LoadKvcEntry(disk[t])
    BY <1>1, <1>3 DEF DiskLoad
  <2>2. PICK i \in 1..Len(written) : disk[t].entry = written[i]
    BY <1>2, <1>3 DEF FileOf, IsKvc
  <2>3. disk[t].entry \in Entry
    BY <2>2 DEF Inv, History
  <2>4. LoadKvcEntry(disk[t]) # Err
    BY <2>1 DEF Err
  <2>5. /\ \A g \in {"text", "snap", "body", "replay"} : DiskLoad(t).val[g] = written[i][g]
        /\ DiskLoad(t).val.reason \in {written[i].reason, HeaderReason(written[i].reason)}
    BY <2>1, <2>2, <2>3, <2>4, KvcReads
  <2> QED
    BY <2>5 DEF WholeIn
<1>4. CASE ~IsKvc(disk[t])
  <2>1. DiskLoad(t) = LoadLegacyEntry(disk[t])
    BY <1>1, <1>4 DEF DiskLoad
  <2>2. disk[t].kind = "ds4k" /\ DiskLoad(t).val = [disk[t].entry EXCEPT !.replay = {}]
    BY <2>1 DEF LoadLegacyEntry, Ok, Err
  <2> QED
    BY <1>2, <2>2 DEF FileOf, WholeIn
<1> QED
  BY <1>3, <1>4

-----------------------------------------------------------------------------
\* One more write keeps the history.
LEMMA LogGrows ==
    ASSUME NEW log \in Seq(Entry), NEW e \in Entry
    PROVE  /\ Append(log, e) \in Seq(Entry)
           /\ Len(log) + 1 \in 1..Len(Append(log, e))
           /\ Append(log, e)[Len(log) + 1] = e
           /\ \A i \in 1..Len(log) :
                 i \in 1..Len(Append(log, e)) /\ Append(log, e)[i] = log[i]
BY AppendProperties

\* What was whole, or a file of the history, stays so.
LEMMA GrowKeeps ==
    ASSUME NEW log \in Seq(Entry), NEW e \in Entry
    PROVE  /\ \A x : WholeIn(log, x) => WholeIn(Append(log, e), x)
           /\ \A f : FileOf(log, f) => FileOf(Append(log, e), f)
           /\ WholeIn(Append(log, e), e)
           /\ \A cut : FileOf(Append(log, e), File(e, cut))
<1> DEFINE new == Append(log, e)
<1>1. /\ Len(log) + 1 \in 1..Len(new) /\ new[Len(log) + 1] = e
      /\ \A i \in 1..Len(log) : i \in 1..Len(new) /\ new[i] = log[i]
  BY LogGrows
<1> HIDE DEF new
<1>2. ASSUME NEW x, WholeIn(log, x) PROVE WholeIn(new, x)
  BY <1>1, <1>2 DEF WholeIn
<1>3. ASSUME NEW f, FileOf(log, f) PROVE FileOf(new, f)
  BY <1>1, <1>3 DEF FileOf
<1>4. WholeIn(new, e)
  BY <1>1 DEF WholeIn
<1>5. ASSUME NEW cut PROVE FileOf(new, File(e, cut))
  BY <1>1 DEF FileOf, File
<1> QED
  BY <1>2, <1>3, <1>4, <1>5 DEF new

\* A write, whole or torn, leaves only files of the history.
LEMMA WriteKeepsFiles ==
    ASSUME History, FilesAreWritten, NEW e \in Entry, NEW cut,
           WriteFile(e, cut), written' = Append(written, e)
    PROVE  History' /\ FilesAreWritten'
<1>1. History'
  BY LogGrows DEF History
<1>2. ASSUME NEW t \in DOMAIN disk' PROVE FileOf(Append(written, e), disk'[t])
  <2>1. CASE disk' = disk
    BY <1>2, <2>1, GrowKeeps DEF History, FilesAreWritten
  <2>2. CASE disk' = Insert(disk, e.text, File(e, cut))
    <3>1. CASE t = e.text
      BY <2>2, <3>1, GrowKeeps DEF Insert, History
    <3>2. CASE t # e.text
      <4>1. t \in DOMAIN disk /\ disk'[t] = disk[t]
        BY <1>2, <2>2, <3>2 DEF Insert
      <4> QED
        BY <4>1, GrowKeeps DEF History, FilesAreWritten
    <3> QED
      BY <3>1, <3>2
  <2> QED
    BY <2>1, <2>2 DEF WriteFile
<1> QED
  BY <1>1, <1>2 DEF FilesAreWritten

\* A write of one text leaves the last whole store of every other text alone.
LEMMA WriteKeepsLatest ==
    ASSUME LatestOnDisk, NEW e \in Entry, NEW cut, NEW v,
           WriteFile(e, cut), latest' = Insert(latest, e.text, v),
           v = None \/ (v = e /\ cut = Whole)
    PROVE  LatestOnDisk'
<1> SUFFICES ASSUME DiskOn, NEW t \in DOMAIN latest', latest'[t] # None
             PROVE  latest'[t] \in Entry /\ t \in DOMAIN disk'
                      /\ disk'[t] = File(latest'[t], Whole)
  BY DEF LatestOnDisk
<1>1. disk' = Insert(disk, e.text, File(e, cut))
  BY DEF WriteFile
<1>2. CASE t = e.text
  <2>1. latest'[t] = v /\ disk'[t] = File(e, cut) /\ t \in DOMAIN disk'
    BY <1>1, <1>2 DEF Insert
  <2> QED
    BY <2>1
<1>3. CASE t # e.text
  <2>1. t \in DOMAIN latest /\ latest'[t] = latest[t]
    BY <1>3 DEF Insert
  <2>2. latest[t] \in Entry /\ t \in DOMAIN disk /\ disk[t] = File(latest[t], Whole)
    BY <2>1 DEF LatestOnDisk
  <2>3. t \in DOMAIN disk' /\ disk'[t] = disk[t]
    BY <1>1, <1>3, <2>2 DEF Insert
  <2> QED
    BY <2>1, <2>2, <2>3
<1> QED
  BY <1>2, <1>3

\* A map that was whole is whole under a longer history.
LEMMA GrowKeepsMap ==
    ASSUME History, MapIsWhole, NEW e \in Entry, written' = Append(written, e)
    PROVE  \A k \in DOMAIN by_key : WholeIn(written', by_key[k])
BY GrowKeeps DEF History, MapIsWhole

\* A store that finishes keeps the invariant.
LEMMA StoreKeepsInv ==
    ASSUME Inv, NEW k, NEW e \in Entry, Store(k, e)
    PROVE  Inv'
<1>1. /\ WriteFile(e, Whole) /\ written' = Append(written, e)
      /\ by_key' = Insert(by_key, k, e) /\ mine' = Insert(mine, k, e)
      /\ latest' = Insert(latest, e.text, e)
  BY DEF Store
<1>2. History' /\ FilesAreWritten'
  BY <1>1, WriteKeepsFiles DEF Inv
<1>3. LatestOnDisk'
  BY <1>1, WriteKeepsLatest DEF Inv
<1>4. MineInMap'
  <2> SUFFICES ASSUME NEW x \in DOMAIN mine'
               PROVE  x \in DOMAIN by_key' /\ by_key'[x] = mine'[x]
    BY DEF MineInMap
  <2>1. CASE x = k
    BY <1>1, <2>1 DEF Insert
  <2>2. CASE x # k
    <3>1. x \in DOMAIN mine /\ mine'[x] = mine[x]
      BY <1>1, <2>2 DEF Insert
    <3>2. x \in DOMAIN by_key /\ by_key[x] = mine[x]
      BY <3>1 DEF Inv, MineInMap
    <3>3. x \in DOMAIN by_key' /\ by_key'[x] = by_key[x]
      BY <1>1, <2>2, <3>2 DEF Insert
    <3> QED
      BY <3>1, <3>2, <3>3
  <2> QED
    BY <2>1, <2>2
<1>5. MapIsWhole'
  <2> SUFFICES ASSUME NEW x \in DOMAIN by_key' PROVE WholeIn(written', by_key'[x])
    BY DEF MapIsWhole
  <2>1. CASE x = k
    <3>1. by_key'[x] = e
      BY <1>1, <2>1 DEF Insert
    <3>2. WholeIn(written', e)
      BY <1>1, GrowKeeps DEF Inv, History
    <3> QED
      BY <3>1, <3>2
  <2>2. CASE x # k
    <3>1. x \in DOMAIN by_key /\ by_key'[x] = by_key[x]
      BY <1>1, <2>2 DEF Insert
    <3>2. WholeIn(written', by_key[x])
      BY <1>1, <3>1, GrowKeepsMap DEF Inv
    <3> QED
      BY <3>1, <3>2
  <2> QED
    BY <2>1, <2>2
<1> QED
  BY <1>2, <1>3, <1>4, <1>5 DEF Inv

\* So does one whose write fails half way,
LEMMA StoreErrKeepsInv ==
    ASSUME Inv, NEW k, NEW e \in Entry, NEW cut, StoreErr(k, e, cut)
    PROVE  Inv'
<1>1. /\ WriteFile(e, cut) /\ written' = Append(written, e)
      /\ by_key' = by_key /\ mine' = mine
      /\ latest' = Insert(latest, e.text, None)
  BY DEF StoreErr
<1>2. History' /\ FilesAreWritten'
  BY <1>1, WriteKeepsFiles DEF Inv
<1>3. LatestOnDisk'
  BY <1>1, WriteKeepsLatest DEF Inv
<1>4. MineInMap'
  BY <1>1 DEF Inv, MineInMap
<1>5. MapIsWhole'
  BY <1>1, GrowKeepsMap DEF Inv, MapIsWhole
<1> QED
  BY <1>2, <1>3, <1>4, <1>5 DEF Inv

\* and one that ends the process.
LEMMA StoreCrashKeepsInv ==
    ASSUME Inv, NEW e \in Entry, NEW cut, StoreCrash(e, cut)
    PROVE  Inv'
<1>1. /\ WriteFile(e, cut) /\ written' = Append(written, e)
      /\ by_key' = NoEntries /\ mine' = NoEntries
      /\ latest' = Insert(latest, e.text, None)
  BY DEF StoreCrash
<1>2. History' /\ FilesAreWritten'
  BY <1>1, WriteKeepsFiles DEF Inv
<1>3. LatestOnDisk'
  BY <1>1, WriteKeepsLatest DEF Inv
<1>4. MineInMap' /\ MapIsWhole'
  BY <1>1 DEF MineInMap, MapIsWhole, NoEntries
<1> QED
  BY <1>2, <1>3, <1>4 DEF Inv

\* A lookup, which may cache what it read, keeps the invariant.
LEMMA LoadKeepsInv ==
    ASSUME Inv, NEW k, Load(k)
    PROVE  Inv'
<1> DEFINE found == IF k \in DOMAIN by_key THEN Ok(by_key[k]) ELSE DiskLoad(k)
<1>1. /\ by_key' = IF found.val = None THEN by_key ELSE Insert(by_key, k, found.val)
      /\ UNCHANGED <<disk, written, mine, latest>>
  BY DEF Load
<1>2. History' /\ FilesAreWritten' /\ LatestOnDisk'
  BY <1>1 DEF Inv, History, FilesAreWritten, LatestOnDisk
<1>3. CASE by_key' = by_key
  BY <1>1, <1>2, <1>3 DEF Inv, MineInMap, MapIsWhole
<1>4. CASE found.val # None /\ by_key' = Insert(by_key, k, found.val)
  <2>1. WholeIn(written, found.val)
    <3>1. CASE k \in DOMAIN by_key
      BY <3>1 DEF Inv, MapIsWhole, Ok
    <3>2. CASE k \notin DOMAIN by_key
      BY <1>4, <3>2, DiskServesWhole
    <3> QED
      BY <3>1, <3>2
  <2>2. k \in DOMAIN by_key => found.val = by_key[k]
    BY DEF Ok
  <2> HIDE DEF found
  <2>3. ASSUME NEW x \in DOMAIN by_key PROVE x \in DOMAIN by_key' /\ by_key'[x] = by_key[x]
    <3>1. CASE x = k
      BY <1>4, <2>2, <3>1 DEF Insert
    <3>2. CASE x # k
      BY <1>4, <3>2 DEF Insert
    <3> QED
      BY <3>1, <3>2
  <2>4. MineInMap'
    BY <1>1, <2>3 DEF Inv, MineInMap
  <2>5. ASSUME NEW x \in DOMAIN by_key' PROVE WholeIn(written, by_key'[x])
    <3>1. CASE x = k
      BY <1>4, <2>1, <3>1 DEF Insert
    <3>2. CASE x # k
      <4>1. x \in DOMAIN by_key
        BY <1>4, <3>2, <2>5 DEF Insert
      <4> QED
        BY <4>1, <2>3 DEF Inv, MapIsWhole
    <3> QED
      BY <3>1, <3>2
  <2>6. MapIsWhole'
    BY <1>1, <2>5 DEF MapIsWhole
  <2> QED
    BY <1>2, <2>4, <2>6 DEF Inv
<1> QED
  BY <1>1, <1>3, <1>4

-----------------------------------------------------------------------------
(* The inductive invariant of the KV cache: what this process stored is in the
   map, the last whole store of a text is its file, and files and entries of
   the map come from stores (kv.rs store, load, load_rendered_text). *)
THEOREM CacheInvariant == Spec => []Inv
<1>1. Init => Inv
  <2> SUFFICES ASSUME Init PROVE Inv
    OBVIOUS
  <2>1. History
    BY EmptySeq DEF Init, History
  <2>2. MineInMap /\ LatestOnDisk /\ MapIsWhole
    BY DEF Init, MineInMap, LatestOnDisk, MapIsWhole, NoEntries
  <2>3. FilesAreWritten
    <3>1. PICK old \in SUBSET Legacy :
              disk = [s \in {e.text : e \in old} |->
                        [kind |-> "ds4k", cut |-> Whole,
                         entry |-> CHOOSE e \in old : e.text = s]]
      BY DEF Init
    <3> SUFFICES ASSUME NEW t \in DOMAIN disk PROVE FileOf(written, disk[t])
      BY DEF FilesAreWritten
    <3>2. \E e \in old : e.text = t
      BY <3>1
    <3>3. (CHOOSE e \in old : e.text = t) \in old
      BY <3>2
    <3>4. disk[t].kind = "ds4k" /\ disk[t].entry = CHOOSE e \in old : e.text = t
      BY <3>1
    <3> QED
      BY <3>3, <3>4 DEF FileOf
  <2> QED
    BY <2>1, <2>2, <2>3 DEF Inv
<1>2. Inv /\ [Next]_vars => Inv'
  <2> SUFFICES ASSUME Inv, [Next]_vars PROVE Inv'
    OBVIOUS
  <2>1. ASSUME NEW k \in Strings, NEW e \in Entries, Store(k, e) PROVE Inv'
    BY <2>1, StoreKeepsInv, EntriesAssumption
  <2>2. ASSUME NEW k \in Strings, NEW e \in Entries, NEW cut \in Tears, StoreErr(k, e, cut)
        PROVE Inv'
    BY <2>2, StoreErrKeepsInv, EntriesAssumption
  <2>3. ASSUME NEW e \in Entries, NEW cut \in Tears, StoreCrash(e, cut) PROVE Inv'
    BY <2>3, StoreCrashKeepsInv, EntriesAssumption
  <2>4. ASSUME NEW k \in Strings, Load(k) PROVE Inv'
    BY <2>4, LoadKeepsInv
  <2>5. ASSUME NEW id \in ToolIds, FindToolReplay(id) PROVE Inv'
    BY <2>5 DEF FindToolReplay, Inv, History, MineInMap, LatestOnDisk, FilesAreWritten,
                MapIsWhole
  <2>6. CASE Restart
    BY <2>6 DEF Restart, NoEntries, Inv, History, MineInMap, LatestOnDisk, FilesAreWritten,
                MapIsWhole
  <2>7. CASE UNCHANGED vars
    BY <2>7 DEF vars, Inv, History, MineInMap, LatestOnDisk, FilesAreWritten, MapIsWhole
  <2> QED
    BY <2>1, <2>2, <2>3, <2>4, <2>5, <2>6, <2>7 DEF Next
<1> QED
  BY <1>1, <1>2, PTL DEF Spec

(* No entry the cache serves is a prefix of what was saved, wherever writes were
   torn and however often the process restarted (kv.rs:174-256). *)
THEOREM NothingTornIsServed == Spec => []NoTornEntry
<1>1. Inv => NoTornEntry
  BY DEF Inv, MapIsWhole, WholeIn, NoTornEntry
<1> QED
  BY <1>1, CacheInvariant, PTL

(* A key this process stored under keeps the entry of its last store
   (kv.rs:60-97). *)
THEOREM OwnWritesAreRead == Spec => []ReadYourWrites
<1>1. Inv => ReadYourWrites
  BY DEF Inv, MineInMap, ReadYourWrites, Get
<1> QED
  BY <1>1, CacheInvariant, PTL

(* A new process reads back what the last store of a text wrote, until the next
   store of that text begins (kv.rs:131-256). *)
THEOREM StoresAreDurable == Spec => []DurableUntilOverwritten
<1>1. Inv => DurableUntilOverwritten
  <2> SUFFICES ASSUME Inv, DiskOn, NEW t \in DOMAIN latest, latest[t] # None,
                      Readable(latest[t])
               PROVE  DiskLoad(t) = Ok([latest[t] EXCEPT !.tokens = latest[t].snap])
    BY DEF DurableUntilOverwritten
  <2>1. latest[t] \in Entry /\ t \in DOMAIN disk /\ disk[t] = File(latest[t], Whole)
    BY DEF Inv, LatestOnDisk
  <2>2. IsKvc(disk[t])
    BY <2>1 DEF IsKvc, File, Whole, Empty
  <2> QED
    BY <2>1, <2>2, WholeReadsBack DEF DiskLoad
<1> QED
  BY <1>1, CacheInvariant, PTL

-----------------------------------------------------------------------------
(* What the lookups answer.                                                *)

\* Some file of the directory is damaged.
Damaged == \E t \in DOMAIN disk : disk[t].cut # Whole \/ ~Readable(disk[t].entry)

\* The KVC reader refuses only files that are damaged.
LEMMA KvcErrMeansDamage ==
    ASSUME NEW f, f.cut = Whole, Readable(f.entry)
    PROVE  LoadKvcEntry(f) # Err
<1>1. f.cut >= Payload /\ ToolMapReads(f) /\ f.cut # ReasonLen
  BY DEF Whole, Payload, ToolMapReads, ToolMap, ReasonLen
<1>2. f.entry.tokens = 0 \/ f.entry.tokens = f.entry.snap
  BY DEF Readable
<1>3. \E r : LoadKvcEntry(f) = Ok(r)
  BY <1>1, <1>2 DEF LoadKvcEntry
<1> QED
  BY <1>3 DEF Ok, Err

\* load fails only when the file it reads is damaged.
LEMMA LoadErrMeansDamage ==
    ASSUME Inv, NEW t, DiskLoad(t).tag = "err"
    PROVE  Damaged
<1>1. t \in DOMAIN disk
  BY DEF DiskLoad, Ok
<1>2. FileOf(written, disk[t])
  BY <1>1 DEF Inv, FilesAreWritten
<1> SUFFICES ASSUME disk[t].cut = Whole, Readable(disk[t].entry) PROVE FALSE
  BY <1>1 DEF Damaged
<1>3. CASE IsKvc(disk[t])
  <2>1. DiskLoad(t) = LoadKvcEntry(disk[t])
    BY <1>1, <1>3 DEF DiskLoad
  <2>2. LoadKvcEntry(disk[t]) = Err
    BY <2>1 DEF LoadKvcEntry, Ok
  <2> QED
    BY <2>2, KvcErrMeansDamage
<1>4. CASE ~IsKvc(disk[t])
  <2>1. disk[t].kind = "ds4k"
    BY <1>2, <1>4 DEF FileOf, IsKvc, Whole, Empty
  <2>2. DiskLoad(t) = LoadLegacyEntry(disk[t])
    BY <1>1, <1>4 DEF DiskLoad
  <2> QED
    BY <2>1, <2>2 DEF LoadLegacyEntry, Ok
<1> QED
  BY <1>3, <1>4

\* A tool block of the map was stored with the id.
LEMMA MapReplayIsWritten ==
    ASSUME Inv, NEW k \in DOMAIN by_key, NEW r \in by_key[k].replay
    PROVE  \E i \in 1..Len(written) : r \in written[i].replay
<1>1. WholeIn(written, by_key[k])
  BY DEF Inv, MapIsWhole
<1>2. CASE \E l \in Legacy : by_key[k] = [l EXCEPT !.replay = {}]
  <2>1. by_key[k].replay = {}
    BY <1>2, EntriesAssumption DEF Entry
  <2> QED
    BY <2>1
<1>3. CASE \E i \in 1..Len(written) : by_key[k]["replay"] = written[i]["replay"]
  BY <1>3
<1> QED
  BY <1>1, <1>2, <1>3 DEF WholeIn

\* A tool block of a readable file was stored with the id.
LEMMA DiskReplayIsWritten ==
    ASSUME Inv, NEW t \in DOMAIN disk, IsKvc(disk[t]), LoadKvcEntry(disk[t]) # Err,
           NEW r \in LoadKvcEntry(disk[t]).val.replay
    PROVE  \E i \in 1..Len(written) : r \in written[i].replay
<1>1. PICK i \in 1..Len(written) : disk[t].entry = written[i]
  BY DEF Inv, FilesAreWritten, FileOf, IsKvc
<1>2. disk[t].entry \in Entry
  BY <1>1 DEF Inv, History
<1>3. LoadKvcEntry(disk[t]).val["replay"] = disk[t].entry["replay"]
  BY <1>2, KvcReads
<1> QED
  BY <1>1, <1>3

\* find_tool_replay answers with a block that was stored under the id, with
\* nothing, or, if a file is damaged, with an error.
LEMMA FindAnswers ==
    ASSUME Inv, NEW id, NEW x \in FindToolReplayResults(id)
    PROVE  /\ x.tag = "err" => Damaged
           /\ x.val # None => \E i \in 1..Len(written) :
                                 [id |-> id, block |-> x.val] \in written[i].replay
<1> DEFINE items == UNION {by_key[k].replay : k \in DOMAIN by_key}
           kvc == {t \in DOMAIN disk : IsKvc(disk[t])}
           bad == {t \in kvc : LoadKvcEntry(disk[t]) = Err}
           onDisk == UNION {LoadKvcEntry(disk[t]).val.replay : t \in kvc \ bad}
<1>1. ASSUME NEW r \in items \union onDisk
      PROVE  \E i \in 1..Len(written) : r \in written[i].replay
  <2>1. CASE r \in items
    <3>1. PICK k \in DOMAIN by_key : r \in by_key[k].replay
      BY <2>1
    <3> QED
      BY <3>1, MapReplayIsWritten
  <2>2. CASE r \in onDisk
    <3>1. PICK t \in kvc \ bad : r \in LoadKvcEntry(disk[t]).val.replay
      BY <2>2
    <3>2. t \in DOMAIN disk /\ IsKvc(disk[t]) /\ LoadKvcEntry(disk[t]) # Err
      BY <3>1
    <3> QED
      BY <3>1, <3>2, DiskReplayIsWritten
  <2> QED
    BY <1>1, <2>1, <2>2
<1>2. ASSUME NEW r \in items \union onDisk, r.id = id, x = Ok(r.block)
      PROVE  /\ x.tag # "err"
             /\ \E i \in 1..Len(written) : [id |-> id, block |-> x.val] \in written[i].replay
  <2>1. PICK i \in 1..Len(written) : r \in written[i].replay
    BY <1>1, <1>2
  <2>2. r \in Replay
    <3>1. written[i] \in Entry
      BY DEF Inv, History
    <3>2. written[i].replay \in SUBSET Replay
      BY <3>1 DEF Entry
    <3> QED
      BY <2>1, <3>2
  <2>3. r = [id |-> id, block |-> x.val]
    BY <1>2, <2>2 DEF Replay, Ok
  <2> QED
    BY <1>2, <2>1, <2>3 DEF Ok
<1>3. CASE x = Err
  <2>1. bad # {}
    <3>1. x \in DiskFind(id)
      BY <1>3 DEF FindToolReplayResults, Ok, Err
    <3> QED
      BY <1>3, <3>1 DEF DiskFind, Ok, Err
  <2>2. PICK t \in DOMAIN disk : LoadKvcEntry(disk[t]) = Err
    BY <2>1
  <2> QED
    BY <1>3, <2>2, KvcErrMeansDamage DEF Damaged, Err
<1>4. CASE x = Ok(None)
  BY <1>4 DEF Ok
<1>5. \/ x = Err \/ x = Ok(None)
      \/ \E r \in items \union onDisk : r.id = id /\ x = Ok(r.block)
  <2>1. CASE \E r \in items : r.id = id /\ x = Ok(r.block)
    BY <2>1
  <2>2. CASE x \in DiskFind(id)
    <3>1. \/ x \in {Ok(r.block) : r \in {s \in onDisk : s.id = id}}
          \/ x = Err \/ x = Ok(None)
      BY <2>2 DEF DiskFind
    <3> QED
      BY <3>1
  <2>3. x \in {Ok(r.block) : r \in {s \in items : s.id = id}} \/ x \in DiskFind(id)
    BY DEF FindToolReplayResults
  <2> QED
    BY <2>1, <2>2, <2>3
<1> HIDE DEF items, onDisk
<1>6. CASE \E r \in items \union onDisk : r.id = id /\ x = Ok(r.block)
  BY <1>2, <1>6
<1> QED
  BY <1>3, <1>4, <1>5, <1>6

\* The last answer agrees with the files and the history.
AnswerOK == ErrMeansDamage /\ ReplayAnswersOwnId

\* Every operation keeps the last answer right.
LEMMA StepKeepsAnswer ==
    ASSUME Inv, AnswerOK, [Next]_vars
    PROVE  AnswerOK'
<1>1. ASSUME ret'.op \notin {"load", "find"} PROVE AnswerOK'
  BY <1>1 DEF AnswerOK, ErrMeansDamage, ReplayAnswersOwnId
<1>2. ASSUME NEW k \in Strings, NEW e \in Entries, Store(k, e) PROVE AnswerOK'
  BY <1>1, <1>2 DEF Store, Answer
<1>3. ASSUME NEW k \in Strings, NEW e \in Entries, NEW cut \in Tears, StoreErr(k, e, cut)
      PROVE AnswerOK'
  BY <1>1, <1>3 DEF StoreErr, Answer
<1>4. ASSUME NEW e \in Entries, NEW cut \in Tears, StoreCrash(e, cut) PROVE AnswerOK'
  BY <1>1, <1>4 DEF StoreCrash, Answer
<1>5. ASSUME NEW k \in Strings, Load(k) PROVE AnswerOK'
  <2> DEFINE found == IF k \in DOMAIN by_key THEN Ok(by_key[k]) ELSE DiskLoad(k)
  <2>1. ret' = Answer("load", k, found) /\ disk' = disk
    BY <1>5 DEF Load
  <2>2. found.tag = "err" => Damaged
    BY LoadErrMeansDamage DEF Ok
  <2> HIDE DEF found
  <2>3. ret'.op = "load" /\ ret'.result = found
    BY <2>1 DEF Answer
  <2> QED
    BY <2>1, <2>2, <2>3 DEF AnswerOK, ErrMeansDamage, ReplayAnswersOwnId, Damaged
<1>6. ASSUME NEW id \in ToolIds, FindToolReplay(id) PROVE AnswerOK'
  <2>1. PICK x \in FindToolReplayResults(id) : ret' = Answer("find", id, x)
    BY <1>6 DEF FindToolReplay
  <2>2. disk' = disk /\ written' = written
    BY <1>6 DEF FindToolReplay
  <2>3. ret'.op = "find" /\ ret'.arg = id /\ ret'.result = x
    BY <2>1 DEF Answer
  <2>4. /\ x.tag = "err" => Damaged
        /\ x.val # None => \E i \in 1..Len(written) :
                              [id |-> id, block |-> x.val] \in written[i].replay
    BY <2>1, FindAnswers
  <2> QED
    BY <2>2, <2>3, <2>4 DEF AnswerOK, ErrMeansDamage, ReplayAnswersOwnId, Damaged
<1>7. CASE Restart
  BY <1>1, <1>7 DEF Restart, Answer
<1>8. CASE UNCHANGED vars
  BY <1>8 DEF vars, AnswerOK, ErrMeansDamage, ReplayAnswersOwnId
<1> QED
  BY <1>2, <1>3, <1>4, <1>5, <1>6, <1>7, <1>8 DEF Next

\* The last answer is right in every reachable state.
LEMMA AnswersAreRight == Spec => []AnswerOK
<1>1. Init => AnswerOK
  BY DEF Init, Answer, AnswerOK, ErrMeansDamage, ReplayAnswersOwnId
<1>2. Inv /\ AnswerOK /\ [Next]_vars => AnswerOK'
  BY StepKeepsAnswer
<1> QED
  BY <1>1, <1>2, CacheInvariant, PTL DEF Spec

(* A lookup fails only when some file of the directory is damaged
   (kv.rs:99-113, 180-345). *)
THEOREM ErrorsMeanDamage == Spec => []ErrMeansDamage
BY AnswersAreRight, PTL DEF AnswerOK

(* A tool block is only ever returned for the call it was stored with
   (kv.rs:99-113, 320-345). *)
THEOREM ReplaysAreOwn == Spec => []ReplayAnswersOwnId
BY AnswersAreRight, PTL DEF AnswerOK
==============================================================================
