------------------------------- MODULE Memory -------------------------------
(***************************************************************************)
(* The memory service (memory_svc): record, preference and grant files in   *)
(* the shared VFS, the eight memory/* tools, the two garbage collectors,    *)
(* the grants' approval and clean-up, and the executor's memory context and *)
(* session log (executor/memory.rs).  Every handler awaits the VFS between  *)
(* its reads and its writes, so the handlers of two callers interleave at   *)
(* each file access.  A record's text is the set of words of it that a      *)
(* query may name; its score under BM25 is positive exactly when it shares  *)
(* a word with the query, and which of the positive ones rank first is left *)
(* open.                                                                    *)
(***************************************************************************)
EXTENDS Naturals, FiniteSets, Sequences

CONSTANTS
  MOwners,      \* users
  MNames,       \* agent names
  Keys,         \* keys of semantic records
  Words,        \* words a query can name
  Fields,       \* fields of the preference model
  MSessions,
  Handlers,     \* concurrent handler activations
  MaxRecords,   \* bound: record ids handed out
  MaxMemoryCalls,     \* bound: calls started
  Recent,       \* records of history in the memory context (5 in the code)
  MNone         \* no key, no path, no agent

VARIABLES
  mmFiles,      \* record files: a set of records, one per path
  mmPrefs,      \* agent |-> its preference model, MNone when there is no file
  mmGrants,     \* grant files
  mmNext,       \* next record or grant id (random in the code)
  mmCalls,      \* calls started
  mmTask,       \* handler |-> its activation
  mmLost,       \* history: records removed, by what
  mmForgotten,  \* history: ids some forget reported as deleted
  mmQuiet       \* history: agent |-> fields of the updates that ran alone

mmVars == <<mmFiles, mmPrefs, mmGrants, mmNext, mmCalls, mmTask, mmLost, mmForgotten, mmQuiet>>

\* The files and what was recorded of them.
mmStored == <<mmFiles, mmPrefs, mmGrants, mmNext, mmLost, mmForgotten, mmQuiet>>

MAgents == MOwners \X MNames

\* A record's metadata and spec, as far as a handler looks at them.
MemoryRecord ==
  [type : {"episodic", "semantic"}, who : MAgents, id : 0..MaxRecords, key : Keys \cup {MNone},
   old : BOOLEAN, pinned : BOOLEAN, words : SUBSET Words]

\* vfs_path_episodic and vfs_path_semantic: an id names an episodic file, a
\* key a semantic one.
MemoryPath(r) == IF r.type = "episodic" THEN <<r.who, r.type, r.id>> ELSE <<r.who, r.type, r.key>>

\* update-preference stores what it was given over what it read.
PreferenceModel == [Fields -> 0..MaxMemoryCalls]

NoPreferences == [f \in Fields |-> 0]

\* Session grants are filed under the grantee's agent name, permanent ones
\* under the grantor.
MemoryGrant ==
  [id : 0..MaxRecords, by : MAgents, to : MNames, records : SUBSET (0..MaxRecords),
   scope : {"session", "permanent"}, session : MSessions]

Dir(who, type) == {r \in mmFiles : r.who = who /\ r.type = type}

GrantDir(name) == {g \in mmGrants : g.scope = "session" /\ g.to = name}

At(path) == {r \in mmFiles : MemoryPath(r) = path}

\* The same MemFs insert replaces whatever was at the path.
WriteRecord(r) == mmFiles' = (mmFiles \ At(MemoryPath(r))) \cup {r}

Lose(records, by, who, id) ==
  mmLost' = mmLost \cup {[record |-> r, by |-> by, who |-> who, id |-> id] : r \in records}

NoActivation ==
  [op |-> "none", pc |-> "idle", who |-> MNone, ids |-> <<>>, id |-> 0, key |-> MNone,
   words |-> {}, pinned |-> FALSE, limit |-> 0, set |-> {}, model |-> NoPreferences,
   todo |-> {}, load |-> {}, path |-> MNone, own |-> {}, got |-> {}, shared |-> {}, session |-> MNone,
   files0 |-> {}, grants0 |-> {}, alone |-> TRUE]

MemoryInit(files, grants) ==
  /\ mmFiles = files
  /\ mmGrants = grants
  /\ mmPrefs = [a \in MAgents |-> MNone]
  /\ mmNext = Cardinality(files) + Cardinality(grants) + 1
  /\ mmCalls = 0
  /\ mmTask = [h \in Handlers |-> NoActivation]
  /\ mmLost = {}
  /\ mmForgotten = {}
  /\ mmQuiet = [a \in MAgents |-> NoPreferences]

SetTask(h, t) == mmTask' = [mmTask EXCEPT ![h] = t]

\* A handler starts: it is idle or its last answer has been read.
Begun(op, who) ==
  [NoActivation EXCEPT !.op = op, !.who = who, !.pc = "1",
   !.files0 = IF op \in {"retrieve", "context"} THEN mmFiles ELSE {},
   !.grants0 = IF op \in {"retrieve", "cleanup"} THEN mmGrants ELSE {}]

CanStart(h) == mmTask[h].pc \in {"idle", "done"} /\ mmCalls < MaxMemoryCalls /\ mmCalls' = mmCalls + 1

-----------------------------------------------------------------------------
(* The writing tools.                                                       *)

\* memory/log-event: one write under a fresh id.  A session's automatic log
\* at SIGSTOP is the same call.
LogEvent(h, who, words, pinned) ==
  /\ CanStart(h)
  /\ mmNext <= MaxRecords
  /\ WriteRecord([type |-> "episodic", who |-> who, id |-> mmNext, key |-> MNone,
                  old |-> FALSE, pinned |-> pinned, words |-> words])
  /\ mmNext' = mmNext + 1
  /\ UNCHANGED <<mmPrefs, mmGrants, mmTask, mmLost, mmForgotten, mmQuiet>>

\* The executor's session log: skipped without a conversation.
AutoLogSessionEnd(h, who, conversation) ==
  /\ conversation # {}
  /\ LogEvent(h, who, conversation, FALSE)

\* memory/store-fact looks whether the key is taken, which only its answer
\* tells (the look is left out) ...
StoreFact(h, who, key, words, pinned) ==
  /\ CanStart(h)
  /\ mmNext <= MaxRecords
  /\ SetTask(h, [Begun("store-fact", who) EXCEPT !.key = key, !.words = words,
             !.id = mmNext, !.pinned = pinned])
  /\ mmNext' = mmNext + 1
  /\ UNCHANGED <<mmFiles, mmPrefs, mmGrants, mmLost, mmForgotten, mmQuiet>>

\* ... and then writes the new record over it.
WriteFact(h) ==
  LET t == mmTask[h]
      r == [type |-> "semantic", who |-> t.who, id |-> t.id, key |-> t.key,
            old |-> FALSE, pinned |-> t.pinned, words |-> t.words]
  IN /\ t.op = "store-fact" /\ t.pc = "1"
     /\ WriteRecord(r)
     /\ Lose(At(MemoryPath(r)), "store-fact", t.who, t.id)
     /\ SetTask(h, NoActivation)
     /\ UNCHANGED <<mmPrefs, mmGrants, mmNext, mmCalls, mmForgotten, mmQuiet>>

\* memory/update-preference reads the model, or starts an empty one ...
UpdatePreference(h, who, set) ==
  /\ CanStart(h)
  /\ mmTask' = [g \in Handlers |->
       IF g = h
       THEN [Begun("update-preference", who) EXCEPT !.set = set, !.limit = mmCalls + 1,
             !.model = IF mmPrefs[who] = MNone THEN NoPreferences ELSE mmPrefs[who],
             !.alone = \A o \in Handlers \ {h} :
                          ~(mmTask[o].op = "update-preference" /\ mmTask[o].pc = "1"
                              /\ mmTask[o].who = who)]
       ELSE IF mmTask[g].op = "update-preference" /\ mmTask[g].pc = "1" /\ mmTask[g].who = who
            THEN [mmTask[g] EXCEPT !.alone = FALSE] ELSE mmTask[g]]
  /\ UNCHANGED mmStored

\* The fields that were given replace the model's.
Merged(model, set, value) == [f \in Fields |-> IF f \in set THEN value ELSE model[f]]

\* ... and writes it back with the given fields merged in.
WritePreference(h) ==
  LET t == mmTask[h] IN
  /\ t.op = "update-preference" /\ t.pc = "1"
  /\ mmPrefs' = [mmPrefs EXCEPT ![t.who] = Merged(t.model, t.set, t.limit)]
  /\ mmQuiet' = [mmQuiet EXCEPT ![t.who] =
       IF t.alone THEN [f \in Fields |-> IF f \in t.set THEN t.limit ELSE @[f]]
                  ELSE Merged(t.model, t.set, t.limit)]
  /\ SetTask(h, NoActivation)
  /\ UNCHANGED <<mmFiles, mmGrants, mmNext, mmCalls, mmLost, mmForgotten>>

-----------------------------------------------------------------------------
(* memory/forget.                                                           *)

Forget(h, who, ids) ==
  /\ CanStart(h)
  /\ SetTask(h, [Begun("forget", who) EXCEPT !.ids = ids, !.pc = "find episodic"])
  /\ UNCHANGED mmStored

\* What find_record_by_id finds in one directory: the path rebuilt from the
\* record with that id, or nothing.
Found(who, type, id) == {MemoryPath(r) : r \in {x \in Dir(who, type) : x.id = id}}

\* find_record_by_id for the call's next id: first the episodic directory,
\* then the semantic one; an id that is in neither is reported not found.
FindForgotten(h) ==
  LET t == mmTask[h] IN
  /\ t.op = "forget" /\ t.pc \in {"find episodic", "find semantic"} /\ t.ids # <<>>
  /\ LET type == IF t.pc = "find episodic" THEN "episodic" ELSE "semantic"
         hits == Found(t.who, type, Head(t.ids))
     IN \/ \E p \in hits : SetTask(h, [t EXCEPT !.pc = "delete", !.path = p])
        \/ hits = {} /\ type = "episodic" /\ SetTask(h, [t EXCEPT !.pc = "find semantic"])
        \/ hits = {} /\ type = "semantic"
           /\ SetTask(h, [t EXCEPT !.pc = "find episodic", !.ids = Tail(@)])
  /\ UNCHANGED <<mmStored, mmCalls>>

\* delete_record at the path found.  The file may be gone by now: the call
\* fails and leaves its other ids alone.
DeleteForgotten(h) ==
  LET t == mmTask[h] IN
  /\ t.op = "forget" /\ t.pc = "delete"
  /\ mmFiles' = mmFiles \ At(t.path)
  /\ Lose(At(t.path), "forget", t.who, Head(t.ids))
  /\ \/ /\ At(t.path) # {}
        /\ mmForgotten' = mmForgotten \cup {Head(t.ids)}
        /\ SetTask(h, [t EXCEPT !.pc = "find episodic", !.ids = Tail(@), !.path = MNone])
     \/ /\ At(t.path) = {}
        /\ SetTask(h, NoActivation)
        /\ UNCHANGED mmForgotten
  /\ UNCHANGED <<mmPrefs, mmGrants, mmNext, mmCalls, mmQuiet>>

ForgetDone(h) ==
  /\ mmTask[h].op = "forget" /\ mmTask[h].pc = "find episodic" /\ mmTask[h].ids = <<>>
  /\ SetTask(h, NoActivation)
  /\ UNCHANGED <<mmStored, mmCalls>>

-----------------------------------------------------------------------------
(* The reading tools.                                                       *)

\* memory/retrieve for a query; todo holds the directories to be read.
Retrieve(h, who, query, limit, types, grants) ==
  /\ CanStart(h)
  /\ SetTask(h, [Begun("retrieve", who) EXCEPT !.words = query, !.limit = limit, !.set = types,
                 !.todo = types, !.alone = grants])
  /\ UNCHANGED mmStored

\* One directory of the agent's own records: episodic before semantic.
ListOwn(h) ==
  LET t == mmTask[h] IN
  /\ t.op = "retrieve" /\ t.pc = "1" /\ t.todo # {}
  /\ LET type == IF "episodic" \in t.todo THEN "episodic" ELSE "semantic"
     IN SetTask(h, [t EXCEPT !.own = @ \cup Dir(t.who, type), !.todo = @ \ {type}])
  /\ UNCHANGED <<mmStored, mmCalls>>

\* bm25_rank: the records that share a word with the query, at most limit.
Bm25Rank(records, query, limit) ==
  LET hits == {r \in records : r.words \cap query # {}}
  IN {s \in SUBSET hits : Cardinality(s) = IF Cardinality(hits) < limit THEN Cardinality(hits) ELSE limit}

\* Ranks the own records and lists the grants if the call asks for them.
RankOwn(h) ==
  LET t == mmTask[h] IN
  /\ t.op = "retrieve" /\ t.pc = "1" /\ t.todo = {}
  /\ \E best \in Bm25Rank(t.own, t.words, t.limit) :
       SetTask(h, IF t.alone
                  THEN [t EXCEPT !.pc = "grants", !.got = best, !.todo = GrantDir(t.who[2])]
                  ELSE [t EXCEPT !.pc = "done", !.got = best])
  /\ UNCHANGED <<mmStored, mmCalls>>

\* load_grant for the next listed grant; one that is gone is passed over.
LoadGrant(h) ==
  LET t == mmTask[h] IN
  /\ t.op = "retrieve" /\ t.pc = "grants" /\ t.load = {}
  /\ \E g \in t.todo :
       SetTask(h, [t EXCEPT !.todo = @ \ {g},
                   !.load = IF g \in mmGrants THEN {g.by} \X g.records ELSE {}])
  /\ UNCHANGED <<mmStored, mmCalls>>

\* find_record_by_id in the grantor's directories, for one id of the grant.
FindGranted(h) ==
  LET t == mmTask[h] IN
  /\ t.op = "retrieve" /\ t.pc = "grants"
  /\ \E p \in t.load :
       LET hits == Found(p[1], "episodic", p[2]) \cup Found(p[1], "semantic", p[2])
       IN \/ \E path \in hits : SetTask(h, [t EXCEPT !.pc = "read", !.load = @ \ {p}, !.path = path])
          \/ hits = {} /\ SetTask(h, [t EXCEPT !.load = @ \ {p}])
  /\ UNCHANGED <<mmStored, mmCalls>>

\* read_record at the path found, whatever is there by now.
ReadGranted(h) ==
  LET t == mmTask[h] IN
  /\ t.op = "retrieve" /\ t.pc = "read"
  /\ SetTask(h, [t EXCEPT !.pc = "grants", !.shared = @ \cup At(t.path), !.path = MNone])
  /\ UNCHANGED <<mmStored, mmCalls>>

RetrieveDone(h) ==
  /\ mmTask[h].op = "retrieve" /\ mmTask[h].pc = "grants"
  /\ mmTask[h].todo = {} /\ mmTask[h].load = {}
  /\ SetTask(h, [mmTask[h] EXCEPT !.pc = "done"])
  /\ UNCHANGED <<mmStored, mmCalls>>

\* build_memory_context_block: preferences, the latest history, pinned facts.
BuildMemoryContext(h, who) ==
  /\ CanStart(h)
  /\ SetTask(h, [Begun("context", who) EXCEPT
                 !.model = IF mmPrefs[who] = MNone THEN NoPreferences ELSE mmPrefs[who]])
  /\ UNCHANGED mmStored

\* list_records, sorted by creation, newest first, and cut: ids stand for
\* the order of creation.
Latest(records, n) ==
  {r \in records : Cardinality({s \in records : s.id > r.id}) < n}

ContextHistory(h) ==
  LET t == mmTask[h] IN
  /\ t.op = "context" /\ t.pc = "1"
  /\ SetTask(h, [t EXCEPT !.pc = "2", !.got = Latest(Dir(t.who, "episodic"), Recent)])
  /\ UNCHANGED <<mmStored, mmCalls>>

ContextFacts(h) ==
  LET t == mmTask[h] IN
  /\ t.op = "context" /\ t.pc = "2"
  /\ SetTask(h, [t EXCEPT !.pc = "done", !.own = {r \in Dir(t.who, "semantic") : r.pinned}])
  /\ UNCHANGED <<mmStored, mmCalls>>

-----------------------------------------------------------------------------
(* Garbage collection and grants.                                           *)

\* gc_episodic_records lists the directories of every agent it is given ...
GcEpisodic(h) ==
  /\ CanStart(h)
  /\ SetTask(h, [Begun("gc", MNone) EXCEPT !.todo =
                 {MemoryPath(r) : r \in {x \in mmFiles : x.type = "episodic"}}])
  /\ UNCHANGED mmStored

\* Faulty variant: a pin does not protect a record.
CollectableByAge(r) == r.old

\* A record is collected when it is past its retention and not pinned.
Collectable(r) == ~r.pinned /\ r.old

\* ... reads each listed file and marks it for deletion or passes over it ...
GcRead(h) ==
  LET t == mmTask[h] IN
  /\ t.op = "gc" /\ t.pc = "1"
  /\ \E p \in t.todo :
       SetTask(h, IF \E r \in At(p) : Collectable(r)
                  THEN [t EXCEPT !.todo = @ \ {p}, !.pc = "2", !.path = p]
                  ELSE [t EXCEPT !.todo = @ \ {p}])
  /\ UNCHANGED <<mmStored, mmCalls>>

\* ... and deletes it; that it is gone already does not matter.
GcDelete(h) ==
  LET t == mmTask[h] IN
  /\ t.op = "gc" /\ t.pc = "2"
  /\ mmFiles' = mmFiles \ At(t.path)
  /\ Lose(At(t.path), "gc", MNone, 0)
  /\ SetTask(h, [t EXCEPT !.pc = "1", !.path = MNone])
  /\ UNCHANGED <<mmPrefs, mmGrants, mmNext, mmCalls, mmForgotten, mmQuiet>>

GcDone(h) ==
  /\ mmTask[h].op = "gc" /\ mmTask[h].pc = "1" /\ mmTask[h].todo = {}
  /\ SetTask(h, NoActivation)
  /\ UNCHANGED <<mmStored, mmCalls>>

\* on_memory_share_approved writes one grant, which never expires.
ShareApproved(h, by, to, records, scope, session) ==
  /\ CanStart(h)
  /\ mmNext <= MaxRecords
  /\ mmGrants' = mmGrants \cup {[id |-> mmNext, by |-> by, to |-> to, records |-> records,
                                 scope |-> scope, session |-> session]}
  /\ mmNext' = mmNext + 1
  /\ UNCHANGED <<mmFiles, mmPrefs, mmTask, mmLost, mmForgotten, mmQuiet>>

\* cleanup_session_grants lists the agent's grant directory ...
CleanupGrants(h, name, session) ==
  /\ CanStart(h)
  /\ SetTask(h, [Begun("cleanup", MNone) EXCEPT !.todo = GrantDir(name), !.key = name,
                 !.session = session])
  /\ UNCHANGED mmStored

\* ... and deletes the session's grants one by one.
CleanupOne(h) ==
  LET t == mmTask[h] IN
  /\ t.op = "cleanup" /\ t.pc = "1"
  /\ \E g \in t.todo :
       /\ mmGrants' = IF g.session = t.session THEN mmGrants \ {g} ELSE mmGrants
       /\ SetTask(h, [t EXCEPT !.todo = @ \ {g}])
  /\ UNCHANGED <<mmFiles, mmPrefs, mmNext, mmCalls, mmLost, mmForgotten, mmQuiet>>

CleanupDone(h) ==
  /\ mmTask[h].op = "cleanup" /\ mmTask[h].pc = "1" /\ mmTask[h].todo = {}
  /\ SetTask(h, [mmTask[h] EXCEPT !.pc = "done"])
  /\ UNCHANGED <<mmStored, mmCalls>>

-----------------------------------------------------------------------------
MemoryCalls(h) ==
  \/ \E who \in MAgents :
       \/ \E words \in (SUBSET Words) \ {{}}, pinned \in BOOLEAN : LogEvent(h, who, words, pinned)
       \/ AutoLogSessionEnd(h, who, Words)
       \/ \E key \in Keys, pinned \in BOOLEAN : StoreFact(h, who, key, Words, pinned)
       \/ \E set \in (SUBSET Fields) \ {{}} : UpdatePreference(h, who, set)
       \/ \E i, j \in 1..(mmNext - 1) : i > j /\ Forget(h, who, <<i, j>>)
       \/ \E grants \in BOOLEAN :
            \/ Retrieve(h, who, Words, 1, {"semantic"}, grants)
            \/ Retrieve(h, who, Words, 2, {"episodic", "semantic"}, grants)
       \/ BuildMemoryContext(h, who)
       \/ \E to \in MNames \ {who[2]}, i \in {r.id : r \in {x \in mmFiles : x.who = who}},
             scope \in {"session", "permanent"}, session \in MSessions : ShareApproved(h, who, to, {i}, scope, session)
  \/ GcEpisodic(h)
  \/ \E name \in MNames, session \in MSessions : CleanupGrants(h, name, session)

MemoryNext ==
  \E h \in Handlers :
    \/ MemoryCalls(h)
    \/ WriteFact(h) \/ WritePreference(h)
    \/ FindForgotten(h) \/ DeleteForgotten(h) \/ ForgetDone(h)
    \/ ListOwn(h) \/ RankOwn(h) \/ LoadGrant(h) \/ FindGranted(h) \/ ReadGranted(h) \/ RetrieveDone(h)
    \/ ContextHistory(h) \/ ContextFacts(h)
    \/ GcRead(h) \/ GcDelete(h) \/ GcDone(h)
    \/ CleanupOne(h) \/ CleanupDone(h)

-----------------------------------------------------------------------------
\* Type correctness: the files hold records, models and grants, no two record
\* files share a path, and no two records share an id.
MemoryTypeOK ==
  /\ mmFiles \subseteq MemoryRecord
  /\ \A r, s \in mmFiles : r # s => MemoryPath(r) # MemoryPath(s) /\ r.id # s.id
  /\ \A a \in MAgents : mmPrefs[a] # MNone => mmPrefs[a] \in PreferenceModel
  /\ mmGrants \subseteq MemoryGrant
  /\ mmNext \in 1..MaxRecords + 1 /\ mmCalls \in 0..MaxMemoryCalls

\* gc_episodic_records decides on what it read and deletes by path a step
\* later (gc.rs:59-67): whatever happens in between, no pinned, no recent and
\* no semantic record is ever lost to it.
CollectsOnlyOld ==
  \A l \in mmLost : l.by = "gc" => ~l.record.pinned /\ l.record.old /\ l.record.type = "episodic"

\* memory/forget finds a path and deletes it a step later (forget.rs:27-31):
\* an id it reports as deleted is in no file again, what it removes is the
\* caller's own, and a record nobody named is only removed when it had just
\* replaced the named one under its key.
ForgottenStayForgotten ==
  /\ \A r \in mmFiles : r.id \notin mmForgotten
  /\ \A l \in mmLost : l.by = "forget" =>
       /\ l.record.who = l.who
       /\ l.record.id # l.id =>
            \E m \in mmLost : m.by = "store-fact" /\ m.record.id = l.id
                                /\ MemoryPath(m.record) = MemoryPath(l.record)

\* update-preference reads, merges and writes back (update_preference.rs:20-64):
\* updates of an agent's model that do not overlap lose none of each other's
\* fields.
QuietUpdatesAreKept ==
  \A a \in MAgents : mmPrefs[a] # MNone => mmPrefs[a] = mmQuiet[a]

\* A memory/retrieve that reads directory by directory while others write
\* (retrieve.rs:43-107) answers with every one of the agent's own matching
\* records that was there all along, unless the limit was reached, and with
\* every record a lasting grant covers; of another agent's records it answers
\* with those a grant listed, or with what took the place of a listed fact.
RetrievalsAreWhole ==
  \A h \in Handlers :
    LET t == mmTask[h] IN
    t.op = "retrieve" /\ t.pc = "done" =>
      /\ Cardinality(t.got) <= t.limit
      /\ \A r \in t.got : r.who = t.who
      /\ \A r \in t.files0 \cap mmFiles :
           /\ r.who = t.who /\ r.type \in t.set /\ r.words \cap t.words # {} =>
                r \in t.got \/ Cardinality(t.got) = t.limit
           /\ t.alone /\ (\E g \in t.grants0 \cap mmGrants :
                            g.scope = "session" /\ g.to = t.who[2] /\ r.who = g.by /\ r.id \in g.records) =>
                r \in t.shared
      /\ \A r \in t.shared :
           \/ \E g \in t.grants0 \cup mmGrants : r.who = g.by /\ r.id \in g.records
           \/ \E l \in mmLost : MemoryPath(l.record) = MemoryPath(r)

\* The memory context (memory.rs:58-139) holds every pinned fact and, of the
\* history that was there all along, leaves out a record only for as many
\* later ones as it shows.
ContextsAreLatest ==
  \A h \in Handlers :
    LET t == mmTask[h] IN
    t.op = "context" /\ t.pc = "done" =>
      \A r \in t.files0 \cap mmFiles :
        r.who = t.who =>
          /\ r.type = "semantic" /\ r.pinned => r \in t.own
          /\ r.type = "episodic" =>
               r \in t.got \/ Cardinality({s \in t.got : s.id > r.id}) = Recent

\* cleanup_session_grants (sharing.rs:81-116): when it has answered, none of
\* the session's grants to the agent that were there when it began is left.
CleanedUpGrantsAreGone ==
  \A h \in Handlers :
    LET t == mmTask[h] IN
    t.op = "cleanup" /\ t.pc = "done" =>
      \A g \in t.grants0 \cap mmGrants :
        ~(g.scope = "session" /\ g.to = t.key /\ g.session = t.session)

MemoryIsKept ==
  /\ CollectsOnlyOld
  /\ ForgottenStayForgotten
  /\ QuietUpdatesAreKept
  /\ RetrievalsAreWhole
  /\ ContextsAreLatest
  /\ CleanedUpGrantsAreGone
=============================================================================
