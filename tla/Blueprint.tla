------------------------------ MODULE Blueprint ------------------------------
(***************************************************************************)
(* The Company Blueprint of one company: the active row and its version    *)
(* history in Postgres (VersionManager), the per-process cache in front of *)
(* them (BlueprintLoader), and the workflow handlers that publish or       *)
(* restore a version, keep the large-transaction automation in step with   *)
(* it and announce it to the Intelligence Engine.                          *)
(*                                                                         *)
(* The kernel is a single asyncio process: a task runs until its next      *)
(* await, so one action below is the code between two awaits that reach    *)
(* Postgres.  Every query is keyed by company_id, so one company stands    *)
(* for all of them.                                                        *)
(***************************************************************************)
EXTENDS Validator, FiniteSets

CONSTANTS
    Requests,        \* concurrent /execute calls of the company's owner
    Loaders,         \* request tasks that call BlueprintLoader.load
    Schedulers,      \* the Intelligence Scheduler's task, which loads as well
    Payloads,        \* the Blueprint payloads that are published
    HasDefaults,     \* whether the country package carries a DEFAULT_BLUEPRINT
    MayFail,         \* whether a database call may raise and the process restart
    MaxVersions      \* bound: versions ever published

ASSUME TasksAssumption == IsFiniteSet(Requests)
ASSUME PayloadsAssumption == /\ \A p \in Payloads : p \in Payload
                             /\ \E p \in Payloads : Accepts(p)
ASSUME FlagsAssumption == /\ HasDefaults \in BOOLEAN
                          /\ MayFail \in BOOLEAN
ASSUME BoundAssumption == MaxVersions \in Nat \ {0}

VARIABLES
    active,       \* the company's committed row in company_blueprints
    versions,     \* committed rows of company_blueprint_versions, by their id
    rowLock,      \* the transactions that hold the row lock on company_blueprints
    cache,        \* loader.py's _cache, by the type of the key
    automations,  \* Blueprint-owned rows of workflow_definitions
    events,       \* blueprint events written to the events table
    status,       \* the company's row in intelligence_status
    signedUp,     \* whether the signup that created the company has published
    job,          \* what each request is doing
    load,         \* what each loading task is doing
    past          \* history: what invalidations have passed by

dbVars  == <<active, versions, rowLock>>
sideVars == <<automations, events, status, signedUp>>
vars == <<active, versions, rowLock, cache, automations, events, status,
          signedUp, job, load, past>>

-----------------------------------------------------------------------------
(* Data.                                                                   *)

\* What may be in a row of company_blueprints, and what of it asks for a
\* large-transaction automation (a threshold of 0 does as well).
Contents == {Validated(p) : p \in {q \in Payloads : Accepts(q)}}
AlertContents == {c \in Contents : c.notify /\ c.threshold # Null}

Version == Nat \ {0}
Row     == [version : Version, content : Contents]
NoRow   == [version |-> 0]
AnyContent == CHOOSE c \in Contents : TRUE

\* A request carries a uuid.UUID in ctx.company_id, the scheduler a str:
\* as dictionary keys of _cache the two are different.
CacheKeys == {"uuid", "text"}
Tasks  == Loaders \cup Schedulers
Key(t) == IF t \in Schedulers THEN "text" ELSE "uuid"

Kinds  == {"signup", "publish", "restore"}
Stages == {"idle", "upsert", "tx", "invalidate", "purge", "create",
           "announce", "activate"}

Job == [stage : Stages, kind : Kinds, draft : Contents, source : Nat, mine : Nat]
IdleJob == [stage |-> "idle", kind |-> "publish", draft |-> AnyContent,
            source |-> 0, mine |-> 0]

Load == [stage : {"idle", "fetch", "fill"}, row : Row \cup {NoRow}]
IdleLoad == [stage |-> "idle", row |-> NoRow]

\* The newest version whose request has invalidated the cache, the loads on the
\* same key that carried an older one just then, and whether the entry is from one.
Past == [dropped : Nat, overtaken : SUBSET Tasks, tainted : BOOLEAN]

At(r, stage) == job[r].stage = stage
Goto(r, stage) == job' = [job EXCEPT ![r].stage = stage]
Finish(r) == job' = [job EXCEPT ![r] = IdleJob]

\* company_blueprints.version + 1, or 1 when the company has no row yet.
NextVersion == active.version + 1

Uncommitted == {r \in Requests : job[r].stage \in {"upsert", "tx"}}
RoomForOne  == Len(versions) + Cardinality(Uncommitted) < MaxVersions

Init ==
    /\ active = NoRow
    /\ versions = <<>>
    /\ rowLock = {}
    /\ cache = [k \in CacheKeys |-> NoRow]
    /\ automations = <<>>
    /\ events = {}
    /\ status = [on |-> FALSE, version |-> 0]
    /\ signedUp = FALSE
    /\ job = [r \in Requests |-> IdleJob]
    /\ load = [t \in Tasks |-> IdleLoad]
    /\ past = [dropped |-> 0, overtaken |-> {}, tainted |-> FALSE]

-----------------------------------------------------------------------------
(* Requests: the transaction of VersionManager.publish.                    *)

Begin(r, kind, content, source) ==
    /\ At(r, "idle")
    /\ RoomForOne
    /\ job' = [job EXCEPT ![r] = [stage |-> "upsert", kind |-> kind,
                                  draft |-> content, source |-> source,
                                  mine |-> 0]]
    /\ UNCHANGED <<active, versions, rowLock, cache, load, past>>

\* auth_routes.signup: publish the country's DEFAULT_BLUEPRINT.
BeginSignup(r) ==
    /\ HasDefaults
    /\ ~signedUp
    /\ signedUp' = TRUE
    /\ \E p \in Payloads : Accepts(p) /\ Begin(r, "signup", Validated(p), 0)
    /\ UNCHANGED <<automations, events, status>>

\* blueprint.create with a payload the validator accepts.
BeginPublish(r) ==
    /\ signedUp \/ ~HasDefaults
    /\ \E p \in Payloads : Accepts(p) /\ Begin(r, "publish", Validated(p), 0)
    /\ UNCHANGED sideVars

\* Mutant: restore sends what Blueprints had before governance.
BeginRestoreUngoverned(r) ==
    /\ \E i \in DOMAIN versions :
          Begin(r, "restore", Validated([versions[i].content EXCEPT !.capabilities = Null, !.categories = Null]),
                versions[i].version)
    /\ UNCHANGED sideVars

\* blueprint.restore: get_version reads the snapshot, and publish runs it again,
\* through the validator.
BeginRestore(r) ==
    /\ \E i \in DOMAIN versions :
          /\ Accepts(versions[i].content)
          /\ Begin(r, "restore", Validated(versions[i].content), versions[i].version)
    /\ UNCHANGED sideVars

\* Mutant: SELECT version, then write version + 1, with no lock in between.
UpsertUnlocked(r) ==
    /\ At(r, "upsert")
    /\ rowLock' = rowLock \cup {r}
    /\ job' = [job EXCEPT ![r].stage = "tx", ![r].mine = NextVersion]
    /\ UNCHANGED <<active, versions, cache, load, past, sideVars>>

\* INSERT ... ON CONFLICT DO UPDATE SET version = version + 1: waits for the
\* row lock, and is visible to nobody else until the transaction commits.
Upsert(r) ==
    /\ At(r, "upsert")
    /\ rowLock = {}
    /\ rowLock' = {r}
    /\ job' = [job EXCEPT ![r].stage = "tx", ![r].mine = NextVersion]
    /\ UNCHANGED <<active, versions, cache, load, past, sideVars>>

\* Mutant: a restore truncates the history back to its source.
CommitInPlace(r) ==
    LET row  == [version |-> job[r].mine, content |-> job[r].draft]
        kept == IF job[r].kind = "restore"
                THEN SubSeq(versions, 1, job[r].source - 1) ELSE versions
    IN  /\ At(r, "tx")
        /\ active' = row
        /\ versions' = Append(kept, row)
        /\ rowLock' = rowLock \ {r}
        /\ IF job[r].kind = "signup" THEN Finish(r) ELSE Goto(r, "invalidate")
        /\ UNCHANGED <<cache, load, past, sideVars>>

\* Mutant: the commit leaves the row locked.
CommitKeepsLock(r) ==
    LET row == [version |-> job[r].mine, content |-> job[r].draft] IN
    /\ At(r, "tx")
    /\ active' = row
    /\ versions' = Append(versions, row)
    /\ IF job[r].kind = "signup" THEN Finish(r) ELSE Goto(r, "invalidate")
    /\ UNCHANGED <<rowLock, cache, load, past, sideVars>>

\* INSERT INTO company_blueprint_versions and COMMIT.  Signup stops here: it
\* calls VersionManager directly and skips what the handlers do next.
Commit(r) ==
    LET row == [version |-> job[r].mine, content |-> job[r].draft] IN
    /\ At(r, "tx")
    /\ active' = row
    /\ versions' = Append(versions, row)
    /\ rowLock' = rowLock \ {r}
    /\ IF job[r].kind = "signup" THEN Finish(r) ELSE Goto(r, "invalidate")
    /\ UNCHANGED <<cache, load, past, sideVars>>

-----------------------------------------------------------------------------
(* Requests: what _blueprint_publish and _blueprint_restore do next.       *)

\* History: fills that carry an older version than those invalidated by now.
Overtake(version) ==
    LET dropped == IF version > past.dropped THEN version ELSE past.dropped
    IN  past' = [dropped   |-> dropped,
                 overtaken |-> {t \in Tasks : /\ Key(t) = "uuid" /\ load[t].stage = "fill"
                                              /\ load[t].row.version < dropped},
                 tainted   |-> FALSE]

\* Mutant: the request pops the key the scheduler uses.
InvalidateText(r) ==
    /\ At(r, "invalidate")
    /\ cache' = [cache EXCEPT !["text"] = NoRow]
    /\ Overtake(job[r].mine)
    /\ Goto(r, "purge")
    /\ UNCHANGED <<dbVars, load, sideVars>>

\* BlueprintLoader.invalidate(ctx.company_id) pops the request's own key.
Invalidate(r) ==
    /\ At(r, "invalidate")
    /\ cache' = [cache EXCEPT !["uuid"] = NoRow]
    /\ Overtake(job[r].mine)
    /\ Goto(r, "purge")
    /\ UNCHANGED <<dbVars, load, sideVars>>

\* Mutant: the old automation is not deleted first.
PurgeSkipped(r) ==
    /\ At(r, "purge")
    /\ Goto(r, IF job[r].draft \in AlertContents THEN "create" ELSE "announce")
    /\ UNCHANGED <<dbVars, cache, load, past, sideVars>>

\* _sync_blueprint_automations: DELETE the automation by its name ...
PurgeAutomations(r) ==
    /\ At(r, "purge")
    /\ automations' = <<>>
    /\ Goto(r, IF job[r].draft \in AlertContents THEN "create" ELSE "announce")
    /\ UNCHANGED <<dbVars, cache, load, past, events, status, signedUp>>

\* ... and, when this Blueprint asks to be notified, INSERT it again.
CreateAutomation(r) ==
    /\ At(r, "create")
    /\ automations' = Append(automations, job[r].draft)
    /\ Goto(r, "announce")
    /\ UNCHANGED <<dbVars, cache, load, past, events, status, signedUp>>

\* Mutant: the subscribers run, but the event is not persisted.
AnnounceUnpersisted(r) ==
    /\ At(r, "announce")
    /\ IF job[r].kind = "publish" THEN Goto(r, "activate") ELSE Finish(r)
    /\ UNCHANGED <<dbVars, cache, load, past, sideVars>>

\* EventBus.publish: INSERT INTO events, then await the observer's handler.
\* A restore is announced under a name that activates nothing; the cycle it runs
\* (Observe of module Intelligence) changes nothing here.
Announce(r) ==
    /\ At(r, "announce")
    /\ events' = events \cup {[kind |-> job[r].kind, version |-> job[r].mine]}
    /\ IF job[r].kind = "publish" THEN Goto(r, "activate") ELSE Finish(r)
    /\ UNCHANGED <<dbVars, cache, load, past, automations, status, signedUp>>

\* IntelligenceManager.on_event -> activate(blueprint_version).
Activate(r) ==
    /\ At(r, "activate")
    /\ status' = [on |-> TRUE, version |-> job[r].mine]
    /\ Finish(r)
    /\ UNCHANGED <<dbVars, cache, load, past, automations, events, signedUp>>

\* A query raises: an open transaction rolls back, the handler ends and what
\* it committed before stays (at "invalidate": the COMMIT took effect and its
\* answer was lost).  The observer swallows a failed activation, so there the
\* request merely ends.
Fail(r) ==
    /\ MayFail
    /\ job[r].stage # "idle"
    /\ rowLock' = rowLock \ {r}
    /\ Finish(r)
    /\ UNCHANGED <<active, versions, cache, load, past, sideVars>>

-----------------------------------------------------------------------------
(* BlueprintLoader.load, called by dashboards, insights, the catalogues    *)
(* and every Intelligence Cycle.                                           *)

\* A hit returns at once; a miss asks Postgres.  The scheduler only visits
\* companies whose intelligence_status row is active.
StartLoad(t) ==
    /\ load[t].stage = "idle"
    /\ t \in Schedulers => status.on
    /\ cache[Key(t)] = NoRow
    /\ load' = [load EXCEPT ![t].stage = "fetch"]
    /\ UNCHANGED <<dbVars, cache, job, past, sideVars>>

\* Postgres answers the SELECT with the committed row; without one, load
\* returns None and caches nothing.
Fetch(t) ==
    /\ load[t].stage = "fetch"
    /\ load' = [load EXCEPT ![t] =
                   IF active = NoRow THEN IdleLoad
                   ELSE [stage |-> "fill", row |-> active]]
    /\ UNCHANGED <<dbVars, cache, job, past, sideVars>>

\* The SELECT raises: the caller of load sees the exception.
LoadFails(t) ==
    /\ MayFail
    /\ load[t].stage = "fetch"
    /\ load' = [load EXCEPT ![t] = IdleLoad]
    /\ UNCHANGED <<dbVars, cache, job, past, sideVars>>

Filled(t) ==
    past' = [past EXCEPT !.overtaken = @ \ {t},
                         !.tainted = IF Key(t) = "uuid" THEN t \in past.overtaken ELSE @]

\* Mutant: the loader's own record lands in the cache, not the Blueprint.
FillUnparsed(t) ==
    /\ load[t].stage = "fill"
    /\ cache' = [cache EXCEPT ![Key(t)] = load[t]]
    /\ load' = [load EXCEPT ![t] = IdleLoad]
    /\ Filled(t)
    /\ UNCHANGED <<dbVars, job, sideVars>>

\* The task resumes and stores what it fetched, whatever happened meanwhile.
Fill(t) ==
    /\ load[t].stage = "fill"
    /\ cache' = [cache EXCEPT ![Key(t)] = load[t].row]
    /\ load' = [load EXCEPT ![t] = IdleLoad]
    /\ Filled(t)
    /\ UNCHANGED <<dbVars, job, sideVars>>

\* The process dies and comes back: tasks and cache are gone, open
\* transactions roll back, Postgres keeps what was committed.
Restart ==
    /\ MayFail
    /\ cache' = [k \in CacheKeys |-> NoRow]
    /\ rowLock' = {}
    /\ job' = [r \in Requests |-> IdleJob]
    /\ load' = [t \in Tasks |-> IdleLoad]
    /\ past' = [past EXCEPT !.overtaken = {}, !.tainted = FALSE]
    /\ UNCHANGED <<active, versions, sideVars>>

-----------------------------------------------------------------------------
RequestStep(r) ==
    \/ Upsert(r) \/ Commit(r) \/ Invalidate(r) \/ PurgeAutomations(r)
    \/ CreateAutomation(r) \/ Announce(r) \/ Activate(r)

BeginRequest(r) == BeginSignup(r) \/ BeginPublish(r) \/ BeginRestore(r)

LoadStep(t) == StartLoad(t) \/ Fetch(t) \/ LoadFails(t) \/ Fill(t)

Next ==
    \/ \E r \in Requests : BeginRequest(r) \/ RequestStep(r) \/ Fail(r)
    \/ \E t \in Tasks : LoadStep(t)
    \/ Restart

Spec == Init /\ [][Next]_vars

\* The event loop runs every ready task and Postgres grants a contended row
\* lock in the order of the queue, so no waiting transaction starves.
Fairness == \A r \in Requests : /\ WF_vars(RequestStep(r))
                                /\ SF_vars(Upsert(r))

FairSpec == Spec /\ Fairness

-----------------------------------------------------------------------------
(* Properties.                                                             *)

Quiescent == \A r \in Requests : At(r, "idle")

\* Types: rows, cache entries and events are what the tables and _cache hold.
TypeOK ==
    /\ active \in Row \cup {NoRow}
    /\ versions \in Seq(Row)
    /\ rowLock \subseteq Requests
    /\ cache \in [CacheKeys -> Row \cup {NoRow}]
    /\ automations \in Seq(Contents)
    /\ events \subseteq [kind : Kinds, version : Nat]
    /\ status \in [on : BOOLEAN, version : Nat]
    /\ signedUp \in BOOLEAN
    /\ job \in [Requests -> Job]
    /\ load \in [Tasks -> Load]
    /\ past \in Past

\* However publishes and restores race, fail or crash, the history numbers its
\* rows 1, 2, 3, ... without a gap or a duplicate (the table has no unique
\* constraint to enforce it), and the active row is always its last entry.
HistoryMatchesActive ==
    /\ \A i \in DOMAIN versions : versions[i].version = i
    /\ active = IF versions = <<>> THEN NoRow ELSE versions[Len(versions)]

\* At most one transaction at a time computes "version + 1", and it still
\* holds the number it computed when it commits.
OneWriter ==
    \A r \in Requests : At(r, "tx") => /\ rowLock = {r}
                                       /\ job[r].mine = NextVersion

\* A restore in flight republishes exactly the content of the version it was
\* asked for, although others may publish between its read and its write.
RestoreFaithful ==
    \A r \in Requests :
        job[r].kind = "restore" /\ ~At(r, "idle") =>
            /\ job[r].source \in DOMAIN versions
            /\ job[r].draft = versions[job[r].source].content

\* The cache and every fill on its way to it only ever hold a Blueprint that
\* was committed: a rolled-back publish is never served.  And requests are served
\* an older Blueprint than one whose publish has invalidated the cache only
\* through a load that had read its row by then and stored it afterwards: whoever
\* reads later fills in that version or a newer one, in whatever order publishes
\* commit and invalidate.
CacheServesPublished ==
    /\ cache["uuid"] # NoRow /\ ~past.tainted => cache["uuid"].version >= past.dropped
    /\ \A t \in Tasks :
          load[t].stage = "fill" /\ Key(t) = "uuid" /\ t \notin past.overtaken =>
             load[t].row.version >= past.dropped
    /\ \A k \in CacheKeys :
          cache[k] # NoRow => \E i \in DOMAIN versions : cache[k] = versions[i]
    /\ \A t \in Tasks :
          load[t].stage = "fill" => \E i \in DOMAIN versions : load[t].row = versions[i]

\* "Activation only happens from a blueprint.published event": an active
\* Engine names a version that was announced, and so was committed before.
ActivationFollowsEvent ==
    /\ status.on => [kind |-> "publish", version |-> status.version] \in events
    /\ \A e \in events : e.version \in DOMAIN versions

Creating == {r \in Requests : At(r, "create")}

\* Concurrent syncs can leave duplicate Blueprint automations behind, but never
\* more than there were requests publishing at once, and each of them asks for
\* the threshold of a Blueprint that was really published.
DuplicatesBounded ==
    /\ Len(automations) + Cardinality(Creating) <= Cardinality(Requests)
    /\ \A i \in DOMAIN automations :
          /\ automations[i] \in AlertContents
          /\ \E j \in DOMAIN versions : automations[i] = versions[j].content

\* The version history implements the append-only log: publishing and
\* restoring only ever append ("this only ever adds to history").
Published == [i \in DOMAIN versions |-> versions[i].content]
History == INSTANCE BlueprintLog WITH log <- Published
HistoryIsAppendOnly == History!Spec

\* loader.py: the cache is "invalidated the instant a new version is
\* published", so once nothing is in flight a cached Blueprint is the active one.
CacheFresh ==
    (Quiescent /\ \A t \in Tasks : load[t].stage = "idle") =>
        \A k \in CacheKeys : cache[k] # NoRow => cache[k] = active

\* Every publish and restore runs to its end: no transaction waits for ever
\* for the row lock, whatever the others do.
RequestsTerminate == \A r \in Requests : ~At(r, "idle") ~> At(r, "idle")

=============================================================================
