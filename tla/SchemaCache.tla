----------------------------- MODULE SchemaCache -----------------------------
(***************************************************************************)
(* The parsed schema of one session (internal/directory/ldapdriver Schema, *)
(* RefreshSchema, invalidateSchema and the end of Apply): loaded by the    *)
(* first of any number of concurrent readers, dropped by a change of the   *)
(* schema that was applied through this session and by a refresh.          *)
(*                                                                         *)
(* schemaOnce is a pointer that an invalidation replaces: a generation.    *)
(* Every locked section of schemaMu is one step; holder has session.mu,    *)
(* which a search holds while it runs and Apply until it has invalidated.  *)
(* Schemas are versions, numbered in the order the directory took them on. *)
(***************************************************************************)
EXTENDS Integers

CONSTANTS
  Goroutines, \* callers of Schema, RefreshSchema and Apply
  Nil, Failed,
  MaxGens,    \* bound: refreshes and schema changes of this session
  MaxOthers,  \* bound: schema changes from elsewhere
  MaxFaults   \* bound: loads that fail and changes whose answer is lost

ASSUME SchemaCacheConstants ==
  /\ {MaxGens, MaxOthers, MaxFaults} \subseteq Nat
  /\ Nil \notin Nat \cup Goroutines /\ Failed \notin Nat /\ Nil # Failed
  /\ {"fresh", "ran"} \cap Goroutines = {}

VARIABLES
  version,  \* the schema the directory publishes
  holder,   \* who holds session.mu across a step, or Nil
  gen,      \* schemaOnce
  once,     \* of each generation, whether it has yet to run, who runs it, or that it has
  cache,    \* schema and schemaErr: a version, Failed, or Nil
  at,       \* where each caller is
  mine,     \* the generation a caller of Schema took
  got,      \* what its load returned, or the version its change made
  begun, others, faults

\* Not the program's: the latest version applied through this session, and the oldest version a
\* call under way may return.
VARIABLES own, floor

cacheVars == <<version, holder, gen, once, cache, at, mine, got, begun, others, faults, own, floor>>

Gens == 0..MaxGens
Fresh == "fresh"
Ran == "ran"

CacheInit ==
  /\ version = 0 /\ holder = Nil
  /\ gen = 0 /\ once = [g \in Gens |-> Fresh] /\ cache = Nil
  /\ at = [c \in Goroutines |-> "idle"] /\ mine = [c \in Goroutines |-> 0]
  /\ got = [c \in Goroutines |-> Nil]
  /\ begun = 0 /\ others = 0 /\ faults = 0
  /\ own = 0 /\ floor = [c \in Goroutines |-> 0]

-----------------------------------------------------------------------------
invalidateSchema == gen' = gen + 1 /\ cache' = Nil

\* Schema takes the current generation.
Schema(c) ==
  /\ \/ at[c] = "idle" /\ floor' = [floor EXCEPT ![c] = own]
     \/ at[c] = "refreshing" /\ UNCHANGED floor
  /\ at' = [at EXCEPT ![c] = "once"]
  /\ mine' = [mine EXCEPT ![c] = gen]
  /\ UNCHANGED <<version, holder, gen, once, cache, got, begun, others, faults, own>>

\* RefreshSchema drops what is cached, and then is a call of Schema.
RefreshSchema(c) ==
  /\ at[c] = "idle" /\ begun < MaxGens
  /\ begun' = begun + 1
  /\ invalidateSchema
  /\ floor' = [floor EXCEPT ![c] = version]
  /\ at' = [at EXCEPT ![c] = "refreshing"]
  /\ UNCHANGED <<version, holder, once, mine, got, others, faults, own>>

\* once.Do: the first caller of a generation loads, the others wait until it has.
Do(c) ==
  /\ at[c] = "once"
  /\ \/ /\ once[mine[c]] = Fresh
        /\ once' = [once EXCEPT ![mine[c]] = c] /\ at' = [at EXCEPT ![c] = "loading"]
     \/ /\ once[mine[c]] = Ran
        /\ at' = [at EXCEPT ![c] = "last"] /\ UNCHANGED once
  /\ UNCHANGED <<version, holder, gen, cache, mine, got, begun, others, faults, own, floor>>

loadSchema(c) ==
  /\ at[c] = "loading" /\ holder = Nil
  /\ \/ got' = [got EXCEPT ![c] = version] /\ UNCHANGED faults
     \/ got' = [got EXCEPT ![c] = Failed] /\ faults < MaxFaults /\ faults' = faults + 1
  /\ at' = [at EXCEPT ![c] = "loaded"]
  /\ UNCHANGED <<version, holder, gen, once, cache, mine, begun, others, own, floor>>

\* Mutated form: a load writes what it read whatever has happened since.
StoreAlways(c) ==
  /\ at[c] = "loaded"
  /\ cache' = got[c]
  /\ once' = [once EXCEPT ![mine[c]] = Ran]
  /\ at' = [at EXCEPT ![c] = "last"] /\ got' = [got EXCEPT ![c] = Nil]
  /\ UNCHANGED <<version, holder, gen, mine, begun, others, faults, own, floor>>

\* A load is kept only while its generation is the current one.
Store(c) ==
  /\ at[c] = "loaded"
  /\ cache' = (IF gen = mine[c] THEN got[c] ELSE cache)
  /\ once' = [once EXCEPT ![mine[c]] = Ran]
  /\ at' = [at EXCEPT ![c] = "last"] /\ got' = [got EXCEPT ![c] = Nil]
  /\ UNCHANGED <<version, holder, gen, mine, begun, others, faults, own, floor>>

\* Whatever is cached by now is returned, and the call's own variables are gone.
ReturnSchema(c) ==
  /\ at[c] = "last"
  /\ at' = [at EXCEPT ![c] = "idle"]
  /\ mine' = [mine EXCEPT ![c] = 0] /\ floor' = [floor EXCEPT ![c] = 0]
  /\ UNCHANGED <<version, holder, gen, once, cache, got, begun, others, faults, own>>

-----------------------------------------------------------------------------
\* Apply holds session.mu; the directory takes the change on.
Apply(c) ==
  /\ at[c] = "idle" /\ holder = Nil /\ begun < MaxGens
  /\ begun' = begun + 1
  /\ holder' = c
  /\ version' = version + 1 /\ got' = [got EXCEPT ![c] = version + 1]
  /\ at' = [at EXCEPT ![c] = "applied"]
  /\ UNCHANGED <<gen, once, cache, mine, others, faults, own, floor>>

\* It succeeded, and is reported once the cache is dropped.
Applied(c) ==
  /\ at[c] = "applied"
  /\ invalidateSchema
  /\ own' = got[c]
  /\ holder' = Nil /\ at' = [at EXCEPT ![c] = "idle"] /\ got' = [got EXCEPT ![c] = Nil]
  /\ UNCHANGED <<version, once, mine, begun, others, faults, floor>>

\* Mutated form: session.mu is not let go of on the way out.
InterruptedHolding(c) ==
  /\ at[c] = "applied" /\ faults < MaxFaults
  /\ faults' = faults + 1
  /\ at' = [at EXCEPT ![c] = "idle"] /\ got' = [got EXCEPT ![c] = Nil]
  /\ UNCHANGED <<version, holder, gen, once, cache, mine, begun, others, own, floor>>

\* Its answer is lost: the outcome is unknown, and the cache is kept.
Interrupted(c) ==
  /\ at[c] = "applied" /\ faults < MaxFaults
  /\ faults' = faults + 1
  /\ holder' = Nil /\ at' = [at EXCEPT ![c] = "idle"] /\ got' = [got EXCEPT ![c] = Nil]
  /\ UNCHANGED <<version, gen, once, cache, mine, begun, others, own, floor>>

\* Somebody else changes the schema.
Other ==
  /\ others < MaxOthers
  /\ others' = others + 1 /\ version' = version + 1
  /\ UNCHANGED <<holder, gen, once, cache, at, mine, got, begun, faults, own, floor>>

CallStep(c) == Schema(c) \/ RefreshSchema(c) \/ Do(c) \/ loadSchema(c) \/ Store(c) \/ ReturnSchema(c)
             \/ Apply(c) \/ Applied(c) \/ Interrupted(c)

CacheNext == Other \/ \E c \in Goroutines : CallStep(c)

CacheSpec == CacheInit /\ [][CacheNext]_cacheVars

\* A call that has begun goes on when it can: the runtime runs every goroutine, a search or a
\* change answers or fails by its timeout, and session.mu does not starve a waiter for ever.
FairCacheSpec == CacheSpec /\ \A c \in Goroutines :
  /\ WF_cacheVars(Do(c)) /\ SF_cacheVars(loadSchema(c))
  /\ WF_cacheVars(Store(c)) /\ WF_cacheVars(ReturnSchema(c))
  /\ WF_cacheVars(Applied(c) \/ Interrupted(c)) /\ WF_cacheVars(at[c] = "refreshing" /\ Schema(c))

-----------------------------------------------------------------------------
\* The variables keep their types; a generation runs at most one load, and session.mu is held by
\* the caller whose change is being applied.
CacheTypeOK ==
  /\ version \in Nat /\ own \in Nat /\ gen \in Nat
  /\ cache \in Nat \cup {Nil, Failed}
  /\ at \in [Goroutines -> {"idle", "refreshing", "once", "loading", "loaded", "last", "applied"}]
  /\ mine \in [Goroutines -> Nat] /\ floor \in [Goroutines -> Nat]
  /\ got \in [Goroutines -> Nat \cup {Nil, Failed}]
  /\ once \in [Gens -> {Fresh, Ran} \cup Goroutines]
  /\ \A c \in Goroutines : at[c] \in {"loading", "loaded"} <=> \E g \in Gens : once[g] = c
  /\ holder \in Goroutines \cup {Nil} /\ \A c \in Goroutines : holder = c <=> at[c] = "applied"

\* What a call of Schema returns is not older than the last schema change that had been reported
\* applied when it began, and of a refresh not older than what the directory published then; a
\* reader that was overtaken never brings an old schema back.
Returns(c) == at[c] = "last" /\ at'[c] = "idle"
CacheFresh == [][\A c \in Goroutines : Returns(c) /\ cache \in Nat => cache >= floor[c]]_cacheVars

\* Every call of Schema returns: readers wait for the one that loads, it for session.mu, and a
\* schema change holds session.mu while it drops the cache.
EveryReaderAnswered == \A c \in Goroutines : at[c] \in {"refreshing", "once"} ~> at[c] = "idle"
=============================================================================
