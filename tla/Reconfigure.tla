---------------------------- MODULE Reconfigure ----------------------------
(***************************************************************************)
(* The configuration while OSC runs: the override rows in the database     *)
(* (core/config-overrides.ts), the effective configuration every part      *)
(* reads, the modules built from it (core/reconcile.ts), the handlers that *)
(* edit it (server/api.ts), import and first boot (core/config-io.ts) and  *)
(* the command line (cli/apply-config.ts).  Node runs each handler without *)
(* a break as far as its first await; a crash may come anywhere.           *)
(***************************************************************************)
EXTENDS Integers, FiniteSets

CONSTANTS
    Slow,     \* tariffs: their start() awaits the network
    Quick,    \* meters: theirs does not
    Values,   \* what may be configured for an entity
    Broken,   \* those the schema accepts and create() throws on
    File,     \* the rows of osc.yaml, none where it has none
    Requests  \* bound: slow reloads under way at once

ASSUME ConfigAssumption ==
    /\ Broken \subseteq Values /\ {"none", "partial"} \cap Values = {} /\ Slow \cap Quick = {}
    /\ File \in [Slow \union Quick -> {"none"} \union (Values \ Broken)]

Entities == Slow \union Quick

VARIABLES
    stored,        \* config_overrides; "partial": a row that lacks its type
    materialized,  \* the setting config.materialized
    live,          \* the configuration in memory
    running,       \* the modules in the maps, by the configuration they have
    orphans,       \* the modules that run on in no map
    reload,        \* request: none, or the tariff it starts, its configuration, and
                   \* whether the module it is to stop is still the one in the map
    overlapped,    \* history: tariffs two reloads of which were under way at once
    phase          \* of the process: down or up

configVars == <<stored, materialized, live, running, orphans, reload, overlapped, phase>>
memory == <<live, running, orphans, reload, overlapped>>

none == [e |-> "none", v |-> "none", owned |-> FALSE]
Rows == Values \union {"none", "partial"}
Reloads == [e : Slow, v : Values, owned : BOOLEAN]

ReconfigureTypeOK ==
    /\ stored \in [Entities -> Rows] /\ materialized \in BOOLEAN
    /\ live \in [Entities -> Values \union {"none"}] /\ running \in [Entities -> Values \union {"none"}]
    /\ orphans \subseteq Slow \X Values /\ overlapped \subseteq Slow
    /\ reload \in [Requests -> {none} \union Reloads] /\ phase \in {"down", "up"}

Nothing == [e \in Entities |-> "none"]

ReconfigureInit ==
    /\ stored = Nothing /\ materialized = FALSE /\ live = Nothing /\ running = Nothing
    /\ orphans = {} /\ reload = [r \in Requests |-> none] /\ overlapped = {} /\ phase = "down"

-----------------------------------------------------------------------------
(* setOverride merges: a patch without the type completes a row that has   *)
(* one and leaves a new row partial.                                       *)
setOverride(row, v, typed) == IF typed \/ row \in Values THEN v ELSE "partial"

(* mergeOverrideInto: the patch over the entity of that name, or as one.   *)
mergeOverrideInto(entity, v, typed) == IF typed \/ entity # "none" THEN v ELSE "partial"

(* getEffectiveConfig parses the whole configuration, as validateConfigWith*)
(* does what edits would make of another one: one partial entity and they  *)
(* throw.                                                                  *)
parses(s) == \A e \in Entities : s[e] # "partial"
validateConfigWith(from, W, v, typed) ==
    parses([e \in Entities |-> IF e \in W THEN mergeOverrideInto(from[e], v, typed) ELSE from[e]])

(* create() throws on what the schema lets through.                        *)
builds(v) == v \notin Broken

(* A reload swaps configuration and module together once the new module    *)
(* has started, or does neither.                                           *)
swap(e, v) ==
    /\ live' = IF builds(v) THEN [live EXCEPT ![e] = v] ELSE live
    /\ running' = IF builds(v) THEN [running EXCEPT ![e] = v] ELSE running

(* The reader connects in the background: it is swapped, and the one it    *)
(* replaces stopped, at once.                                              *)
reloadMeterReader(e, v) == swap(e, v) /\ UNCHANGED <<orphans, reload, overlapped>>

removeMeterReader(e) ==
    /\ live' = [live EXCEPT ![e] = "none"]
    /\ running' = [running EXCEPT ![e] = "none"]
    /\ UNCHANGED <<orphans, reload, overlapped>>

(* The tariff is created, and swapped when its start() has its prices.     *)
(* `old`, the module to stop, is looked up before.                         *)
UnderWay(e) == {r \in Requests : reload[r] # none /\ reload[r].e = e}
reloadTariff(e, v) ==
    /\ IF builds(v)
         THEN /\ \E r \in Requests :
                    /\ reload[r] = none
                    /\ reload' = [reload EXCEPT ![r] = [e |-> e, v |-> v, owned |-> TRUE]]
              /\ overlapped' = IF UnderWay(e) = {} THEN overlapped ELSE overlapped \union {e}
         ELSE UNCHANGED <<reload, overlapped>>
    /\ UNCHANGED <<live, running, orphans>>

(* Once the row is written: nothing, if the configuration does not parse.  *)
Reload(e, v) ==
    IF ~parses(stored') THEN UNCHANGED memory
    ELSE IF e \in Quick THEN reloadMeterReader(e, v) ELSE reloadTariff(e, v)

(* 400 unless it is valid over the configuration in memory; then the row,  *)
(* then the reload.                                                        *)
Write(e, v, typed) ==
    /\ phase = "up" /\ validateConfigWith(live, {e}, v, typed)
    /\ stored' = [stored EXCEPT ![e] = setOverride(stored[e], v, typed)]
    /\ Reload(e, stored'[e])
    /\ UNCHANGED <<materialized, phase>>

(* 409 by the configuration in memory, over which it is validated.         *)
PostTariff(e, v) == e \in Slow /\ live[e] = "none" /\ Write(e, v, TRUE)
PostMeter(e, v) == e \in Quick /\ live[e] = "none" /\ Write(e, v, TRUE)

(* 404 by it; a tariff is given a zone only, with which it builds.         *)
PutTariff(e, v) == e \in Slow /\ live[e] # "none" /\ builds(v) /\ Write(e, v, FALSE)
PutMeter(e, v) == e \in Quick /\ live[e] # "none" /\ Write(e, v, FALSE)

(* The await of a slow start is over: the module in the map is replaced,   *)
(* and stopped if it is the one that was there when the reload began.      *)
(* Slip: it is replaced and left running.                                  *)
Discarded(e) == IF running[e] = "none" THEN {} ELSE {<<e, running[e]>>}
Swapped(r) ==
    /\ reload[r] # none
    /\ swap(reload[r].e, reload[r].v)
    /\ reload' = [q \in Requests |->
                     IF q = r THEN none
                     ELSE IF q \in UnderWay(reload[r].e) THEN [reload[q] EXCEPT !.owned = FALSE]
                     ELSE reload[q]]
    /\ UNCHANGED <<stored, materialized, overlapped, phase>>
StartedUnstopped(r) == Swapped(r) /\ orphans' = orphans \union Discarded(reload[r].e)
Started(r) ==
    /\ Swapped(r)
    /\ orphans' = IF reload[r].owned THEN orphans ELSE orphans \union Discarded(reload[r].e)

DeleteMeter(e) ==
    /\ phase = "up" /\ e \in Quick /\ live[e] # "none"
    /\ stored' = [stored EXCEPT ![e] = "none"]
    /\ removeMeterReader(e)
    /\ UNCHANGED <<materialized, phase>>

(* A document: entities W, each with v, and with its type or without.      *)
docToOverrideRows(W, v, typed) == {[name |-> e, patch |-> v, typed |-> typed] : e \in W}

(* applyConfigOverrides with prune: every row is cleared.                  *)
applyConfigOverrides == Nothing

(* Each row of the document through setOverride.                           *)
Overlaid(rows, s) ==
    [e \in Entities |-> IF \E r \in rows : r.name = e
                        THEN LET r == CHOOSE x \in rows : x.name = e IN setOverride(s[e], r.patch, r.typed)
                        ELSE s[e]]

(* importConfig.  A replacement is valid over the defaults, a merge over   *)
(* the configuration in memory, which is not touched.                      *)
importMerge(W, v, typed) ==
    /\ phase = "up" /\ validateConfigWith(live, W, v, typed)
    /\ stored' = Overlaid(docToOverrideRows(W, v, typed), stored)
    /\ UNCHANGED <<materialized, memory, phase>>
importReplace(W, v, typed) ==
    /\ phase = "up" /\ validateConfigWith(Nothing, W, v, typed)
    /\ stored' = Overlaid(docToOverrideRows(W, v, typed), applyConfigOverrides)
    /\ UNCHANGED <<materialized, memory, phase>>

(* It is no transaction: a crash leaves the old rows up to some point, or  *)
(* none and the new ones up to some point.                                 *)
Emptied(D) == [e \in Entities |-> IF e \in D THEN "none" ELSE stored[e]]
Filled(W) == [e \in Entities |-> IF e \in W THEN File[e] ELSE "none"]
CutShort == {Emptied(D) : D \in SUBSET Entities} \union {Filled(W) : W \in SUBSET Entities}

(* npm run config:apply, from a process of its own.                        *)
ApplyConfig ==
    /\ stored' = File /\ materialized' = TRUE /\ UNCHANGED <<memory, phase>>
ApplyConfigDies ==
    /\ stored' \in CutShort /\ UNCHANGED <<materialized, memory, phase>>

(* POST /api/system/reset: every table, in one transaction.                *)
FactoryReset ==
    /\ phase = "up" /\ stored' = Nothing /\ materialized' = FALSE
    /\ UNCHANGED <<memory, phase>>

-----------------------------------------------------------------------------
(* materializeConfigOnce: osc.yaml replaces the rows, then the mark is set.*)
(* Slip: the mark is set first.                                            *)
materializeMarked ==
    \/ stored' = (IF materialized THEN stored ELSE File) /\ materialized' = TRUE
    \/ ~materialized /\ stored' \in CutShort /\ materialized' = TRUE
materializeConfigOnce ==
    \/ stored' = (IF materialized THEN stored ELSE File) /\ materialized' = TRUE
    \/ ~materialized /\ stored' \in CutShort /\ materialized' = FALSE

(* main(): then the configuration parses and its modules are built, or the *)
(* process dies, as it may on the way.                                     *)
Boots(s) == parses(s) /\ \A e \in Entities : s[e] # "none" => builds(s[e])

Boot ==
    /\ phase = "down" /\ materializeConfigOnce
    /\ \/ /\ materialized' /\ Boots(stored')
          /\ live' = stored' /\ running' = stored' /\ phase' = "up"
       \/ UNCHANGED <<live, running, phase>>
    /\ UNCHANGED <<orphans, reload, overlapped>>

(* The end of the process, of itself, by a signal or in a crash.           *)
Crash ==
    /\ phase = "up" /\ phase' = "down" /\ live' = Nothing /\ running' = Nothing /\ orphans' = {}
    /\ reload' = [r \in Requests |-> none] /\ overlapped' = {}
    /\ UNCHANGED <<stored, materialized>>

ReconfigureNext ==
    \/ \E e \in Entities, v \in Values :
          PostTariff(e, v) \/ PostMeter(e, v) \/ PutTariff(e, v) \/ PutMeter(e, v)
    \/ \E e \in Quick : DeleteMeter(e)
    \/ \E r \in Requests : Started(r)
    \/ \E W \in SUBSET Entities, v \in Values :
          \E typed \in BOOLEAN : importReplace(W, v, typed) \/ importMerge(W, v, typed)
    \/ ApplyConfig \/ ApplyConfigDies \/ FactoryReset \/ Boot \/ Crash

ReconfigureSpec == ReconfigureInit /\ [][ReconfigureNext]_configVars

-----------------------------------------------------------------------------
(* Whatever a build throws, and however reloads overlap: the module in the *)
(* map is the one of the configuration that is read, and no other module   *)
(* of that name runs on, unless two reloads of it were under way at once   *)
(* (then neither stops the first of the two to be swapped in).             *)
RunsItsConfig == running = live /\ \A o \in orphans : o[1] \in overlapped

(* A first boot that dies on the way is done again, never half: the mark   *)
(* comes with the whole of osc.yaml.                                       *)
MarkedWhenWhole == [][~materialized /\ materialized' => stored' = File]_configVars
=============================================================================
