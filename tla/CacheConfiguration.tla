-------------------------- MODULE CacheConfiguration --------------------------
(***************************************************************************)
(* A cache configuration from its YAML document to the two levels that an  *)
(* analysis simulates: reading, validation part by part, the walk from     *)
(* every cache towards memory, and the selection of core 0's L1 and LLC.   *)
(* A node of the document is a map, a sequence or a scalar; an optional    *)
(* field is a key that may be absent.  Selection validates again what the  *)
(* parser has just validated, which is left out.                           *)
(***************************************************************************)
EXTENDS Naturals, Sequences, FiniteSets

CONSTANTS
    MaxWord, MaxId,                \* largest uint64_t and uint32_t
    Units,                         \* multiplier of every byte unit
    DefaultLine, DefaultWays,      \* line_size and associativity left out
    Documents                      \* files that may be given

\* The exponent of a power of two in a word is an identifier.
ASSUME WordAssumption ==
    /\ MaxWord \in Nat /\ MaxId \in Nat /\ MaxId <= MaxWord /\ MaxWord < 2 ^ MaxId
    /\ \A u \in DOMAIN Units : Units[u] \in 1 .. MaxWord
    /\ DefaultLine \in 0 .. MaxWord /\ DefaultWays \in 0 .. MaxWord

Branches(node) ==
    CASE node.is = "map"      -> {node.f[k] : k \in DOMAIN node.f}
      [] node.is = "sequence" -> {node.s[i] : i \in DOMAIN node.s}
      [] OTHER -> {}

Below(nodes) == nodes \cup UNION {Branches(node) : node \in nodes}

IsNode(node) ==
    /\ node.is \in {"number", "bytes"} => node.n \in Nat
    /\ node.is = "sequence" => node.s \in Seq(Branches(node))

\* The YAML library makes a tree of a file; nothing deeper than this is looked at.
ASSUME DocumentAssumption ==
    \A file \in Documents : \A node \in Below(Below(Below(Below({file})))) : IsNode(node)

VARIABLES
    document,                      \* the file
    config,                        \* HierarchyConfig, as far as it is read
    stage, index,                  \* part under way, and its items done
    current, visited,              \* cache the walk is at, and those behind it
    selected                       \* names of the analysed caches, <<>> before

configuration_vars == <<document, config, stage, index, current, visited, selected>>

Stages == <<"root", "cores", "caches", "memory", "head", "names", "nexts", "mapping",
            "walks", "select">>

-----------------------------------------------------------------------------
CoreFields == [id |-> "id", l1 |-> "text"]
MemoryFields == [name |-> "text", delay_cycles |-> "number"]
CacheFields ==
    [name |-> "text", role |-> "text", private_to |-> "owner", size_bytes |-> "bytes",
     line_size |-> "bytes", associativity |-> "number", replacement |-> "replacement",
     write_policy |-> "write_policy", write_allocate |-> "flag", delay_cycles |-> "number",
     next |-> "text"]

CacheDefaults ==
    [private_to |-> {}, line_size |-> DefaultLine, associativity |-> DefaultWays,
     replacement |-> "LRU", write_policy |-> "write-back", write_allocate |-> TRUE,
     delay_cycles |-> 0]
MemoryDefaults == [name |-> "Memory", delay_cycles |-> 120]

Unit(node) == IF node.is = "number" THEN "" ELSE node.unit

byte_quantity(node) == node.n * Units[Unit(node)]

IsByteQuantity(node) ==
    /\ node.is \in {"number", "bytes"} /\ Unit(node) \in DOMAIN Units
    /\ node.n <= MaxWord \div Units[Unit(node)]

Legible(kind, node) ==
    CASE kind = "text"   -> node.is = "text"
      [] kind = "bytes"  -> IsByteQuantity(node)
      [] kind = "number" -> node.is = "number" /\ node.n <= MaxWord
      [] kind \in {"id", "owner"} -> node.is = "number" /\ node.n <= MaxId
      [] kind = "flag"   -> node.is = "flag"
      [] kind = "replacement"  -> node.is = "text" /\ node.t \in {"LRU", "FIFO", "MRU"}
      [] kind = "write_policy" -> node.is = "text" /\ node.t \in {"write-back", "write-through"}

Value(kind, node) ==
    CASE kind = "bytes" -> byte_quantity(node)
      [] kind \in {"number", "id"} -> node.n
      [] kind = "owner" -> {node.n}
      [] kind = "flag"  -> node.b
      [] OTHER -> node.t

\* reject_unknown, required and scalar: a map with all that it needs, nothing that
\* it does not know, and every field legible.
MapFits(node, fields, needed) ==
    /\ node.is = "map"
    /\ needed \subseteq DOMAIN node.f /\ DOMAIN node.f \subseteq fields

Fits(node, kinds, needed) ==
    /\ MapFits(node, DOMAIN kinds, needed)
    /\ \A k \in DOMAIN node.f : Legible(kinds[k], node.f[k])

Parsed(node, kinds, defaults) ==
    [k \in DOMAIN kinds |-> IF k \in DOMAIN node.f THEN Value(kinds[k], node.f[k])
                                                   ELSE defaults[k]]

Starts(file) ==
    /\ document = file
    /\ config = [schema_version |-> 0, num_cores |-> 0, core_mappings |-> <<>>,
                 caches |-> <<>>, memory |-> [name |-> "", delay_cycles |-> 0]]
    /\ stage = "root" /\ index = 0
    /\ current = "" /\ visited = {} /\ selected = <<>>

Reading(part) == stage = part /\ UNCHANGED <<document, current, visited, selected>>

RootKeys == {"schema_version", "cores", "caches", "memory"}
Cores == document.f.cores
Mappings == Cores.f.mapping.s
Caches == document.f.caches.s

RootFits ==
    /\ MapFits(document, RootKeys, RootKeys)
    /\ Legible("id", document.f.schema_version)
    /\ MapFits(Cores, {"count", "mapping"}, {"count", "mapping"})
    /\ Legible("id", Cores.f.count)
    /\ Cores.f.mapping.is = "sequence" /\ document.f.caches.is = "sequence"

ReadRoot ==
    /\ Reading("root") /\ RootFits
    /\ config' = [config EXCEPT !.schema_version = document.f.schema_version.n,
                                !.num_cores = Cores.f.count.n]
    /\ stage' = "cores" /\ UNCHANGED index

CoreFits(node) == Fits(node, CoreFields, DOMAIN CoreFields)
CacheFits(node) == Fits(node, CacheFields, {"name", "role", "size_bytes", "next"})
MemoryFits(node) == Fits(node, MemoryFields, {})

parse_core ==
    /\ Reading("cores") /\ index < Len(Mappings) /\ CoreFits(Mappings[index + 1])
    /\ config' = [config EXCEPT !.core_mappings =
                      Append(@, Parsed(Mappings[index + 1], CoreFields, <<>>))]
    /\ index' = index + 1 /\ UNCHANGED stage

parse_cache ==
    /\ Reading("caches") /\ index < Len(Caches) /\ CacheFits(Caches[index + 1])
    /\ config' = [config EXCEPT !.caches =
                      Append(@, Parsed(Caches[index + 1], CacheFields, CacheDefaults))]
    /\ index' = index + 1 /\ UNCHANGED stage

ReadMemory ==
    /\ Reading("memory") /\ MemoryFits(document.f.memory)
    /\ config' = [config EXCEPT !.memory =
                      Parsed(document.f.memory, MemoryFields, MemoryDefaults)]
    /\ stage' = "head" /\ UNCHANGED index

-----------------------------------------------------------------------------
Memory == config.memory.name
Item == config.caches[index + 1]
NamesOf(caches) == {caches[i].name : i \in DOMAIN caches}
Names == NamesOf(config.caches)

\* find_cache_config; the first of a name.
find_cache_config(name) ==
    LET first == CHOOSE i \in DOMAIN config.caches :
                    /\ config.caches[i].name = name
                    /\ \A j \in 1 .. i - 1 : config.caches[j].name # name
    IN  config.caches[first]

is_power_of_two(n) == n # 0 /\ \E k \in 0 .. n : 2 ^ k = n

GeometryFits(cache) ==
    /\ cache.size_bytes # 0 /\ cache.line_size # 0 /\ cache.associativity # 0
    /\ cache.size_bytes % cache.line_size = 0
    /\ LET line_count == cache.size_bytes \div cache.line_size
       IN  /\ \A n \in {cache.line_size, line_count, cache.associativity} : is_power_of_two(n)
           /\ cache.associativity <= line_count

HeadFits == /\ config.schema_version = 1 /\ config.num_cores # 0
            /\ Memory # "" /\ config.caches # <<>>

NameFits ==
    /\ Item.name # "" /\ Item.role # ""
    /\ Item.name \notin {Memory} \cup NamesOf(SubSeq(config.caches, 1, index))
    /\ \A core \in Item.private_to : core < config.num_cores
    /\ Item.next # ""
    /\ GeometryFits(Item)

NextFits == Item.next \in {Memory} \cup Names

MappingCountFits == Len(config.core_mappings) = config.num_cores

MappingFits ==
    LET mapping == config.core_mappings[index + 1]
        entry == find_cache_config(mapping.l1)
    IN  /\ mapping.id < config.num_cores
        /\ \A i \in 1 .. index : config.core_mappings[i].id # mapping.id
        /\ mapping.l1 \in Names
        /\ entry.role = "L1" /\ entry.private_to = {mapping.id}

Validating(part) == stage = part /\ UNCHANGED <<document, config, selected>>

ValidateHead ==
    /\ Validating("head") /\ HeadFits
    /\ stage' = "names" /\ UNCHANGED <<index, current, visited>>

ValidateItem ==
    /\ \/ Validating("names") /\ index < Len(config.caches) /\ NameFits
       \/ Validating("nexts") /\ index < Len(config.caches) /\ NextFits
       \/ /\ Validating("mapping") /\ MappingCountFits
          /\ index < Len(config.core_mappings) /\ MappingFits
    /\ index' = index + 1
    /\ UNCHANGED <<stage, current, visited>>

\* Mutant: only a chain that leads back to its first cache is a cycle.
Returned_to_start == visited # {} /\ current = config.caches[index + 1].name

Returned == current \in visited

\* Mutant: a walk that returns is given up instead of refused.
MoreToWalk_given_up == find_cache_config(current).next # Memory /\ ~Returned

MoreToWalk == find_cache_config(current).next # Memory

Hop ==
    /\ Validating("walks") /\ index < Len(config.caches) /\ MoreToWalk /\ ~Returned
    /\ visited' = visited \cup {current}
    /\ current' = find_cache_config(current).next
    /\ UNCHANGED <<stage, index>>

StartAt(i) == IF i < Len(config.caches) THEN config.caches[i + 1].name ELSE ""

WalkEnds ==
    /\ Validating("walks") /\ index < Len(config.caches) /\ ~MoreToWalk
    /\ visited' = {} /\ current' = StartAt(index + 1)
    /\ index' = index + 1 /\ UNCHANGED stage

Count == CASE stage = "cores"  -> Len(Mappings)
           [] stage = "caches" -> Len(Caches)
           [] stage = "mapping" -> Len(config.core_mappings)
           [] OTHER -> Len(config.caches)

Follows == [s \in {Stages[i] : i \in 1 .. Len(Stages) - 1} |->
               Stages[(CHOOSE i \in DOMAIN Stages : Stages[i] = s) + 1]]

NextPart ==
    /\ stage \in {"cores", "caches", "names", "nexts", "mapping", "walks"}
    /\ stage = "mapping" => MappingCountFits
    /\ index = Count
    /\ stage' = Follows[stage] /\ index' = 0
    /\ current' = IF stage' = "walks" THEN StartAt(0) ELSE ""
    /\ UNCHANGED <<document, config, visited, selected>>

-----------------------------------------------------------------------------
L1 == find_cache_config((CHOOSE m \in {config.core_mappings[i] :
                                       i \in DOMAIN config.core_mappings} : m.id = 0).l1)

SelectionFits ==
    /\ L1.next # Memory
    /\ LET llc == find_cache_config(L1.next)
       IN  /\ llc.role = "LLC" /\ llc.private_to = {} /\ llc.next = Memory
           /\ \A cache \in {L1, llc} : cache.replacement = "LRU" /\ cache.write_allocate
           /\ L1.line_size = llc.line_size

select_analysis_hierarchy ==
    /\ stage = "select" /\ SelectionFits
    /\ selected' = <<L1.name, L1.next>>
    /\ stage' = "accepted"
    /\ UNCHANGED <<document, config, index, current, visited>>

Refuse ==
    /\ \/ stage = "root" /\ ~RootFits
       \/ stage = "cores" /\ index < Len(Mappings) /\ ~CoreFits(Mappings[index + 1])
       \/ stage = "caches" /\ index < Len(Caches) /\ ~CacheFits(Caches[index + 1])
       \/ stage = "memory" /\ ~MemoryFits(document.f.memory)
       \/ stage = "head" /\ ~HeadFits
       \/ stage = "names" /\ index < Len(config.caches) /\ ~NameFits
       \/ stage = "nexts" /\ index < Len(config.caches) /\ ~NextFits
       \/ stage = "mapping" /\ ~MappingCountFits
       \/ /\ stage = "mapping" /\ MappingCountFits /\ index < Len(config.core_mappings)
          /\ ~MappingFits
       \/ stage = "walks" /\ index < Len(config.caches) /\ MoreToWalk /\ Returned
       \/ stage = "select" /\ ~SelectionFits
    /\ stage' = "refused"
    /\ UNCHANGED <<document, config, index, current, visited, selected>>

ConfigurationNext ==
    \/ ReadRoot \/ parse_core \/ parse_cache \/ ReadMemory
    \/ ValidateHead \/ ValidateItem \/ Hop \/ WalkEnds \/ NextPart
    \/ select_analysis_hierarchy \/ Refuse

ConfigurationInit == \E file \in Documents : Starts(file)
ConfigurationSpec == ConfigurationInit /\ [][ConfigurationNext]_configuration_vars
-----------------------------------------------------------------------------
\* What an analysis takes for granted of its configuration, said of the caches as
\* a whole instead of in the order of the checks.
ReachesMemory ==
    /\ \A i, j \in DOMAIN config.caches :
          i # j => config.caches[i].name # config.caches[j].name
    /\ {config.caches[i].next : i \in DOMAIN config.caches} \subseteq Names \cup {Memory}
    /\ Memory \notin Names \cup {""}
    /\ \A feeding_itself \in (SUBSET DOMAIN config.caches) \ {{}} :
          \E i \in feeding_itself : \A j \in feeding_itself :
             config.caches[i].next # config.caches[j].name

CoresAreApart ==
    \E L1Of \in [0 .. config.num_cores - 1 -> DOMAIN config.caches] :
       /\ \A core \in DOMAIN L1Of :
             /\ config.caches[L1Of[core]].private_to = {core}
             /\ config.caches[L1Of[core]].role = "L1"
             /\ \E i \in DOMAIN config.core_mappings :
                   config.core_mappings[i] =
                      [id |-> core, l1 |-> config.caches[L1Of[core]].name]
       /\ Len(config.core_mappings) = config.num_cores

SetsOfLines(cache) ==
    \E i, j, k \in 0 .. MaxId :
       /\ cache.line_size = 2 ^ i /\ cache.associativity = 2 ^ j
       /\ cache.size_bytes = 2 ^ (i + j + k)

Analysed(l1, llc) ==
    /\ l1.private_to = {0} /\ llc.private_to = {}
    /\ l1.next = llc.name /\ llc.next = Memory
    /\ l1.role = "L1" /\ llc.role = "LLC" /\ l1.line_size = llc.line_size
    /\ \A cache \in {l1, llc} : cache.replacement = "LRU" /\ cache.write_allocate

Sound ==
    /\ config.schema_version = 1 /\ config.num_cores > 0
    /\ ReachesMemory /\ CoresAreApart
    /\ \A i \in DOMAIN config.caches :
          /\ SetsOfLines(config.caches[i])
          /\ config.caches[i].name # "" /\ config.caches[i].role # ""
          /\ config.caches[i].private_to \subseteq 0 .. config.num_cores - 1
    /\ \E i, j \in DOMAIN config.caches :
          /\ Analysed(config.caches[i], config.caches[j])
          /\ [id |-> 0, l1 |-> config.caches[i].name] \in
                {config.core_mappings[n] : n \in DOMAIN config.core_mappings}

\* A configuration is analysed exactly when it is sound: every chain of caches ends
\* in memory, every core has an L1 of its own, every cache is made of whole sets, the
\* sizes are those written, and the two selected levels can be simulated; and the
\* walk that finds this out looks up only caches there are, each at most once
\* (parse_cache_config, validate_cache_config, select_analysis_hierarchy).
ConfigurationIsSound ==
    /\ stage = "accepted" =>
          /\ Sound
          /\ \A i \in DOMAIN config.caches :
                config.caches[i].size_bytes =
                   Caches[i].f.size_bytes.n * Units[Unit(Caches[i].f.size_bytes)]
          /\ Analysed(find_cache_config(selected[1]), find_cache_config(selected[2]))
    /\ stage = "refused" => ~Sound
    /\ stage = "walks" /\ index < Len(config.caches) =>
          current \in Names /\ Cardinality(visited) <= Len(config.caches)

\* Every document is accepted or refused, however its caches refer to each other:
\* the walk along a chain, which has no bound of its own, comes to memory or to a
\* cache it has passed (validate_cache_config).
ReadingEnds == <>(stage \in {"accepted", "refused"})
=============================================================================
