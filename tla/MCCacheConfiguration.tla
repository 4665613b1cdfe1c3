------------------------- MODULE MCCacheConfiguration -------------------------
(* A machine word of 127 and byte units of 1, 4 and 16.  Three families of   *)
(* documents: every wiring of three caches and two cores, every geometry and *)
(* policy of an L1 and its LLC, and a good document with one fault in it.    *)
EXTENDS CacheConfiguration, TLC
MCUnits == [u \in {"", "KB", "MB"} |-> CASE u = "" -> 1 [] u = "KB" -> 4 [] u = "MB" -> 16]

Number(n) == [is |-> "number", n |-> n]
Text(t) == [is |-> "text", t |-> t]
Bytes(n, u) == [is |-> "bytes", n |-> n, unit |-> u]
Flag(b) == [is |-> "flag", b |-> b]
Map(f) == [is |-> "map", f |-> f]
List(s) == [is |-> "sequence", s |-> s]

Core(id, l1) == Map([id |-> Number(id), l1 |-> Text(l1)])
Cache(name, role, size, next) ==
    [name |-> Text(name), role |-> Text(role), size_bytes |-> size, next |-> Text(next)]
Owned(cache, owner) == IF owner = {} THEN cache
                       ELSE cache @@ [private_to |-> Number(CHOOSE n \in owner : TRUE)]
File(count, mapping, caches, memory) ==
    [schema_version |-> Number(1), cores |-> Map([count |-> Number(count), mapping |-> List(mapping)]),
     caches |-> List(caches), memory |-> memory]
NoMemory == Map(<<>>)

Targets == {"a", "b", "c", "Memory"}
Wirings ==
    {Map(File(cores, SubSeq(<<Core(0, la), Core(m, lb)>>, 1, mapped),
              <<Map(Owned(Cache("a", "L1", Number(8), na), {0})),
                Map(Owned(Cache(other, ra, Number(8), nb), ob)),
                Map(Cache("c", rc, Number(16), nc))>>, NoMemory)) :
        cores \in 1 .. 2, mapped \in 1 .. 2, la \in {"a", "x"}, lb \in {"a", "b"}, m \in 0 .. 1,
        na \in Targets, nb \in Targets \cup {"x"}, nc \in Targets, other \in {"b", "a"},
        ra \in {"L1", "L2"}, rc \in {"LLC"}, ob \in {{}, {1}}}

Pair(l1, llc) ==
    File(1, <<Core(0, "a")>>,
         <<Map(l1 @@ Owned(Cache("a", "L1", Bytes(2, "KB"), "b"), {0})),
           Map(llc @@ Cache("b", "LLC", Bytes(1, "MB"), "Memory"))>>, NoMemory)

Extra(key, values) == {<<>>} \cup {(key :> v) : v \in values}
Geometries ==
    {Map(Pair(size @@ line @@ ways, llc_line @@ owner)) :
        size \in Extra("size_bytes", {Number(0), Number(6), Bytes(3, "KB"), Number(16)}),
        line \in Extra("line_size", {Number(0), Number(1), Number(4), Number(3)}),
        ways \in Extra("associativity", {Number(0), Number(1), Number(3), Number(8)}),
        llc_line \in Extra("line_size", {Number(4)}), owner \in Extra("private_to", {Number(0)})}

Bad == {Text("none"), Text(""), Number(0), Number(9), Number(200), List(<<>>), Bytes(64, "KB"),
        Bytes(8, "MB"), Bytes(16, "MB"), Bytes(1, "TB"), Flag(FALSE), Text("FIFO"), Text("write-through")}
Good == Pair(<<>>, <<>>)
CacheKeys == DOMAIN CacheFields \cup {"unknown"}
Spoilt(f, keys) == {[k \in DOMAIN f \ {gone} |-> f[k]] : gone \in keys}
                   \cup {(k :> v) @@ f : k \in keys, v \in Bad}
WithCaches(i, f) == [Good EXCEPT !.caches.s[i].f = f]
Faults ==
    {Map(f) : f \in Spoilt(Good, RootKeys \cup {"unknown"})}
    \cup {Map(WithCaches(i, f)) : <<i, f>> \in {1} \X Spoilt(Good.caches.s[1].f, CacheKeys)
                                        \cup {2} \X Spoilt(Good.caches.s[2].f, CacheKeys)}
    \cup {Map([Good EXCEPT !.cores.f = f]) : f \in Spoilt(Good.cores.f, {"count", "mapping", "unknown"})}
    \cup {Map([Good EXCEPT !.cores.f.mapping.s[1].f = f]) :
            f \in Spoilt(Good.cores.f.mapping.s[1].f, {"id", "l1", "unknown"})}
    \cup {Map([Good EXCEPT !.memory.f = f]) : f \in Spoilt(<<>>, {"name", "delay_cycles", "unknown"})}

MCDocuments == Wirings \cup Geometries \cup Faults \cup {List(<<>>)}
MCSpec == ConfigurationSpec /\ WF_configuration_vars(ConfigurationNext)
=============================================================================
