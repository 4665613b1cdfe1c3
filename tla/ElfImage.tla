------------------------------- MODULE ElfImage -------------------------------
(***************************************************************************)
(* Data regions and object addresses of a linked image.  Sections are read *)
(* first, one by one; an image without data sections is described by its   *)
(* program headers instead.  Then its object symbols are read and bound to *)
(* addresses.  Names of regions, alignment and the machine are left out.   *)
(***************************************************************************)
EXTENDS Integers, Sequences, FiniteSets, Functions, SequencesExt

CONSTANTS
    Images,                        \* inputs
    AddressBits                    \* width of an address

ASSUME ImageAssumption ==
    /\ AddressBits \in Nat
    /\ \A i \in Images :
          /\ Len(i.symbols) \in Nat /\ DOMAIN i.symbols = 1 .. Len(i.symbols)
          /\ \A s \in DOMAIN i.symbols : i.symbols[s].address \in Nat /\ i.symbols[s].size \in Nat
          /\ Len(i.headers) \in Nat /\ DOMAIN i.headers = 1 .. Len(i.headers)
          /\ \A h \in DOMAIN i.headers :
                /\ i.headers[h].address \in Nat /\ i.headers[h].offset \in Nat
                /\ i.headers[h].file_size \in Nat /\ i.headers[h].memory_size \in Nat

VARIABLES
    image,                         \* type, sections, headers, symbols, file_size
    at,                            \* next section, header, symbol or binding
    loads, tls_headers,            \* program headers read
    regions, symbols,              \* ElfDataRegions
    objects,                       \* ObjectAddressModel
    elf_stage                      \* what is read next, or how it ended

elf_vars == <<image, at, loads, tls_headers, regions, symbols, objects, elf_stage>>

NoObjects == [id \in {} |-> [base |-> 0, size |-> 0]]

ElfStarts(input) ==
    /\ image = input
    /\ at = 1
    /\ loads = <<>> /\ tls_headers = <<>>
    /\ regions = <<>> /\ symbols = <<>>
    /\ objects = NoObjects
    /\ elf_stage = "opening"

ElfInit == \E input \in Images : ElfStarts(input)

IsAddress(n) == n < 2^AddressBits

image_relative == image.type = "DYN"

OpenImage ==
    /\ elf_stage = "opening"
    /\ elf_stage' = IF image.type \in {"EXEC", "DYN"} THEN "sections" ELSE "failed"
    /\ UNCHANGED <<image, at, loads, tls_headers, regions, symbols, objects>>

Reads(stage, items) == elf_stage = stage /\ at <= Len(items)
HasRead(stage, items) == elf_stage = stage /\ at > Len(items)

-----------------------------------------------------------------------------
Earlier(a, b) == \/ a.address < b.address
                 \/ a.address = b.address /\ a.source < b.source

\* The n-th has n - 1 before it.
InOrder(S, before) ==
    [n \in 1 .. Cardinality(S) |->
        CHOOSE x \in S : Cardinality({y \in S : <<y, x>> \in before}) = n - 1]

\* No region is there twice.
Sorted(unsorted) ==
    LET S == Range(unsorted)
    IN  InOrder(S, {p \in S \X S : Earlier(p[1], p[2])})

IsDataSection(section) ==
    section.alloc /\ ~section.exec /\ section.size # 0 /\ ~section.tls

classify_section(section) ==
    IF section.nobits THEN "zero" ELSE IF section.write THEN "initialized" ELSE "readonly"

ReadSection ==
    /\ Reads("sections", image.sections)
    /\ LET section == image.sections[at]
       IN  regions' = IF ~IsDataSection(section) THEN regions
                      ELSE Append(regions,
                               [kind |-> classify_section(section), source |-> at,
                                address |-> section.address, memory_size |-> section.size,
                                file_offset |-> section.offset,
                                file_size |-> IF section.nobits THEN 0 ELSE section.size])
    /\ at' = at + 1
    /\ UNCHANGED <<image, loads, tls_headers, symbols, objects, elf_stage>>

SectionsRead ==
    /\ HasRead("sections", image.sections)
    /\ regions' = Sorted(regions)
    /\ elf_stage' = IF regions = <<>> THEN "headers" ELSE "symbols"
    /\ at' = 1
    /\ UNCHANGED <<image, loads, tls_headers, symbols, objects>>

-----------------------------------------------------------------------------
\* A segment whose end or file range leaves the address space or the file is
\* refused, whatever it holds.
HeaderFits(header) ==
    /\ IsAddress(header.address + header.file_size)
    /\ IsAddress(header.address + header.memory_size)
    /\ IsAddress(header.offset + header.file_size)
    /\ header.file_size <= header.memory_size
    /\ header.offset + header.file_size <= image.file_size

IsSegment(header) == header.type \in {"LOAD", "TLS"}

HeaderRange(header, index) ==
    [start |-> header.address, file_end |-> header.address + header.file_size,
     memory_end |-> header.address + header.memory_size,
     file_offset |-> header.offset, write |-> header.write, source |-> index]

Kept(list, kept, index) ==
    IF kept THEN Append(list, HeaderRange(image.headers[index], index)) ELSE list

ReadHeader ==
    /\ Reads("headers", image.headers)
    /\ LET header == image.headers[at]
       IN  /\ IsSegment(header) => HeaderFits(header)
           /\ tls_headers' = Kept(tls_headers, header.type = "TLS" /\ header.memory_size # 0, at)
           /\ loads' = Kept(loads, /\ header.type = "LOAD" /\ header.memory_size # 0
                                   /\ ~header.exec, at)
    /\ at' = at + 1
    /\ UNCHANGED <<image, regions, symbols, objects, elf_stage>>

RefuseHeader ==
    /\ Reads("headers", image.headers)
    /\ IsSegment(image.headers[at]) /\ ~HeaderFits(image.headers[at])
    /\ elf_stage' = "failed"
    /\ UNCHANGED <<image, at, loads, tls_headers, regions, symbols, objects>>

HeadersRead ==
    /\ HasRead("headers", image.headers)
    /\ elf_stage' = "loads"
    /\ at' = 1
    /\ UNCHANGED <<image, loads, tls_headers, regions, symbols, objects>>

Larger(a, b) == IF a > b THEN a ELSE b
Smaller(a, b) == IF a < b THEN a ELSE b

TlsHeaders == {tls_headers[i] : i \in DOMAIN tls_headers}

\* Mutant: a load is not cut where a TLS block ends in it.
Boundaries_at_start_only(load) ==
    {load.start, load.file_end, load.memory_end}
    \cup {Larger(load.start, tls.start) :
            tls \in {t \in TlsHeaders : t.start < load.memory_end /\ t.memory_end > load.start}}

Boundaries(load) ==
    {load.start, load.file_end, load.memory_end}
    \cup UNION {{Larger(load.start, tls.start),
                 Larger(load.start, Smaller(load.memory_end, tls.memory_end))} :
                   tls \in {t \in TlsHeaders :
                               t.start < load.memory_end /\ t.memory_end > load.start}}

overlaps_tls(start, end) ==
    \E tls \in TlsHeaders : start >= tls.start /\ end <= tls.memory_end

\* Parts of a load from one boundary to the next, those in a TLS block left out.
DataParts(load) ==
    {part \in [start : Boundaries(load), end : Boundaries(load)] :
        /\ part.start < part.end
        /\ \A cut \in Boundaries(load) : cut <= part.start \/ cut >= part.end
        /\ ~overlaps_tls(part.start, part.end)}

Parts(load) ==
    LET S == DataParts(load)
    IN  InOrder(S, {p \in S \X S : p[1].start < p[2].start})

make_region(load, part) ==
    LET file_backed == part.start < load.file_end
    IN  [kind |-> IF ~file_backed THEN "zero"
                  ELSE IF load.write THEN "initialized" ELSE "readonly",
         source |-> load.source, address |-> part.start,
         memory_size |-> part.end - part.start,
         file_offset |-> load.file_offset + (part.start - load.start),
         file_size |-> IF file_backed THEN part.end - part.start ELSE 0]

RegionsOf(load) == [i \in DOMAIN Parts(load) |-> make_region(load, Parts(load)[i])]

OffsetsFit(load) ==
    \A i \in DOMAIN RegionsOf(load) : IsAddress(RegionsOf(load)[i].file_offset)

AppendLoad ==
    /\ Reads("loads", loads) /\ OffsetsFit(loads[at])
    /\ regions' = regions \o RegionsOf(loads[at])
    /\ at' = at + 1
    /\ UNCHANGED <<image, loads, tls_headers, symbols, objects, elf_stage>>

RefuseLoad ==
    /\ Reads("loads", loads) /\ ~OffsetsFit(loads[at])
    /\ elf_stage' = "failed"
    /\ UNCHANGED <<image, at, loads, tls_headers, regions, symbols, objects>>

\* Symbols are not read from an image without data sections.
LoadsRead ==
    /\ HasRead("loads", loads)
    /\ regions' = Sorted(regions)
    /\ elf_stage' = "read"
    /\ UNCHANGED <<image, at, loads, tls_headers, symbols, objects>>

-----------------------------------------------------------------------------
RegionsOfSection(section) == {i \in DOMAIN regions : regions[i].source = section}

IsDataSymbol(symbol) ==
    symbol.type = "OBJECT" /\ symbol.name # "" /\ RegionsOfSection(symbol.section) # {}

\* The same symbol is in the static and in the dynamic table.
Seen(symbol) == \E i \in DOMAIN symbols : symbols[i] = symbol

ReadSymbol ==
    /\ Reads("symbols", image.symbols)
    /\ LET symbol == image.symbols[at]
       IN  symbols' = IF IsDataSymbol(symbol) /\ ~Seen(symbol) THEN Append(symbols, symbol)
                                                               ELSE symbols
    /\ at' = at + 1
    /\ UNCHANGED <<image, loads, tls_headers, regions, objects, elf_stage>>

\* Orders of the symbols by address; std::sort picks one of them.
ByAddress ==
    {ordered \in {[i \in DOMAIN symbols |-> symbols[order[i]]] :
                     order \in Bijection(DOMAIN symbols, DOMAIN symbols)} :
        \A i, j \in DOMAIN symbols : i < j => ordered[i].address <= ordered[j].address}

SymbolsRead ==
    /\ HasRead("symbols", image.symbols)
    /\ symbols' \in ByAddress
    /\ elf_stage' = "read"
    /\ UNCHANGED <<image, at, loads, tls_headers, regions, objects>>

global(name) == <<"global", name>>

\* build_elf_object_addresses is called on what was read.
StartBinding ==
    /\ elf_stage = "read"
    /\ elf_stage' = IF symbols = <<>> THEN "failed" ELSE "binding"
    /\ at' = 1
    /\ UNCHANGED <<image, loads, tls_headers, regions, symbols, objects>>

Address(symbol) == [base |-> symbol.address, size |-> symbol.size]

\* Mutant: only where an object begins is compared.
Ambiguous_base_only(symbol) ==
    /\ global(symbol.name) \in DOMAIN objects
    /\ objects[global(symbol.name)].base # symbol.address

Ambiguous(symbol) ==
    global(symbol.name) \in DOMAIN objects /\ objects[global(symbol.name)] # Address(symbol)

BindSymbol ==
    /\ Reads("binding", symbols) /\ ~Ambiguous(symbols[at])
    /\ objects' = [id \in DOMAIN objects \cup {global(symbols[at].name)} |->
                      IF id \in DOMAIN objects THEN objects[id] ELSE Address(symbols[at])]
    /\ at' = at + 1
    /\ UNCHANGED <<image, loads, tls_headers, regions, symbols, elf_stage>>

RefuseAmbiguous ==
    /\ Reads("binding", symbols) /\ Ambiguous(symbols[at])
    /\ elf_stage' = "failed"
    /\ UNCHANGED <<image, at, loads, tls_headers, regions, symbols, objects>>

SymbolsBound ==
    /\ HasRead("binding", symbols)
    /\ elf_stage' = "bound"
    /\ UNCHANGED <<image, at, loads, tls_headers, regions, symbols, objects>>

ElfNext ==
    \/ OpenImage \/ ReadSection \/ SectionsRead \/ ReadHeader \/ RefuseHeader
    \/ HeadersRead \/ AppendLoad \/ RefuseLoad \/ LoadsRead \/ ReadSymbol
    \/ SymbolsRead \/ StartBinding \/ BindSymbol \/ RefuseAmbiguous \/ SymbolsBound

ElfSpec == ElfInit /\ [][ElfNext]_elf_vars
-----------------------------------------------------------------------------
Bytes(address, size) == address .. address + size - 1

Segments(type) ==
    {i \in DOMAIN image.headers :
        image.headers[i].type = type /\ ~(type = "LOAD" /\ image.headers[i].exec)}
Memory(i) == Bytes(image.headers[i].address, image.headers[i].memory_size)
RegionBytes(r) == Bytes(regions[r].address, regions[r].memory_size)

\* The regions of an image described by its segments are its data, byte for byte:
\* every byte of a segment that is not code and not a TLS block is in exactly one
\* region of that segment, file-backed exactly when the file holds it and at its
\* offset there, and the regions are in address order (parse_typed, append_load).
RegionsAreData ==
    elf_stage \in {"read", "binding", "bound"} /\ loads # <<>> =>
        LET tls == UNION {Memory(i) : i \in Segments("TLS")}
            Of(i) == {r \in DOMAIN regions : regions[r].source = i}
        IN  /\ \A i \in Segments("LOAD") : \A b \in Memory(i) :
                  Cardinality({r \in Of(i) : b \in RegionBytes(r)}) = IF b \in tls THEN 0 ELSE 1
            /\ \A r \in DOMAIN regions :
                  LET header == image.headers[regions[r].source]
                      file == Bytes(header.address, header.file_size)
                  IN  /\ regions[r].memory_size > 0
                      /\ RegionBytes(r) \subseteq Memory(regions[r].source)
                      /\ RegionBytes(r) \cap file = Bytes(regions[r].address, regions[r].file_size)
                      /\ regions[r].file_offset - regions[r].address
                            = header.offset - header.address
            /\ \A r, s \in DOMAIN regions :
                  r < s => regions[r].address <= regions[s].address

\* An address model has one address for each name, that of every data symbol of
\* that name, and an image where two of them differ has none (append_symbol,
\* build_elf_object_addresses).
ObjectsAreSymbols ==
    LET data == {s \in {image.symbols[i] : i \in DOMAIN image.symbols} : IsDataSymbol(s)}
        ambiguous == \E s, t \in data : s.name = t.name /\ Address(s) # Address(t)
    IN  elf_stage = "bound" =>
            /\ ~ambiguous
            /\ DOMAIN objects = {global(s.name) : s \in data}
            /\ \A s \in data : objects[global(s.name)] = Address(s)
=============================================================================
