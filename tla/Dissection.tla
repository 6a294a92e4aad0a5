----------------------------- MODULE Dissection -----------------------------
(***************************************************************************)
(* From a decrypted record to the lines written for it: the Lua shim's     *)
(* tree of recorded fields (lua/mod.rs, lua/tree.rs), the message that     *)
(* dissect_and_emit makes of it (orchestrator.rs), and the two writers     *)
(* that walk it when the frame is done (ek_output.rs).                     *)
(*                                                                         *)
(* A FrameFields lives in the heap, because subtrees are shared by         *)
(* reference between the script's handles and the messages.  A dissector   *)
(* is any sequence of calls on the handles it has.  A dotted name is the   *)
(* sequence of its segments.  What a field was given is not told apart:    *)
(* an entry is named by its place in the log of all adds.                  *)
(***************************************************************************)
EXTENDS Integers, Sequences, SequencesExt, FiniteSets

CONSTANTS
    ProtoFields,    \* [name, kind] of the registered fields
    Protos,         \* names of the Proto tables
    Arguments,      \* what follows the field in a call of tree:add
    Options,        \* [fields, explode, map_fields] of the command lines considered
    KeepsHandles,   \* whether dissectors use handles of their earlier calls
    MaxAdds,        \* bound: calls of tree:add while one frame is processed
    MaxMessages,    \* bound: records one frame completes
    None

Kinds == {"UInt", "Str", "Bytes"}
Names == {f.name : f \in ProtoFields} \union Protos

ASSUME FieldsAssumption == \A f \in ProtoFields : f.kind \in Kinds
ASSUME OptionsAssumption == \A o \in Options : o.fields \in Seq(Seq(STRING))
ASSUME NamesAssumption == None \notin Names
ASSUME HandlesAssumption == KeepsHandles \in BOOLEAN
ASSUME BoundsAssumption == MaxAdds \in Nat /\ MaxMessages \in Nat

VARIABLES
    heap,        \* Seq of FrameFields: [call, entries], call 0 once copied out
    root,        \* 0, or the accumulator of the running dissector
    messages,    \* DecodedMessages of this frame: [fields, root] in the heap
    log          \* history: every add, the accumulator it was made on, and the one it made

vars == <<heap, root, messages, log>>

Init ==
    /\ heap = << >>
    /\ root = 0
    /\ messages = << >>
    /\ log = << >>

-----------------------------------------------------------------------------
(* TreeItem: dispatch_add.                                                 *)

\* value_from_lua: the kind of value an argument makes, if any.
value_from_lua(arg) ==
    IF arg \in {"integer", "number", "UInt64"} THEN {"UInt"}
    ELSE IF arg = "string" THEN {"Str"} ELSE {}

\* The kind of the value tree:add(field, args) records.
Explicit(arg, otherwise) ==
    IF value_from_lua(arg) = {} THEN otherwise ELSE CHOOSE k \in value_from_lua(arg) : TRUE

\* UInt64 is userdata too: alone it is taken for a range, which it is not.
ValueOf(field, args) ==
    IF args = << >> THEN "UInt"
    ELSE IF Len(args) = 1
         THEN IF args[1] = "range" THEN field.kind
              ELSE IF args[1] = "UInt64" THEN "UInt" ELSE Explicit(args[1], "UInt")
    ELSE IF Len(args) = 2 /\ args[1] = "range" THEN Explicit(args[2], field.kind)
    ELSE Explicit(Last(args), "UInt")

\* A handle the running dissector can use: one of this call, or one it kept.
Usable(h) == heap[h].call = root \/ (KeepsHandles /\ heap[h].call # 0)

Record(fields, h, entry) == [fields EXCEPT ![h].entries = Append(@, entry)]

Logged(h, name, kind, made) ==
    log' = Append(log, [into |-> h, during |-> root, name |-> name, kind |-> kind, made |-> made])

AddField(h, field, args) ==
    LET kind == ValueOf(field, args)
    IN  /\ heap' = Record(heap, h, [name |-> field.name, kind |-> kind, child |-> 0,
                                    at |-> Len(log) + 1])
        /\ Logged(h, field.name, kind, 0)

\* tree:add(proto, ...): a child accumulator, recorded under the proto's name.
AddSubtree(h, proto) ==
    /\ heap' = Append(Record(heap, h, [name |-> proto, kind |-> "Tree", child |-> Len(heap) + 1,
                                       at |-> Len(log) + 1]),
                      [call |-> heap[h].call, entries |-> << >>])
    /\ Logged(h, proto, "Tree", Len(heap) + 1)

dispatch_add ==
    /\ root # 0
    /\ Len(log) < MaxAdds
    /\ \E h \in {i \in DOMAIN heap : Usable(i)} :
          \/ \E field \in ProtoFields, args \in Arguments : AddField(h, field, args)
          \/ \E proto \in Protos : AddSubtree(h, proto)
    /\ UNCHANGED <<root, messages>>

-----------------------------------------------------------------------------
(* LuaEngine::dissect and dissect_and_emit: one message for every record.  *)

Emit(fields, tree) == messages' = Append(messages, [fields |-> fields, root |-> tree])

Empty == [call |-> 0, entries |-> << >>]

\* A dissector is registered for the port: it is called with a fresh tree.
CallDissector ==
    /\ root = 0
    /\ Len(messages) < MaxMessages
    /\ root' = Len(heap) + 1
    /\ heap' = Append(heap, [call |-> Len(heap) + 1, entries |-> << >>])
    /\ UNCHANGED <<messages, log>>

\* None is registered.
NoDissector ==
    /\ root = 0
    /\ Len(messages) < MaxMessages
    /\ heap' = Append(heap, Empty)
    /\ Emit(Len(heap) + 1, 0)
    /\ UNCHANGED <<root, log>>

\* Mutant of CloneOut: the message shares the accumulator (Rc, not RefCell::clone).
ShareOut == heap' = heap /\ Emit(root, root)

\* fields.borrow().clone(): the entries are copied, the subtrees they name are
\* not (Rc).
CloneOut ==
    /\ heap' = Append(heap, [call |-> 0, entries |-> heap[root].entries])
    /\ Emit(Len(heap) + 1, root)

DissectorReturns ==
    /\ root # 0
    /\ CloneOut
    /\ root' = 0
    /\ UNCHANGED log

\* What it recorded before the error is not used.
DissectorFails ==
    /\ root # 0
    /\ heap' = Append(heap, Empty)
    /\ Emit(Len(heap) + 1, 0)
    /\ root' = 0
    /\ UNCHANGED log

\* The main loop writes the messages once the whole frame is processed; no
\* accumulator of the frame is seen again.
WriteFrame ==
    /\ root = 0
    /\ messages # << >>
    /\ heap' = << >>
    /\ messages' = << >>
    /\ log' = << >>
    /\ UNCHANGED root

Next ==
    \/ dispatch_add \/ CallDissector \/ NoDissector
    \/ DissectorReturns \/ DissectorFails \/ WriteFrame

Spec == Init /\ [][Next]_vars

-----------------------------------------------------------------------------
(* EkWriter: every value of a field, depth first.  Both writers are        *)
(* modelled by the keys and values in the order they write them.           *)

Token(t, key, at) == [t |-> t, key |-> key, at |-> at]
Punct(t) == <<Token(t, << >>, 0)>>
Key(name) == <<Token("key", name, 0)>>

\* Mutant of values_for: a work list that takes the last entry first.
values_last_first(n, field) ==
    LET collect[m \in DOMAIN heap] ==
            FlattenSeq(Reverse([i \in DOMAIN heap[m].entries |->
                LET e == heap[m].entries[i]
                IN  IF e.kind = "Tree" THEN collect[e.child]
                    ELSE IF e.name = field THEN <<e.at>> ELSE << >>]))
    IN  collect[n]

values_for(n, field) ==
    LET collect_values_for[m \in DOMAIN heap] ==
            FlattenSeq([i \in DOMAIN heap[m].entries |->
                LET e == heap[m].entries[i]
                IN  IF e.kind = "Tree" THEN collect_values_for[e.child]
                    ELSE IF e.name = field THEN <<e.at>> ELSE << >>])
    IN  collect_values_for[n]

EnvelopeFields ==
    {<<"ip", "src">>, <<"ip", "dst">>, <<"tcp", "srcport">>, <<"tcp", "dstport">>,
     <<"tls", "app_data">>}

\* The data line: a key for each selected field that has a value.
write_message(o, n) ==
    FlattenSeq([i \in DOMAIN o.fields |->
        LET f == o.fields[i]
            values == IF f \in EnvelopeFields THEN <<0>> ELSE values_for(n, f)
        IN  IF values = << >> THEN << >>
            ELSE Key(f) \o [v \in DOMAIN values |-> Token("value", << >>, values[v])]])

-----------------------------------------------------------------------------
(* NdjsonWriter: the tokens of the lines it writes.                        *)

Envelope == {"ip", "tcp", "tls"}

\* What s has at the places in keep.
KeepAt(s, keep) == FlattenSeq([i \in DOMAIN s |-> IF i \in keep THEN <<s[i]>> ELSE << >>])

\* The groups selected, and those a dissector makes in the order selected.
groups(o) == {o.fields[i][1] : i \in DOMAIN o.fields}
generic_group_order(o) ==
    KeepAt([i \in DOMAIN o.fields |-> <<o.fields[i][1]>>],
           {i \in DOMAIN o.fields : /\ o.fields[i][1] \notin Envelope
                                    /\ \A j \in 1 .. i - 1 : o.fields[j][1] # o.fields[i][1]})

\* A group for each name, in the order of first occurrence.
grouped_entries(es) ==
    LET named(name) == KeepAt(es, {i \in DOMAIN es : es[i].name = name})
    IN  KeepAt([i \in DOMAIN es |-> [name |-> es[i].name, values |-> named(es[i].name)]],
               {i \in DOMAIN es : \A j \in 1 .. i - 1 : es[j].name # es[i].name})

\* grouped.iter().find(|(n, _)| n == name): the place of the group, or 0.
FindGroup(grouped, name) == SelectInSeq(grouped, LAMBDA g : g.name = name)

\* name.strip_prefix("<prefix>.").unwrap_or(name)
Short(prefix, name) ==
    IF IsStrictPrefix(prefix, name) THEN SubSeq(name, Len(prefix) + 1, Len(name)) ELSE name

\* obj[n][prefix]: what write_frame_fields_object writes for n under a prefix.
write_field_value(obj, e, prefix) ==
    IF e.kind = "Tree" THEN obj[e.child][prefix] ELSE <<Token("value", << >>, e.at)>>

\* The last string recorded for a leaf of an occurrence, by its short name.
LastStr(n, prefix, leaf) ==
    SelectLastInSeq(heap[n].entries, LAMBDA e : e.kind = "Str" /\ Short(prefix, e.name) = <<leaf>>)

write_map(values, prefix) ==
    LET pair(e) ==
            LET name == LastStr(e.child, prefix, "name")
                value == LastStr(e.child, prefix, "value")
            IN  IF name = 0 \/ value = 0 THEN << >>
                ELSE <<Token("value", << >>, heap[e.child].entries[name].at),
                       Token("value", << >>, heap[e.child].entries[value].at)>>
    IN  Punct("{")
        \o FlattenSeq([i \in DOMAIN values |->
               IF values[i].kind = "Tree" THEN pair(values[i]) ELSE << >>])
        \o Punct("}")

write_value_or_array(obj, values, prefix) ==
    IF Len(values) = 1 /\ values[1].kind # "Tree"
    THEN write_field_value(obj, values[1], prefix)
    ELSE Punct("[")
         \o FlattenSeq([i \in DOMAIN values |-> write_field_value(obj, values[i], prefix)])
         \o Punct("]")

write_named_value(o, obj, short_name, values, prefix) ==
    IF short_name \in o.map_fields
    THEN write_map(values, prefix)
    ELSE write_value_or_array(obj, values, prefix)

\* One level, the ones below it being in obj.
Object(o, obj, n, prefix) ==
    LET grouped == grouped_entries(heap[n].entries)
    IN  Punct("{")
        \o FlattenSeq([g \in DOMAIN grouped |->
               LET short == Short(prefix, grouped[g].name)
               IN  Key(short) \o write_named_value(o, obj, short, grouped[g].values,
                                                   grouped[g].name)])
        \o Punct("}")

write_frame_fields_object(o) ==
    LET obj[n \in DOMAIN heap] == [prefix \in Names |-> Object(o, obj, n, prefix)]
    IN  obj

\* exploded: << >>, or the one occurrence of o.explode this line is for.
write_group(o, grouped, exploded, group) ==
    LET obj == write_frame_fields_object(o)
        found == FindGroup(grouped, group)
    IN  IF exploded # << >> /\ group = o.explode
        THEN Key(group) \o write_field_value(obj, exploded[1], group)
        ELSE IF found = 0 THEN << >>
        ELSE Key(group) \o write_named_value(o, obj, group, grouped[found].values, group)

write_one_tls_record(o, grouped, exploded) ==
    LET order == generic_group_order(o)
    IN  Punct("{")
        \o FlattenSeq([i \in 1 .. 3 |->
               LET g == <<"ip", "tcp", "tls">>[i] IN IF g \in groups(o) THEN Key(<<g>>) ELSE << >>])
        \o FlattenSeq([i \in DOMAIN order |-> write_group(o, grouped, exploded, order[i])])
        \o Punct("}")

\* Mutant of write_tls_record: a record without the exploded group is dropped.
write_only_exploded(o, n) ==
    LET grouped == grouped_entries(heap[n].entries)
        found == FindGroup(grouped, o.explode)
    IN  IF o.explode # None
        THEN IF found = 0 THEN << >>
             ELSE [i \in DOMAIN grouped[found].values |->
                      write_one_tls_record(o, grouped, <<grouped[found].values[i]>>)]
        ELSE <<write_one_tls_record(o, grouped, << >>)>>

write_tls_record(o, n) ==
    LET grouped == grouped_entries(heap[n].entries)
        found == FindGroup(grouped, o.explode)
    IN  IF o.explode # None /\ found # 0
        THEN [i \in DOMAIN grouped[found].values |->
                 write_one_tls_record(o, grouped, <<grouped[found].values[i]>>)]
        ELSE <<write_one_tls_record(o, grouped, << >>)>>

-----------------------------------------------------------------------------
(* Properties, stated on the log of adds.                                  *)

\* The adds that belong to a message: those made on its tree while its
\* dissector ran, and, at any time before it is written, on a subtree of it.
AddsOf(m) ==
    LET in[i \in DOMAIN log] ==
            \/ log[i].into = m.root /\ log[i].during = m.root
            \/ \E j \in 1 .. i - 1 : log[j].made = log[i].into /\ in[j]
    IN  {i \in DOMAIN log : in[i]}

LeavesOf(m) == {i \in AddsOf(m) : log[i].kind # "Tree"}

\* -e finds every value of a field at whatever depth it was recorded, under its own
\* key, each once and none of another message: neither the copy made when the
\* dissector returns, nor an add through a handle kept from an earlier call, nor a
\* failed call loses, repeats or leaks a value; and a field that did not fire has
\* its key "omitted entirely".  A field selected twice is written twice, and the
\* name of an envelope field means the envelope (FrameFields::values_for,
\* EkWriter::write_message).
EkSelectsEveryLeaf ==
    root = 0 => \A o \in Options : \A i \in DOMAIN messages :
        LET line == write_message(o, messages[i].fields)
            shown == {k \in DOMAIN line : line[k].t = "value" /\ line[k].at # 0}
            selected == ToSet(o.fields) \ EnvelopeFields
            fired == {j \in LeavesOf(messages[i]) : log[j].name \in selected}
        IN  /\ {line[k].at : k \in shown} = fired
            /\ IsInjective(o.fields) => \A j, k \in shown : line[j].at = line[k].at => j = k
            /\ \A k \in shown : \E h \in 1 .. k - 1 :
                  /\ line[h] = Token("key", log[line[k].at].name, 0)
                  /\ \A l \in h + 1 .. k : line[l].t = "value"
            /\ {line[k].key : k \in {k \in DOMAIN line : line[k].t = "key"}}
                  = {log[j].name : j \in fired} \union (EnvelopeFields \intersect ToSet(o.fields))

\* The add that made the accumulator of add i, and all above it.
Parent(i) == {j \in DOMAIN log : log[j].made = log[i].into}
Above(i) ==
    LET up[j \in DOMAIN log] == {j} \union UNION {up[k] : k \in Parent(j)}
    IN  up[i]

ShortOf(i) ==
    IF Parent(i) = {} THEN log[i].name
    ELSE Short(log[CHOOSE j \in Parent(i) : TRUE].name, log[i].name)

\* Collapsed by --ndjson-map; the group that is exploded is not.
Collapsed(o, i) == ShortOf(i) \in o.map_fields /\ ~(Parent(i) = {} /\ log[i].name = o.explode)

\* The last string add for a leaf of the occurrence that add p made.
IsLast(i, p, leaf) ==
    LET same == {j \in DOMAIN log : /\ log[j].into = log[p].made
                                    /\ log[j].kind = "Str"
                                    /\ ShortOf(j) = <<leaf>>}
    IN  i \in same /\ \A j \in same : j <= i

\* Leaf i is kept: nothing around it is collapsed, or it is the name or the
\* value of a collapsed occurrence that has both, whatever its own name.
Kept(o, i) ==
    LET around == {j \in Above(i) : Collapsed(o, j)}
    IN  \/ around = {}
        \/ \E p \in Parent(i) :
              /\ around \ {i} = {p}
              /\ IsLast(i, p, "name") \/ IsLast(i, p, "value")
              /\ \E j, k \in DOMAIN log : IsLast(j, p, "name") /\ IsLast(k, p, "value")

\* The places of a line's values, and that they are S, each once.
ValuesAt(line) == {k \in DOMAIN line : line[k].t = "value"}
ShowsOnce(line, S) ==
    /\ {line[k].at : k \in ValuesAt(line)} = S
    /\ \A j, k \in ValuesAt(line) : line[j].at = line[k].at => j = k

\* The tokens of a message's lines are exactly the leaves of the selected groups
\* that --ndjson-map does not collapse: on every line once, except that of N
\* occurrences of the exploded group each is on a line of its own; and a message
\* is never without a line, nor a line without its selected envelope, "so a TLS
\* record's raw decrypted tls.app_data never becomes invisible".
NdjsonShowsEveryLeaf ==
    root = 0 => \A o \in Options : \A i \in DOMAIN messages :
        LET m == messages[i]
            lines == write_tls_record(o, m.fields)
            tops == {j \in AddsOf(m) : Parent(j) = {}}
            selected == {j \in tops : \E g \in groups(o) \ Envelope : log[j].name = <<g>>}
            split == {j \in tops : log[j].name = o.explode}
            under(S) == {j \in LeavesOf(m) : Kept(o, j) /\ Above(j) \intersect S # {}}
        IN  /\ \/ split = {} /\ Len(lines) = 1 /\ ShowsOnce(lines[1], under(selected))
               \/ /\ split # {}
                  /\ \E of \in [DOMAIN lines -> split] :
                        /\ \A a, b \in DOMAIN lines : a < b => of[a] < of[b]
                        /\ \A j \in split : \E n \in DOMAIN lines : of[n] = j
                        /\ \A n \in DOMAIN lines :
                              ShowsOnce(lines[n], under(selected \ (split \ {of[n]})))
            /\ \A n \in DOMAIN lines : \A g \in Envelope \intersect groups(o) :
                  \E k \in DOMAIN lines[n] : lines[n][k] = Token("key", <<g>>, 0)

\* Values of one field recorded on one accumulator are written in the order
\* recorded, by both writers; across accumulators the order is that of the
\* subtrees, not of the calls.
SiblingsInOrder ==
    root = 0 => \A i \in DOMAIN messages :
        LET siblings(a, b) == log[a].into = log[b].into /\ log[a].name = log[b].name
        IN  /\ \A f \in Names :
                  LET vs == values_for(messages[i].fields, f)
                  IN  \A a, b \in DOMAIN vs : a < b /\ siblings(vs[a], vs[b]) => vs[a] < vs[b]
            /\ \A o \in Options :
                  LET lines == write_tls_record(o, messages[i].fields)
                  IN  \A n \in DOMAIN lines : \A a, b \in ValuesAt(lines[n]) :
                        a < b /\ siblings(lines[n][a].at, lines[n][b].at)
                            => lines[n][a].at < lines[n][b].at
=============================================================================
