---------------------------- MODULE MCDissection ----------------------------
(***************************************************************************)
(* TLC instance of Dissection: a protocol p whose messages carry fields    *)
(* with a name and a value, as in the example of --ndjson-map.             *)
(***************************************************************************)
EXTENDS Dissection

MCProtos == {<<"p">>, <<"p", "f">>}
MCProtoFields ==
    {[name |-> <<"p", "f", "name">>, kind |-> "Str"],
     [name |-> <<"p", "f", "value">>, kind |-> "UInt"]}

\* A value read from the bytes, and one the dissector formatted itself.
MCArguments == {<<"range">>, <<"range", "string">>}

Option(explode, map_fields) ==
    [fields |-> << <<"ip", "src">>, <<"tls", "app_data">>, <<"p">>, <<"p", "f", "value">> >>,
     explode |-> explode, map_fields |-> map_fields]

\* A map at the top, an exploded group with a map inside it whose leaf is a map
\* field too, and an exploded group that is not selected.
MCOptions == {Option(None, {<<"p">>}), Option(<<"p">>, {<<"f">>, <<"name">>}), Option(<<"p", "f">>, {})}
=============================================================================
