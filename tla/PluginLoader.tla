---------------------------- MODULE PluginLoader ----------------------------
(***************************************************************************)
(* Loading the Lua dissectors (plugin_loader.rs) into the shared port      *)
(* registry (lua/dissector_table.rs): the directories of the command line  *)
(* in turn, then its scripts.  A plugin's top level registers its ports    *)
(* one after the other and may fail at any of them.                        *)
(***************************************************************************)
EXTENDS Integers, Sequences, SequencesExt, FiniteSets, FiniteSetsExt

CONSTANTS
    plugin_dirs,    \* Seq of directories: None if missing, or the set of their plugins
    lua_scripts,    \* Seq of plugins
    Ports,
    None

\* A plugin: its place in the order of file names, its extension, the ports it
\* registers.
Plugin == [path : Nat, lua : BOOLEAN, ports : SUBSET Ports]

ASSUME PluginsAssumption ==
    /\ plugin_dirs \in Seq({None} \union SUBSET Plugin)
    /\ \A d \in DOMAIN plugin_dirs : plugin_dirs[d] # None => IsFiniteSet(plugin_dirs[d])
    /\ lua_scripts \in Seq(Plugin)

VARIABLES
    dirs_read,     \* directories scanned so far
    paths,         \* Seq of plugins of the scanned directory, or of the scripts, left to load
    tls_port_registry,  \* port -> [from, plugin] that registered it last, or None
    listed,        \* history: for every directory read, the plugins its iterator returned
    load           \* "running", "done", "failed", or "moved" into the orchestrator

loaderVars == <<dirs_read, paths, tls_port_registry, listed, load>>

Scripts == Len(plugin_dirs) + 1

LoaderInit ==
    /\ dirs_read = 0
    /\ paths = << >>
    /\ tls_port_registry = [p \in Ports |-> None]
    /\ listed = << >>
    /\ load = "running"

\* Mutant of Sorted: in the order the file system lists them.
AsListed(listing) == TRUE

Sorted(listing) ==
    \A i, j \in DOMAIN listing : i < j => listing[i].path <= listing[j].path

\* read_dir lists the entries in whatever order the file system has, and sort
\* puts them in theirs; an entry that cannot be read is skipped (entry.ok()), a
\* directory that does not exist is empty.
load_directory ==
    /\ load = "running"
    /\ dirs_read < Len(plugin_dirs)
    /\ paths = << >>
    /\ dirs_read' = dirs_read + 1
    /\ LET dir == plugin_dirs[dirs_read + 1]
       IN  \E entries \in IF dir = None THEN {{}} ELSE SUBSET dir :
              /\ \E listing \in SetToSeqs({p \in entries : p.lua}) :
                    Sorted(listing) /\ paths' = listing
              /\ listed' = Append(listed, entries)
    /\ UNCHANGED <<tls_port_registry, load>>

\* The directory exists but cannot be read.
ReadDirFails ==
    /\ load = "running"
    /\ dirs_read < Len(plugin_dirs)
    /\ paths = << >>
    /\ plugin_dirs[dirs_read + 1] # None
    /\ load' = "failed"
    /\ UNCHANGED <<dirs_read, paths, tls_port_registry, listed>>

load_scripts ==
    /\ load = "running"
    /\ dirs_read = Len(plugin_dirs)
    /\ paths = << >>
    /\ dirs_read' = Scripts
    /\ paths' = lua_scripts
    /\ UNCHANGED <<tls_port_registry, listed, load>>

\* DissectorTable.get("tls.port"):add(port, proto) for each of its ports:
\* HashMap::insert replaces.
load_plugin_file ==
    /\ load = "running"
    /\ paths # << >>
    /\ paths' = Tail(paths)
    /\ tls_port_registry' =
          [p \in Ports |-> IF p \in Head(paths).ports
                           THEN [from |-> dirs_read, plugin |-> Head(paths)]
                           ELSE tls_port_registry[p]]
    /\ UNCHANGED <<dirs_read, listed, load>>

\* Unreadable, or its Lua failed: the program ends, whatever was registered.
PluginFails ==
    /\ load = "running"
    /\ paths # << >>
    /\ load' = "failed"
    /\ UNCHANGED <<dirs_read, paths, tls_port_registry, listed>>

AllLoaded ==
    /\ load = "running"
    /\ dirs_read = Scripts
    /\ paths = << >>
    /\ load' = "done"
    /\ UNCHANGED <<dirs_read, paths, tls_port_registry, listed>>

LoaderNext ==
    \/ load_directory \/ ReadDirFails \/ load_scripts \/ load_plugin_file
    \/ PluginFails \/ AllLoaded

-----------------------------------------------------------------------------
\* Two plugins that register one port: an explicit script wins over any
\* directory, the later script over the earlier, the later directory over the
\* earlier and, in one directory, the greater file name, so that "which plugin
\* wins ... doesn't depend on filesystem iteration order"; and a port that some
\* listed plugin registers always has a dissector (load_directory, Registry).
LastPluginWins ==
    load = "done" => \A port \in Ports :
        LET script == {s \in DOMAIN lua_scripts : port \in lua_scripts[s].ports}
            of(d) == {p \in listed[d] : p.lua /\ port \in p.ports}
            dir == {d \in DOMAIN listed : of(d) # {}}
            won == tls_port_registry[port]
        IN  IF script # {}
            THEN won = [from |-> Scripts, plugin |-> lua_scripts[Max(script)]]
            ELSE IF dir = {} THEN won = None
            ELSE /\ won.from = Max(dir)
                 /\ won.plugin \in of(Max(dir))
                 /\ \A p \in of(Max(dir)) : p.path <= won.plugin.path
=============================================================================
