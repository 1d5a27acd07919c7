--------------------------- MODULE PluginRegistry ---------------------------
(***************************************************************************)
(* The plugins of a project: what loadPlugins accepts (config/index.ts),   *)
(* which plugin a runtime and an override resolve to (config/index.ts,     *)
(* lib.ts), and what the first word of a command line names (index.ts).    *)
(*                                                                         *)
(* A plugin is [name, hooks, overrides, commands, default, fits]: fits     *)
(* says that its sections of the configuration pass its schemas.  A        *)
(* project is [refs, runtimes]: the sequence of plugins it declares, and   *)
(* the plugin each runtime names, NoRuntimes without a map.                *)
(***************************************************************************)
EXTENDS Sequences, Integers, Functions

None == "none"
NoRuntimes == <<>>

Scripts == {"act", "build", "command", "down", "env", "install", "list", "queue",
            "secret", "status", "sync", "up"}
BUILTIN_COMMANDS == (Scripts \ {"queue"}) \cup {"help", "pull"}
VALID_OVERRIDE_HOOKS == {"build", "up", "down", "status", "run"}
RUNTIME_DISPATCHED_HOOKS == {"up", "down", "status", "run"}

Names(plugins) == {plugins[i].name : i \in DOMAIN plugins}

\* What loadPlugins checks of a definition by itself.
DefinitionFits(plugin) ==
    /\ plugin.name # None
    /\ IsInjective(plugin.commands)
    /\ plugin.default # None => plugin.default \in Range(plugin.commands)
    /\ plugin.name \notin BUILTIN_COMMANDS
    /\ plugin.fits
    /\ plugin.overrides \subseteq VALID_OVERRIDE_HOOKS

\* And of a definition beside those loaded before it.
PairsFit(plugins) ==
    \A i, j \in DOMAIN plugins :
        i < j => /\ plugins[i].name # plugins[j].name
                 /\ plugins[i].overrides \cap plugins[j].overrides
                        \subseteq RUNTIME_DISPATCHED_HOOKS

RuntimesFit(project) ==
    project.runtimes # NoRuntimes =>
        \A r \in DOMAIN project.runtimes : project.runtimes[r] \in Names(project.refs)

\* True when loadPlugins returns: at once when no plugin is declared.
loadPlugins(project) ==
    \/ project.refs = <<>>
    \/ /\ \A i \in DOMAIN project.refs : DefinitionFits(project.refs[i])
       /\ PairsFit(project.refs)
       /\ RuntimesFit(project)

Throws == "throws"

\* resolveRuntimePlugin: the plugin of a runtime, None to leave it open.
resolveRuntimePlugin(project, runtime) ==
    IF project.runtimes = NoRuntimes
    THEN IF runtime = None THEN None ELSE Throws
    ELSE LET name == IF runtime = None THEN "default" ELSE runtime IN
         IF name \in DOMAIN project.runtimes THEN project.runtimes[name] ELSE Throws

\* getOverride: the owner of a hook, the first of them or the named plugin.
getOverride(plugins, hook, named) ==
    LET own == {i \in DOMAIN plugins : hook \in plugins[i].overrides}
    IN  IF named = None
        THEN IF own = {} THEN None
             ELSE plugins[CHOOSE i \in own : \A j \in own : i <= j].name
        ELSE IF \E i \in own : plugins[i].name = named THEN named ELSE Throws

\* Plugins are declared in a sequence, none is called as nothing is, and a map of
\* runtimes names a default.
RegistryAssumption(project) ==
    /\ project.refs \in Seq(Range(project.refs)) /\ Throws \notin Names(project.refs)
    /\ project.runtimes # NoRuntimes => "default" \in DOMAIN project.runtimes

-----------------------------------------------------------------------------
(* What a project whose plugins were loaded can rely on. *)

\* A name is one plugin's: `nopo <plugin>', a batch and a runtime find the plugin
\* meant, whichever order the plugins were declared in.
OneOfAName(project) ==
    loadPlugins(project) => \A i, j \in DOMAIN project.refs :
        project.refs[i].name = project.refs[j].name => i = j

\* A build has one owner, so that the order of declaration cannot choose it.
OneBuilder(project) ==
    loadPlugins(project) => \A i, j \in DOMAIN project.refs :
        "build" \in project.refs[i].overrides \cap project.refs[j].overrides => i = j

\* Each runtime of the map resolves to one of the plugins, and its override is
\* that plugin's or is refused.
RuntimeIsDispatched(project) ==
    loadPlugins(project) /\ project.refs # <<>> =>
        \A r \in {None} \cup DOMAIN project.runtimes, hook \in RUNTIME_DISPATCHED_HOOKS :
            LET plugin == resolveRuntimePlugin(project, r)
                owner == getOverride(project.refs, hook, plugin)
            IN  plugin # None =>
                    /\ plugin \in Names(project.refs)
                    /\ owner \in {plugin, Throws}
                    /\ owner = plugin <=>
                        \E i \in DOMAIN project.refs :
                            project.refs[i].name = plugin /\ hook \in project.refs[i].overrides
=============================================================================
