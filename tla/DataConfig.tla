----------------------------- MODULE DataConfig -----------------------------
(***************************************************************************)
(* components/data-config: one configuration, loaded in Init and again     *)
(* whenever its source reports a change.  The source is a directory that a *)
(* watcher scans, or redis with a channel on which changes are published.  *)
(* A version of the configuration is a number; some cannot be loaded.      *)
(***************************************************************************)
EXTENDS Naturals

CONSTANTS MaxVersion, BadVersions   \* bound on the edits; the versions that do not parse or load

VARIABLES
    source,     \* "file" or "redis"
    version,    \* what the source holds, from 1
    subscribed, \* redis has registered the subscription, the watcher its listing
    notices,    \* the changes reported and not yet received
    cpc, bytes, \* Component.Init and OnStop; what Init has read
    changeFn,   \* OnChange has been called
    wgo, got,   \* the goroutine of the source, and what it has read
    loaded,     \* the version the configuration was last loaded from, 0 before
    missed      \* history: the versions whose notice was lost, or that could not be read,
                \* and for which Init's own reading does not make up

configVars == <<source, version, subscribed, notices, cpc, bytes, changeFn, wgo, got, loaded, missed>>

ConfigInit ==
    /\ source \in {"file", "redis"} /\ version = 1 /\ subscribed = FALSE /\ notices = 0
    /\ cpc = "source" /\ bytes = 0 /\ changeFn = FALSE /\ wgo = "off" /\ got = 0
    /\ loaded = 0 /\ missed = {}
-----------------------------------------------------------------------------
\* Nobody will come back to version v, unless Init has still to read.
Miss(v) == missed' = IF cpc \in {"source", "read"} THEN missed ELSE missed \cup {v}

\* The operator edits; without a subscription the notice of redis reaches nobody.
Edit ==
    /\ version < MaxVersion /\ version' = version + 1
    /\ IF subscribed THEN notices' = notices + 1 /\ UNCHANGED missed
                     ELSE Miss(version + 1) /\ UNCHANGED notices
    /\ UNCHANGED <<source, subscribed, cpc, bytes, changeFn, wgo, got, loaded>>

\* Redis does not keep what is published while the connection of a subscriber is down.
LoseNotices ==
    /\ source = "redis" /\ notices > 0 /\ notices' = 0 /\ missed' = missed \cup {version}
    /\ UNCHANGED <<source, version, subscribed, cpc, bytes, changeFn, wgo, got, loaded>>

\* SourceFile.Init lists the directory before its goroutines start; SourceRedis.Init
\* leaves the subscription to one.
FileInit ==
    /\ cpc = "source" /\ source = "file" /\ cpc' = "read" /\ subscribed' = TRUE /\ wgo' = "select"
    /\ UNCHANGED <<source, version, notices, bytes, changeFn, got, loaded, missed>>
RedisInit ==
    /\ cpc = "source" /\ source = "redis" /\ cpc' = "read" /\ wgo' = "subscribe"
    /\ UNCHANGED <<source, version, subscribed, notices, bytes, changeFn, got, loaded, missed>>
Subscribe ==
    /\ wgo = "subscribe" /\ wgo' = "select" /\ subscribed' = TRUE
    /\ UNCHANGED <<source, version, notices, cpc, bytes, changeFn, got, loaded, missed>>

\* ReadBytes: what the source holds now, or 0 for an error (no such file or key, an
\* empty file, as an editor leaves it for a moment, a redis that does not answer).
ReadBytes == {0, version}

\* onLoadConfig: what does not parse or load leaves the configuration as it was.
OnLoadConfig(data) == loaded' = IF data \in BadVersions THEN loaded ELSE data

\* Init's own reading; without the data it goes on to the next configuration.
ReadFirst ==
    /\ cpc = "read"
    /\ \E data \in ReadBytes :
        IF data = 0 THEN cpc' = "hook" /\ missed' = missed \cup {version} /\ UNCHANGED bytes
                    ELSE cpc' = "load" /\ bytes' = data /\ UNCHANGED missed
    /\ UNCHANGED <<source, version, subscribed, notices, wgo, got, loaded, changeFn>>

\* Mutant: OnChange comes before what has been read is loaded.
LoadFirst_HookFirst ==
    /\ \/ cpc = "load" /\ ~changeFn /\ changeFn' = TRUE /\ UNCHANGED <<cpc, loaded>>
       \/ cpc = "load" /\ changeFn /\ cpc' = "up" /\ OnLoadConfig(bytes) /\ UNCHANGED changeFn
       \/ cpc = "hook" /\ cpc' = "up" /\ changeFn' = TRUE /\ UNCHANGED loaded
    /\ UNCHANGED <<source, version, subscribed, notices, wgo, got, bytes, missed>>

\* Component.Init: load what has been read, and only then OnChange.
LoadFirst ==
    /\ \/ cpc = "load" /\ cpc' = "hook" /\ OnLoadConfig(bytes) /\ UNCHANGED changeFn
       \/ cpc = "hook" /\ cpc' = "up" /\ changeFn' = TRUE /\ UNCHANGED loaded
    /\ UNCHANGED <<source, version, subscribed, notices, wgo, got, bytes, missed>>

\* The goroutine receives a notice and reads; after an error it goes on to the next one.
Receive ==
    /\ wgo = "select" /\ notices > 0 /\ notices' = notices - 1
    /\ \E data \in ReadBytes :
        IF data = 0 THEN Miss(version) /\ UNCHANGED <<wgo, got>>
                    ELSE wgo' = "change" /\ got' = data /\ UNCHANGED missed
    /\ UNCHANGED <<source, version, subscribed, cpc, bytes, changeFn, loaded>>
\* It calls changeFn if there is one.
Change ==
    /\ wgo = "change" /\ wgo' = "select"
    /\ IF changeFn THEN OnLoadConfig(got) /\ UNCHANGED missed
                   ELSE Miss(got) /\ UNCHANGED loaded
    /\ UNCHANGED <<source, version, subscribed, notices, cpc, bytes, changeFn, got>>

\* Stop of a file source closes the watcher; its goroutine ends when it next selects,
\* behind a change that it is at.
FileStop ==
    /\ source = "file"
    /\ \/ cpc = "up" /\ cpc' = "stopped" /\ subscribed' = FALSE /\ UNCHANGED wgo
       \/ cpc = "stopped" /\ wgo = "select" /\ wgo' = "end" /\ UNCHANGED <<cpc, subscribed>>
    /\ UNCHANGED <<source, version, notices, bytes, changeFn, got, loaded, missed>>

\* Stop of a redis source sends on a channel without a buffer to the goroutine's select.
RedisStop ==
    /\ source = "redis"
    /\ \/ cpc = "up" /\ cpc' = "stopping" /\ UNCHANGED <<wgo, subscribed>>
       \/ cpc = "stopping" /\ wgo = "select" /\ wgo' = "end" /\ cpc' = "stopped" /\ subscribed' = FALSE
    /\ UNCHANGED <<source, version, notices, bytes, changeFn, got, loaded, missed>>

\* Component.OnStop.
OnStop == FileStop \/ RedisStop
-----------------------------------------------------------------------------
ConfigSteps == FileInit \/ RedisInit \/ Subscribe \/ ReadFirst \/ LoadFirst \/ Receive \/ Change
ConfigNext == Edit \/ LoseNotices \/ ConfigSteps \/ OnStop

ConfigSpec == ConfigInit /\ [][ConfigNext]_configVars
-----------------------------------------------------------------------------
\* The configuration follows its source: when no notice is under way it is what the
\* last edit left, unless that cannot be loaded, whatever went wrong with the versions
\* before it.  The last edit itself is lost, until the next one, when its notice came
\* to nobody (no subscription yet, a broken one) or to a goroutine without OnChange
\* after Init had read, or when reading it failed: nobody reads again.
ConfigFresh ==
    cpc = "up" /\ notices = 0 /\ wgo # "change" /\ version \notin BadVersions \cup missed
        => loaded = version
=============================================================================
