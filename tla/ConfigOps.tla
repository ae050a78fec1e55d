----------------------------- MODULE ConfigOps -----------------------------
(***************************************************************************)
(* Configurations (internal/config/config.go): which are valid, and how    *)
(* Load makes one of a file and of the environment of the process.         *)
(*                                                                         *)
(* A blank string is "".  Of a provider's keys a configuration keeps how   *)
(* many there are, and how many are not empty.  A document is what a file  *)
(* says: a record of those fields the file sets.  In a document the kind   *)
(* of a provider is the word that is meant and the form it is written in,  *)
(* and its keys are a sequence.                                            *)
(*                                                                         *)
(* The environment has the overrides, "" or 0 if they are not set or are   *)
(* not usable, and for each other variable the parts of its value between  *)
(* commas, <<>> if it is not set.                                          *)
(***************************************************************************)
EXTENDS Integers, Sequences, Functions, TLC

Kinds == {"openai", "nvidia", "openrouter", "groq", "together"}

\* Defaults.  Durations are in seconds, sizes in KiB.
Defaults ==
    [listen |-> "127.0.0.1:3000", bodyLimit |-> 65536, requestTimeout |-> 300,
     threshold |-> 3, cooldown |-> 60,
     cache |-> [enabled |-> FALSE, ttl |-> 3600, maxEntries |-> 256,
                maxBodyBytes |-> 1024, maxBytes |-> 65536, kinds |-> {"nvidia"}],
     providers |-> <<>>, models |-> <<>>, routes |-> <<>>]

\* What f has, and what else g has.
Over(f, g) == [x \in DOMAIN f \cup DOMAIN g |-> IF x \in DOMAIN f THEN f[x] ELSE g[x]]

\* json.Unmarshal over the defaults: what the file does not say stays, also
\* within the cache's section.
OverDefaults(doc) ==
    Over(IF "cache" \in DOMAIN doc THEN [doc EXCEPT !.cache = Over(@, Defaults.cache)] ELSE doc,
         Defaults)

Nonempty(parts) == SelectSeq(parts, LAMBDA k : k # "")

\* resolveProviderKeys and splitCSV: a variable that is set replaces the file's
\* keys, even by none at all.
KeysOf(p, env) ==
    IF p.keyEnv # "" /\ env.vars[p.keyEnv] # <<>>
    THEN Nonempty(env.vars[p.keyEnv]) ELSE p.keys

\* normalizeProviders.
NormalKind(kind) == IF kind.word = "" THEN "openai" ELSE kind.word

Resolved(p, env) ==
    [kind |-> NormalKind(p.kind), url |-> p.url,
     apiKeys |-> Len(KeysOf(p, env)), usableKeys |-> Len(Nonempty(KeysOf(p, env)))]

\* Mutant of WithEnvironment: the listen address of the file comes first.
WithEnvironmentButListen(c, env) ==
    [c EXCEPT !.bodyLimit = IF env.bodyLimit > 0 THEN env.bodyLimit ELSE @,
              !.requestTimeout = IF env.requestTimeout > 0 THEN env.requestTimeout ELSE @]

\* applyEnv.
WithEnvironment(c, env) ==
    [c EXCEPT !.listen = IF env.listen # "" THEN env.listen ELSE @,
              !.bodyLimit = IF env.bodyLimit > 0 THEN env.bodyLimit ELSE @,
              !.requestTimeout = IF env.requestTimeout > 0 THEN env.requestTimeout ELSE @]

\* What Load makes of a document, before it is validated.
Merged(doc, env) ==
    LET c == WithEnvironment(OverDefaults(doc), env)
    IN  [c EXCEPT !.providers = [p \in DOMAIN @ |-> Resolved(@[p], env)]]

\* Mutant of Valid: the routes are not checked.
ValidButForRoutes(c) ==
    /\ c.requestTimeout > 0 /\ c.threshold > 0 /\ c.cooldown > 0
    /\ \A a \in DOMAIN c.models :
        c.models[a].provider \in DOMAIN c.providers /\ c.models[a].timeout >= 0

\* Config.Validate.
Valid(c) ==
    /\ c.listen # ""
    /\ c.bodyLimit > 0 /\ c.requestTimeout > 0 /\ c.threshold > 0 /\ c.cooldown > 0
    /\ c.cache.enabled =>
        /\ c.cache.ttl > 0 /\ c.cache.maxEntries > 0 /\ c.cache.maxBodyBytes > 0
        /\ c.cache.maxBytes > 0 /\ c.cache.maxBytes >= c.cache.maxBodyBytes
        /\ c.cache.kinds # {} /\ "" \notin c.cache.kinds
    /\ DOMAIN c.providers # {} /\ DOMAIN c.models # {}
    /\ \A p \in DOMAIN c.providers :
        LET prov == c.providers[p]
        IN  prov.url = "absolute" /\ prov.kind \in Kinds /\ prov.apiKeys > 0
    /\ \A a \in DOMAIN c.models :
        LET model == c.models[a]
        IN  model.provider \in DOMAIN c.providers /\ model.upstream # "" /\ model.timeout >= 0
    /\ \A n \in DOMAIN c.routes :
        c.routes[n] # <<>> /\ Range(c.routes[n]) \subseteq DOMAIN c.models

\* Mutant of Loads: what could be read of a file is enough.
LoadsInPart(file, env) == file.state # "missing" /\ Valid(Merged(file.doc, env))

\* Load succeeds on a file that is there, is all there, and is valid.  (What
\* there is of a file that is being written is not JSON: an object that has
\* begun and not ended.)
Loads(file, env) == file.state = "whole" /\ Valid(Merged(file.doc, env))
=============================================================================
