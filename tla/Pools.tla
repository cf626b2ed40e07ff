-------------------------------- MODULE Pools -------------------------------
(***************************************************************************)
(* Which backend a command gets (src/super_q/pool_config.py and            *)
(* backends/__init__.py).  The backends that run elsewhere extend this     *)
(* module; each of them acts only when it is the one in use.               *)
(***************************************************************************)
EXTENDS Integers, FiniteSets, Sequences

CONSTANTS
  Names,    \* names a user gives to pools
  None

ASSUME PoolsAssumption == None \notin Names

VARIABLE pool   \* the kind of backend in use, "asked" before, "error" for none

Kinds == {"local", "docker", "modal", "fly", "ssh", "gha", "aws"}

\* config.toml: the kind of each pool it defines, a misspelt one too, and its default.
Configs ==
  [kinds : UNION {[S -> Kinds \cup {None}] : S \in SUBSET Names},
   default : Names \cup Kinds \cup {None}]

\* Only these constructors take a PoolSpec, and only these do without one.
TakesPool == {"modal", "fly", "ssh", "gha"}
NeedsPool == {"fly", "ssh", "gha"}

\* Constructing a backend fails where its tool, token or settings are missing.
Constructed(kind, withPool) ==
  IF kind \in (IF withPool THEN TakesPool ELSE Kinds \ NeedsPool)
    THEN {kind, "error"}
    ELSE {"error"}

\* SUPERQ_POOL beats the default of the file.
PoolName(config, asked, env) ==
  IF asked # None THEN asked ELSE IF env # None THEN env ELSE config.default

Resolved(config, asked, env) ==
  LET name == PoolName(config, asked, env) IN
  IF name = None THEN {"local"}
  ELSE IF name \in DOMAIN config.kinds THEN Constructed(config.kinds[name], TRUE)
  ELSE IF name \in Kinds THEN Constructed(name, FALSE)
  ELSE {"error"}

resolve_backend ==
  /\ pool = "asked"
  /\ \E config \in Configs, asked, env \in Names \cup Kinds \cup {None} :
       pool' \in Resolved(config, asked, env)
=============================================================================
